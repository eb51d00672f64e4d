# A formal model of the Ingle runtime

This directory holds TLA+ modules, TLC configurations and TLAPS proofs about
Ingle (the `ember` virtual machine, its native runtime and its compiler).
Paths are relative to the repository; line numbers are of the commit modelled.

* [1. The system](#1-the-system)
* [2. What is modelled](#2-what-is-modelled)
* [3. The M:N scheduler](#3-the-mn-scheduler)
* [4. The channel object](#4-the-channel-object)
* [5. The 1:1 runtime](#5-the-11-runtime)
* [6. The serial runtime](#6-the-serial-runtime)
* [7. The object heap](#7-the-object-heap)
* [8. The ownership checker](#8-the-ownership-checker)
* [9. Record and replay](#9-record-and-replay)
* [10. Property checking](#10-property-checking)
* [11. What is proved](#11-what-is-proved)
* [12. Where code and documents disagree](#12-where-code-and-documents-disagree)
* [13. Bounds, fairness, abstractions](#13-bounds-fairness-abstractions)
* [14. Not modelled](#14-not-modelled)
* [15. Plan](#15-plan)

Run a check with `tlc -config mn_pipeline.cfg MCMNScheduler`, and a proof with
`tlapm MNSchedulerProofs.tla`.

## 1. The system

Ingle is a statically typed language with a bytecode VM, a C backend, a
language server, a self-hosted compiler and a bare-metal kernel. Its
concurrency is *structured*: `nursery { spawn f(..) }` starts tasks which the
closing brace joins, and tasks talk only through bounded channels.

| Component | Source | State it keeps | Operations | What makes it correct |
|---|---|---|---|---|
| M:N green-thread scheduler | `src/vm.c` (`EMBER_MN`) | per fiber: a state, an instruction pointer, a saved stack pointer, its group, a queue link; the ready-queue, the pinned slot, idle and live counters; per nursery: children, live count, cancel flag, verdict | `rq_push`, `rq_pop`, `requeue`, `ch_park`, `ch_unpark`, `finish_child`, `OP_SEND` … `OP_NURSERY_END`, `exit()` | one worker per fiber, one place per READY fiber, no lost wakeup, true deadlock verdicts, a failing task unwinds its group |
| Channel object | `alloc_channel`, `em_channel_*`, the `OBJ_CHANNEL` case of `drop_value` | ring buffer, head, count, capacity, closed flag, owner count | `channel`, `send`, `recv`, `try_recv`, `close`, share, drop | a bounded FIFO, shared by its owners and drained by the last |
| 1:1 thread-per-spawn runtime | `nursery_park`, `worker_entry` in `src/vm.c`; `em_nursery_*` in `src/runtime.c` | per nursery: total, nwaiting, what each task waits for; per channel a condition variable | as above, blocking on condition variables | the same promises, kept with blocking waits |
| Serial N:1 scheduler | `OP_NURSERY_END` in `src/vm.c` without threads | one stack of groups per VM, one scheduler loop per open brace | spawn, the passes over a group, yield on a channel, the verdict | a group ends with its tasks, a verdict names tasks that cannot move, every program ends |
| Bytecode interpreter | `run` in `src/vm.c` | value stack, frames | some 150 opcodes | the language's semantics |
| Object heap | `src/runtime.c`, `Heap` in `src/vm.c` | per task an object list and a pool, both without a lock; reference counts, an object's home | allocate, share, clone, send, drop, merge, exit sweep | nothing freed in use, nothing freed twice, no arena changed by another task |
| Lexer, parser | `src/lexer.c`, `src/parser.c` | token and tree | parse | the grammar |
| Type and ownership checker | `src/check.c` | per local: moved on some path, moved on every path; per construct what its branches and exits contribute | one case per statement | no use after move, no handle left open, and the emitted drops release everything once |
| Code generator, container | `src/codegen.c`, `src/bytecode_io.c` | chunks | emit, write, read | read after write is the identity |
| Native backend, FFI | `src/cgen_c.c`, `src/cextern.c` | none at run time | emit C, marshal | agrees with the VM |
| Static prover | `src/prove.c` | facts | discharge contracts | never proves a false one |
| Faults, tape, replay, property checking | `src/fault.c`, `src/trace.c`, `vm_replay` and `vm_check` in `src/vm.c` | the log and the position in it; the arguments being shrunk | record, substitute, judge; generate, shrink, report | a replay is the recording; a counterexample fails and is minimal, ok is earned |
| Language server | `src/lsp.c`, `src/semindex.c` | open documents, index | requests and notifications | answers about the current text |
| Driver, diagnostics, docs | `src/main.c`, `src/diag.c`, `src/docgen.c` | none | command line | — |
| Arena | `src/arena.c` | blocks, offset | bump, reset | disjoint allocations |
| Kernel | `src/kernel/` | ticks, device registers | interrupt, sleep | monotone time |
| Standard library | `std/*.ig` | slotmap, map, sockets… | library calls | e.g. stale handles are refused |
| Self-hosted compiler, seed | `selfhost/`, `bootstrap/` | as the C compiler | as the C compiler | fixed point |

**How they interact.** `vm_run` interprets the main program as a fiber. With
`EMBER_MN` it starts one worker thread per processor besides the calling
thread. Workers share the Scheduler (under `s->lock`), each nursery (under
`n->lock`) and each channel (under `ch->lock`); no lock is held while another
is taken, but for `n->lock` in the cancel sweep. Who may touch a fiber is
decided by compare-and-swaps on its state: `PARKED -> READY` by the one waker
that requeues it, `READY -> RUNNING` by the one worker that runs it. Values
cross between tasks in channels; the channel itself is shared by count.

**What is hard.** Everything that goes wrong here goes wrong *between* two
critical sections: a fiber is visible to wakers before its progress is saved; a
cancel flag is read before the lock under which the fiber parks; a sweep
requeues a fiber that a channel also remembers; the last child and the parent
race for the join; a deadlock verdict is a snapshot of counters. Unit tests run
on schedules in which none of this happens. `PROJECT.json` lists each hazard at
its line with the properties that would catch it.

## 2. What is modelled

| Module | Of | Role |
|---|---|---|
| `BoundedChannel` | what a channel promises | the abstract bounded queue |
| `RingChannel` | the channel object | ring buffer, owners, drop; implements `BoundedChannel` |
| `RingChannelProofs` | | its two theorems |
| `MNScheduler` | the M:N runtime | fibers, workers, channels, nurseries; each of its channels implements `BoundedChannel` |
| `MCMNScheduler` | | one script per fiber: the programs of the runs |
| `MNSchedulerProofs` | | its twelve theorems |
| `ThreadNursery` | the 1:1 runtime, VM and native | threads, blocking channels, the detector and its verdict; each of its channels implements `BoundedChannel` |
| `MCThreadNursery` | | the programs of its runs |
| `ThreadNurseryProofs` | | its three theorems |
| `SerialNursery` | the default runtime | groups, passes, the verdict; each of its channels implements `BoundedChannel` |
| `MCSerialNursery`, `SerialNurseryProofs` | | the programs of its run; its five theorems |
| `ObjectHeap` | the object runtime under the parallel builds | arenas, pools, counts, homes, merge and sweep |
| `MCObjectHeap`, `ObjectHeapProofs` | | its instance; its five theorems |
| `MoveChecker` | the ownership checker and the code emitted for what it accepts | the analysis, and every run of an accepted body |
| `MoveCheckerProofs` | | its four theorems |
| `RecordReplay` | `--emit=replay` | the log, the substitution, the verdict |
| `MCRecordReplay`, `RecordReplayProofs` | | the programs of its run; its two theorems |
| `PropertyCheck` | `--emit=check` | trials, rejects, shrinking, the report |
| `MCPropertyCheck`, `PropertyCheckProofs` | | the programs of its run; its four theorems |

The modules of the runtimes meet in `BoundedChannel`: the M:N scheduler sees a
channel as a queue with two waiter FIFOs, the 1:1 runtime as a queue with a lock
and two condition variables, the serial one as a queue that makes its user
yield, and the ring module shows that the C struct is such a queue.
`ObjectHeap` is what the runtimes' tasks do to memory, with scheduling left
open; `MoveChecker` is why its structs and arrays have one owner. Section 14
lists what is not modelled.

Each module has its types in `TypeOK`. It is proved for the M:N and 1:1 runtimes,
the heap, the ownership checker and the ring, whose run also checks it because it bounds the indices. For the
other modules add it to the `INVARIANTS` of the configuration; it holds there.

## 3. The M:N scheduler

### State

| Variable | C |
|---|---|
| `fstate`, `nursery`, `curOpen`, `qnext` | `Fiber.state`, `.nursery`, `.cur_open_nursery`, `.qnext` |
| `pc` | `frames[..].ip`, in the fiber's own memory: whoever runs the fiber writes it |
| `savedSp`, `sp` | `f->sp` and the worker's `vm->sp`, as the script position they belong to |
| `head`, `tail`, `pinned`, `nready`, `nidle`, `live`, `shutdown`, `halting`, `reported`, `globalError` | the fields of `Scheduler` |
| `group[n]` | `Nursery`: live, parent, parent_parked, enclosing, cancel, error, children |
| `nlock` | who holds `n->lock` |
| `buf`, `closed`, `recvq`, `sendq` | the channel's contents, flag and waiter FIFOs |
| `wpc`, `cur`, `todo`, `then`, `chain`, `result`, `exitRequested`, `direct` | a worker's place in the code and its locals |
| `freed` | which fibers have been freed (the model's own) |

### Grain

An action is one critical section or one atomic access, in the order the code
performs them. Only `n->lock` is held across actions (while the sweep requeues
siblings), so it alone has a variable. Three short critical sections of
`OP_SPAWN` are one action: until the last of them nobody else can act on the
child, and the worker is not idle.

A fiber runs a *script*, the sequence of its operations on channels and
nurseries. `loop` is a backward jump (`OP_LOOP`, a cancellation seam), `fail`
any run-time error.

| Code | Actions |
|---|---|
| `OP_SEND` | `CheckCancel`, then `SendClosed`, `SendPark` or `SendPut` |
| `OP_RECV` | `CheckCancel`, then `RecvPark`, `RecvValue` or `RecvNone` |
| `OP_TRY_RECV` | `PollValue`, `PollNone` |
| `OP_CLOSE` | `CloseChannel`, then `WalkChain` for each waiter |
| `requeue`, `rq_push` | `Requeue` (the compare-and-swap), `Push` |
| `OP_LOOP`, return and errors, `exit()` | `Loop`, `Return`, `Exit` |
| `OP_NURSERY_BEGIN`, `OP_SPAWN` | `Open`, `Spawn` |
| `OP_NURSERY_END` | `JoinPark`, `Rewind`, or `JoinDone` |
| `rq_pop` | `PopPinned`, `PopReady`, `PopShutdown`, `PopWait`, `PopDeadlock`, `SpuriousWakeup` |
| `run_fiber_once` | `Save` |
| `finish_child` | `Finish`, `Verdict`, `Sweep`, `Unlock`, `Account`, `Tally` |
| `scheduler_worker_main`, the rest | `Halt`; leaving is the end of `PopShutdown`, `PopDeadlock` and `Tally` |

### Runs and what they show

| Run | Program (in `MCMNScheduler`) | Checked | Shows |
|---|---|---|---|
| `mn_pipeline` | two producers, two consumers (one is the main fiber in the nursery's body), capacity 1; in the end one task waits for ever | `WaitersParked`, `DeadlockIsReal`, `StuckIsReported` | no wakeup is lost, the verdict comes, and comes only when the fibers left are really stuck |
| `mn_closing` | a channel of capacity 2 is filled, polled, drained and closed; one task waits for ever, one calls `exit()` | `MainOnCallingThread`, `ChannelsAreQueues`, `RunSucceeds` | channels are bounded FIFO queues in which values wait behind one another, the main fiber stays on the calling thread, `exit()` empties the pool without an error |
| `mn_failing` | three workers; a task fails on its closed channel beside one that computes and one that waits for a value of the main fiber, then computes | `OneInterpreter`, `EnqueuedOnce`, `LiveCounts`, `FreedAfterFinish`, `CancelledGroupUnwinds`, `FailureEndsRun` | wake, sweep and join race, and each fiber is queued once, in one worker's `run()`, counted right, and freed when no `finish_child` and no sweep needs it; the group unwinds and the error reaches the main fiber |

Why these properties: `EnqueuedOnce` relates the linked ready-queue, the pinned
slot, the hands of the wakers and the fibers' states; `LiveCounts` relates the
two counters with the progress of every `finish_child`; `DeadlockIsReal` relates
the counters `rq_pop` looks at with what each fiber waits for, and so fails both
for a verdict that comes too early and for a wakeup that is lost.

`OneInterpreter` counts a worker as inside `run()` up to the parent's
`frame->ip--` (stage `rewind`), which comes after the parent has parked. In
`mn_failing` only the main fiber joins, and it comes back to the worker that
decrements; a nursery opened by a task breaks it (`mn_rewind_race`).
`FreedAfterFinish` is about the workers that still have a fiber in hand and the
sweeps that still have it before them; that the worker which ran a fiber has made
its *last* access to it, the writes after `run()` included, is `FreedAfterUse`,
and the code does not keep it (`mn_retire_race`, section 12). No waiter is left on the channel that is closed in
`mn_failing`: section 12 says which programs break `EnqueuedOnce`, and
`CancelledGroupUnwinds`.

## 4. The channel object

`RingChannel` keeps `buffer`, `first` (the C's `head`), `count`, `closed` and the owner
count, and models `alloc_channel` (the capacity clamp), send and receive on the
ring, close, `OP_INCREF` (share) and `drop_value`: the last owner drains the
values; in its home context it frees the shell, in a foreign one it leaves the
shell to the exit sweep. The run `ring` (three requested slots, two owners, two
values) checks `TypeOK` and, through the refinement mapping
*the values from `first` on, none after the last drop*, `IsQueue`: it implements `BoundedChannel`. Deadlock
is not checked there: after the last drop nothing is left to do.

## 5. The 1:1 runtime

Built with `EMBER_PARALLEL`, the VM gives each task a thread of its own when it
is spawned; a compiled program (`src/runtime.c`) always does. A channel blocks
its user on a condition variable. The nursery's *detector* counts who waits:
the last task to park, or the closing brace when it *seals* the group, looks
whether any parked task could go on, and otherwise declares a deadlock. In the
VM the tasks then wake and return the error; a compiled program exits with 70.
One module describes both; `setup.native` says which is running.

| Variable | C |
|---|---|
| `stage` | where a thread is inside `OP_SEND`, `OP_RECV`, `OP_SPAWN`, `OP_NURSERY_END` or their native counterparts |
| `parked` | whose `parked_here` is 1; with it `recv_waiters` and `send_waiters` |
| `nursery`, `opened` | `vm->nursery` (`em_cur_nursery`); `vm->runs[0 .. group_depth - 1]`, innermost first |
| `group[n]` | `Nursery`: the slots in use (`total`), `active`, `sealed`, `deadlocked`; `nwaiting` is the size of `active` |
| `owner` | who holds `ch->lock` |
| `buf`, `closed` | the channel's contents and flag |
| `failed` | whose `result` is an error |
| `setup`, `pc`, `up` | the program (a script for each thread), the place in it, and whether the process exists |

**Grain.** `ch->lock` is held while a thread parks, and `pthread_cond_wait` gives it up,
so it is a variable and a send or receive takes up to eight steps:

    Enter -> Register -> NurseryPark -> KeepWaiting -> Sleep ~> Reacquire -> StopWaiting -> SendPut
             (loop, first time)         (loop, again)        (signalled)     (out of the loop)

A nursery's lock is released in the section that takes it: each is one step. A
signal wakes one sleeper, chosen nondeterministically, and is skipped when no
waiter is registered; `SpuriousWakeup` is the one POSIX allows.

| Run | Program | Checked | Shows |
|---|---|---|---|
| `threads` | eleven programs: channels that fill, drain, starve and close; a failing task; `exit()`; a task with its own nursery; tasks no thread can be had for | `WakeupsSuffice`, `VerdictIsReal`, `ChannelsAreQueues`, `EndsOrReported` | no wakeup is lost, no verdict is false, and each program ends or is reported |

`WakeupsSuffice` is the argument for skipping signals: a value in a channel with
a sleeping receiver has a thread on its way to take it, and likewise for free
slots. It relates sleepers, wakers and contents, and fails when a send looks at
the wrong one of the two counters. `VerdictIsReal` is about all that comes after a
verdict: nobody it covers can go on, until each has returned the error.

## 6. The serial runtime

The VM as it is built by default has one OS thread. `OP_SPAWN` only queues its
task; `OP_NURSERY_END` runs the tasks of the innermost group, pass after pass,
each until it blocks (`VM_YIELD`) or ends. Loops nest on the C stack, and the
groups are one stack *per VM*, indexed by `group_depth`: nothing in it says
whose group a level is.

| Variable | C |
|---|---|
| `depth`, `groups` | `vm->group_depth`; `vm->groups` and `vm->group_sizes` |
| `loops` | the locals `g`, `n`, `done`, `i`, `progressed` of each active `OP_NURSERY_END`, innermost last |
| `picking`, `current` | whether a loop or a task is in control, and which task |
| `blocked` | whose `block_channel` is set |
| `buf`, `closed`, `exiting`, `outcome` | the channels, `vm->exit_requested`, what `vm_run` returned |
| `opened`, `home`, `left`, `crossed` | history: whose body is open, where a task was spawned, what has been left, and whether a task was suspended in a body or jumped out of one, or a spawn was executed outside of every body |

One action is one bytecode operation of the running task or one decision of the
loop (`Resume`, `NextPass`, `Deadlock`, `EndNursery`). There is no concurrency,
and yet many orders: they come from who blocks where.

A program is a script per task. `ProgramAssumption` says what the checker and the
code generator guarantee of one: nurseries are blocks (`Bracketed`), and an
operation stands for one execution of it, so that a spawn makes a new task and an
`open` enters a new nursery. A spawn may stand outside of the bodies of its own
task (a lambda, section 12).

The run `serial` goes through some thousands of programs of nine shapes, up to four tasks,
three levels and three tasks a group:

| Property | Says |
|---|---|
| `GroupsIntact` | no task opens or closes the level a loop is iterating (the hazard the comment at `src/vm.c:4171` describes), and no group outgrows its array |
| `TasksEndFirstUncrossed` | a nursery that has been left has no unfinished task, unless bodies were crossed; without the exception see section 12 |
| `DeadlockIsReal` | the verdict is given only when no task of the group can move (the verdict of a loop: a main program that blocks in a nursery's body ends in "the main task blocked on a channel", `src/vm.c:4645`, though a task it has queued might serve it) |
| `ProgramIsStuck` | given by the loop of the outermost nursery, no task of the program can, as long as no body was crossed and nobody called `exit()`; an inner one knows less (section 12) |
| `ChannelsAreQueues` | each channel implements `BoundedChannel` |
| `AlwaysEnds` | every program ends or is reported: no pass counts as progress for ever |

## 7. The object heap

Under the parallel builds each task has an `EmberRt`: a list of the objects it
allocated and a pool of dead blocks, used without a lock. An object names its
allocator, `home`; `reclaim` unlinks and pools it only in that context, and
leaves it linked in any other. When a task ends, its list goes to the shared
graveyard and its context's memory to `malloc`.

| Variable | C |
|---|---|
| `objects`, `pool` | `EmberRt.objects`, `.pool` (of one size class), as sets |
| `graveyard`, `gpool` | the fields of `Heap` |
| `shared`, `refcount`, `home` | the object's kind (counted, or owned by one reference) and header |
| `kids` | the references in its fields, elements or channel buffer |
| `holds` | the references on each task's stack |
| `todo` | what the recursion of `drop_value` has still to do |
| `made`, `lost`, `reused` | bound; references of tasks that ended early; whether a context came to lie at an address that live objects still name |

A drop is as many steps as it has calls, so that other contexts act in between.
The run `heap` has the main context and two tasks, a channel and three blocks; any task may spawn, and gives its child any
of the blocks it owns and references to the channel (borrowed arguments, which
count for nothing, are left out):

| Property | Says |
|---|---|
| `OwnArenaUnlessReused` | no context changes another's list, unless an address was reused (section 12) |
| `ReachableIsLinked` | what a stack, an object or a pending drop refers to is on a list and in no pool, and nothing is reclaimed twice (what `EMBER_DROP_TRACE` looks for at run time) |
| `CountsExact` | a count is the number of references, a struct or array has at most one |
| `OneList` | each block is on one list or in one pool |

`Drains` chooses between `retire_fiber` (M:N), which frees the pool, and
`worker_entry` (1:1), which keeps it; the run has the first.

## 8. The ownership checker

`MoveChecker` writes a function body, statement by statement, and does with each
what `check_stmt` does: `moved` is the OR over the paths that reach a point (an
error to read), `consumed` the AND (a handle must be in it where its scope
ends). A body the checker accepts is then run, along every path, as the code
of `src/codegen.c` does: a read that moves clears the slot, scope ends drop what
slots hold, an assignment drops first. So the properties are about the *pair*:
is what the analysis allows safe to execute?

| C | Module |
|---|---|
| `Local.moved`, `.consumed`, scope | `moved`, `consumed`, `locals` |
| `c->unreachable`, `stmt_diverges` | `dead`, `diverges` |
| the snapshots `pre`, `pre_c`, `else_c` ..., `c->loop_backedge_moved`, `c->loop_break_consumed` | the fields of a `Frame` |
| `STMT_LET`, a read, an owning read, `STMT_ASSIGN` | `Let`, `Use`, `Take`, `Set` |
| `STMT_IF`, `STMT_MATCH`, `STMT_LOOP`, `STMT_FOR` | `Open`, `Else`, `EndIf`; `Case`, `EndMatch`; `EndLoop` |
| `STMT_BREAK`, `STMT_CONTINUE`, `STMT_RETURN`, the closing brace | `Break`, `Continue`, `Return`, `Finish` |
| the emitted code | the actions `Run...`, and `Crash` for a read of a cleared slot |

`forgotten` and `misjudged` are history: where, at the exits of a loop, the
analysis and the truth part. The run `moves` (all bodies of up to seven
statements over one binding, a box or a handle) shows that these are the *only*
places: `UseLive` and `NothingLeaks` hold but for those bindings, and `OwnedOnce`,
that no value is released twice, holds without exception. The theorems of
section 11 say the same of any number of bindings and bodies of any length and
nesting. The run `moves_break` and the configuration `moves_for` end in a body that is accepted and reads a cleared slot:
`moves_for` in the shortest of all, a `for` whose body assigns what was moved before
it and does not run; `moves_break` in the shortest without an assignment, which needs
a break in an arm of its own (section 12).

`src/check.c` is the checker of the stage-0 compiler (`make stage0`). The
self-hosted one has another treatment of assignments in loops: it refuses the body of
`moves_for` and accepts that of `moves_break`.

## 9. Record and replay

`vm_replay` runs a program twice: `nondet_mode` 1 logs each value from outside,
`nondet_mode` 2 answers from the log. `RecordReplay` has one VM's state (`vm`: place, datum, output,
log position, outcome), `log`, and as history `path`, every state of the recorded
run. An instruction draws a scalar, reads a string, calls C (any number of
result leaves), calls C for something that is not a leaf (`callout`), prints, writes,
branches back on the datum, or ends the run.

The run `replay` goes through all programs of three of eleven instructions and a
return; every draw may give any value:

| Property | Says |
|---|---|
| `Lockstep` | the replay of a captured program is, instruction by instruction, where the recorded run was, with the same datum, output and log position |
| `CapturedIsReproduced` | a captured run that succeeds is called deterministic |
| `ReplayEnds` | each entry is handed out once, so that a loop that ended ends again |

*Captured* programs have neither a `callout` (the code says that these are not
replay-safe) nor `exit()` (its run leaves `out1` unwritten, section 12).

## 10. Property checking

`vm_check` runs each checkable function on generated inputs in one VM, shrinks the
first failing one in place, and runs it once more for its message. What a
function does on an input is chosen when it first runs on it and then kept, if
it is `pure`. `at` is the position of `shrink`: leaf, element, what it tries, whether
this pass improved. The run `check` has a function that may call `exit()` before one
that may do anything, one over two leaves, one over an array, and one over an
array that draws random values:

| Property | Says |
|---|---|
| `CounterexampleFails` | the reported input is one the function ran on and failed: no edit is left unrestored |
| `CounterexampleIsMinimal` | every single drop, zero or halving of it was tried and did not fail on any try, unless shrink ran out of passes: also of a function that is not pure |
| `DetailIsItsOwn` | the reported message is that input's, for a pure function and no earlier `exit()` |
| `OkMeansNoFailure` | ok means the full number of trials or of rejects, and no failure that was not cut short by `exit()` |
| `CheckEnds` | generation, rescans and passes end, even when the function answers at random |

## 11. What is proved

All theorems are checked by TLAPS for every value of the constants, under the
named assumptions of the modules: `SchedulerAssumption` (the main fiber is a
fiber, worker 0 has started, capacities are positive, scripts are sequences of
operations), `FinitePool` (finitely many workers, and fibers in a run), `ThreadAssumption` and `SetupAssumption` (the same of the 1:1
runtime, of which a run starts finitely many threads), `TaskAssumption` and `ProgramAssumption` (of the serial one),
`HeapAssumption`, `TextAssumption`, `ReplayAssumption`, `CheckAssumption` and the
assumptions of `RingChannel` on its constants.

| Theorem | Says |
|---|---|
| `MNSchedulerProofs!TypeCorrect` | `Spec => []TypeOK` |
| `MNSchedulerProofs!OverlapsOnlyAtRewind` | `Spec => []Overlap`: two workers are in `run()` with one fiber only while one of them has still to rewind its `ip`, for any pool, fibers, scripts |
| `MNSchedulerProofs!OneWorkerPerFiber` | `Spec => ([]RewoundFirst => []OneInterpreter)`: never, if no parent is claimed before it has rewound |
| `MNSchedulerProofs!OneWorkerIfOnlyMainJoins` | `Spec => ([]MainStays /\ []NoCancel => []OneInterpreter)` when only the main fiber joins: there the scheduler keeps that premise itself |
| `MNSchedulerProofs!ChannelsImplementQueues` | `Spec => ChannelsAreQueues`: each channel implements `BoundedChannel` |
| `MNSchedulerProofs!CountsAreLive` | `Spec => ([]MainStays => []LiveCounts)`: the live counters are right, whatever fails, unless the main fiber calls `exit()` before it first parks |
| `MNSchedulerProofs!FreedAfterLastFinish` | `Spec => ([]MainStays => []FreedAfterFinish)`: no fiber is freed that a worker has in hand or a sweep before it, in the same programs |
| `MNSchedulerProofs!FreedAfterLastUse` | `Spec => ([]MainStays /\ []SavedFirst => []FreedAfterUse)`: nor one that a worker has still to rewind or save, if each fiber is saved before it is run again |
| `MNSchedulerProofs!WaitersAreParked` | `Spec => ([]MainStays /\ []NoCancel => []WaitersParked)`: while no group is cancelled, what is on a FIFO is parked, and there once |
| `MNSchedulerProofs!MainStaysHome` | `Spec => ([]MainStays /\ []NoCancel => []MainOnCallingThread)`: nor does the main fiber leave the calling thread |
| `MNSchedulerProofs!ReadyAreQueuedOnce` | `Spec => ([]MainStays /\ []NoCancel => []EnqueuedOnce)`: a READY fiber is in one place, and `nready` is the length of the linked queue |
| `MNSchedulerProofs!VerdictIsTrue` | `Spec => ([]MainStays /\ []NoCancel /\ []RewindFirst => []DeadlockIsReal)`: the deadlock verdict is a true one |
| `ThreadNurseryProofs!TypeCorrect` | `Spec => []TypeOK` for the 1:1 runtime |
| `ThreadNurseryProofs!VerdictCorrect` | `Spec => ([]OneNursery => []VerdictIsReal)`: with one nursery open at a time the VM's verdict is never false, for any threads, channels, capacities and scripts |
| `ThreadNurseryProofs!WakeupsAreEnough` | `Spec => []WakeupsSuffice`: no wakeup of a channel is lost, in either build, for any programs |
| `RingChannelProofs!TypeCorrect` | the indices stay inside the ring |
| `RingChannelProofs!RingIsQueue` | the ring refines `BoundedChannel` |
| `SerialNurseryProofs!ChannelsImplementQueues` | `Spec => ChannelsAreQueues` for the serial runtime |
| `SerialNurseryProofs!VerdictsAreReal` | `Spec => []DeadlockIsReal`: any programs, any nesting |
| `SerialNurseryProofs!LoopsKeepTheirGroups` | `Spec => []GroupsIntact`: a loop keeps the group it iterates, whatever its tasks open, leave and suspend in |
| `SerialNurseryProofs!TasksStayInScope` | `Spec => []TasksEndFirstUncrossed`: no task outlives its nursery while no body is crossed |
| `SerialNurseryProofs!DeadlockIsTotal` | `Spec => []ProgramIsStuck`: the outermost verdict is about the whole program |
| `ObjectHeapProofs!ListsDisjoint` | `Spec => []OneList`, address reuse included |
| `ObjectHeapProofs!HomeIsEnough` | `Spec => []OwnArenaUnlessReused`: comparing homes suffices while addresses are not reused |
| `ObjectHeapProofs!TypeCorrect` | `Spec => []TypeOK`: no count goes below zero |
| `ObjectHeapProofs!CountsAreExact` | `Spec => []CountsExact`: a count is the number of references, for any tasks and objects, address reuse included |
| `ObjectHeapProofs!ReachableStaysLinked` | `Spec => []ReachableIsLinked`: nothing is freed while it can be reached, nothing is reclaimed twice |
| `MoveCheckerProofs!SingleOwner` | `Spec => []OwnedOnce`: whatever body is accepted, of any length |
| `MoveCheckerProofs!ReadsFindValues` | `Spec => []UseLive`: no read of an accepted body finds a cleared slot, but for the bindings in `forgotten` |
| `MoveCheckerProofs!EverythingReleased` | `Spec => []NothingLeaks`: an accepted body releases everything, but for the handles in `misjudged` |
| `MoveCheckerProofs!TypeCorrect` | `Spec => []TypeOK` for the checker and the run |
| `RecordReplayProofs!ReplayFollows` | `Spec => []Lockstep`, for every program |
| `RecordReplayProofs!HonestIsNotAccused` | `Spec => []CapturedIsReproduced` |
| `PropertyCheckProofs!CounterexampleIsReal` | `Spec => []CounterexampleFails` |
| `PropertyCheckProofs!OkIsEarned` | `Spec => []OkMeansNoFailure` |
| `PropertyCheckProofs!MessageIsItsOwn` | `Spec => []DetailIsItsOwn` |
| `PropertyCheckProofs!CounterexampleIsSmallest` | `Spec => []CounterexampleIsMinimal`, for functions that are not pure too |

**The argument for `OneInterpreter`.** By itself it is not inductive: a worker
that claims a fiber must know that nobody interprets it. The strengthening is
`InterpretedHeld`: whoever is inside `run()` and has not parked works on a fiber
that is RUNNING. A claim needs a READY fiber, so nobody is interpreting it; a
park makes the fiber PARKED and ends the interpretation, but for the parent's
`frame->ip--`; a requeue needs a PARKED fiber. `Disciplined(w)` adds where a
worker goes after its requeues. This gives `OverlapsOnlyAtRewind` for every
program, and it needs *nothing* about the waiter FIFOs: even the stale entries of
section 12 cannot make two workers interpret a fiber. What is left is the one
decrement after the park. It overlaps with another worker exactly when the parent
is claimed before it (`RewoundFirst` is the premise of `OneWorkerPerFiber` and
excludes it). Of a main fiber that can be shown: only worker 0 claims it, and worker 0
is the one that decrements, which is `OneWorkerIfOnlyMainJoins`.

**The argument for the last use.** `LiveInv` (below) says that whoever a nursery frees is DONE
and nobody has it in hand; that gives `FreedAfterFinish` in every program in which the
main fiber stays. A worker between its park and its `Save` has let go of the fiber, and
nothing in the code stops the next one from running it to its end. `SavedFirst` says
that no fiber runs while another worker has still to save it; with it a fiber that is not saved is
parked or READY (`Unsaved`, kept by `SaveArrives`), hence not DONE, hence not freed.

**The argument for the live counters.** `LiveInv` says with which fiber a worker is, and
where with it (`Stage`): it runs it, or takes it out of its group, or out of the
program; a fiber that is run is RUNNING, one that is taken out is DONE, and nobody
else is with it (`Engagement`). So each fiber is finished once. A group's count is then the number of its
members (`Census`): a spawn adds one that was unborn, `Account` takes out the one its worker is
with, and no other step changes who is in. A nursery that is closed has a count of zero,
hence no member: its children are DONE, nobody is with them any more, and they may
be freed (`Histories`). That the nursery a fiber closes is one that is open, and closed
once, is `Nesting`. The premise `MainStays` is needed: if the main fiber calls `exit()` in
`vm_run`'s own run of it, worker 0 keeps `exit_requested` and finishes fibers that only parked
(section 12), which other workers may resume and finish again. Cancels, sweeps and the races of section 12
do no harm here: the theorem has no other premise.

**The argument for the channels.** The contents never exceed the capacity
(`WithinCapacity`); with it each action that touches a channel is a `Put`, a
`Take` or a `Close` of `BoundedChannel`, and every other action leaves it alone.
For the ring the type invariant suffices: `first` and `count` are within bounds,
so the slot `Send` writes, `count` places after `first` modulo the capacity, is
none of those that hold a value, and advancing `first` drops exactly the oldest.

**The argument for the places of a fiber.** The model's variables do not say where a
fiber is: the ready-queue and the chain of a close share the links `qnext`. `Placed` says
that there is a map `at` that does: each fiber that is PARKED is on one FIFO, in one chain, in the
hands of one waker or at the brace of one nursery, each that is READY in the hands of one waker, in
the ready-queue or in the pinned slot, and the queues hold exactly the fibers whose
place they are, linked in the order of their ranks (`List`). A step moves one
fiber from one place to another, or (a close) the whole of two FIFOs into one
chain, and leaves the rest alone (`Agree` and the frame lemmas). `EnqueuedOnce` counts what
lies 0, 1, 2, ... links after `head`; that this is the list, once each (`InOrder`), is
an induction on the number of links, for which the library's `WFMin` gives the least
number at which it fails. The premise `NoCancel`, no group has been cancelled, is needed: a sweep requeues fibers that
stay on their FIFOs (section 12, `mn_close_corrupts`). `MainStays` comes with the live
counters.

**The argument for the verdict of the M:N scheduler.** When `rq_pop` gives it, all
workers but one wait (`Idling`: `nidle` is their number), and from then on they
only leave (`Quiet`). So no fiber is running (`Attended`) or on its way, and each that is left is on a FIFO
or at a brace. That it waits there in vain is `Matched`: while receivers wait on a
channel, each value in the buffer has a fiber that is about to receive and does not
wait, and likewise the senders and the free slots. A put takes a receiver off the
FIFO for the value it adds; a receiver that takes a value is gone, and so is the
value; a close leaves nobody waiting. With nobody but waiters left, the buffer of a channel with a
waiting receiver is empty. The premise `RewindFirst`, no parent of a nursery is
woken before it has rewound its `ip`, excludes the race of `mn_rewind_race`, after which a fiber goes
on at another operation than the one it parked in.

**The argument for the verdict of the 1:1 runtime.** `VerdictIsReal` needs to know that nobody is
left who could change a channel. The inductive invariant `GroupInv` says so: a
sealed group has its parent in the join (`SealedInJoin`); a thread that lives is
the main one or a task of an open nursery (`LiveInGroup`); an active task is in
the wait loop (`Membership`); a verdict needs the seal; a channel is within its capacity, so
that the detector's `count < capacity` and the sender's `count == capacity` are
opposites. Lemma `Frozen` draws the conclusion: while a verdict stands the main
thread is in its join and every other thread that lives is a task of that group
and blocked. So a step that changes a channel shows that no verdict stands
(`BusyNoVerdict`), and a verdict is only given when every task waits in vain
(`DetectGroupInv`). The premise `OneNursery` (no two nurseries open at once) is
needed: section 12 has the counterexample.

**The argument for the wakeups.** `WakeInv` adds to `WakeupsSuffice` what the lock of a
channel gives a thread that waits on it (`Waits`): from its test to its sleep it holds the
lock, what it saw before it sleeps still holds when it falls asleep, and it is
registered while it sleeps. So a thread falls asleep only when there is nothing to take, a
step moves sleepers only to the awake, and an awake thread leaves either with nothing
left or with one value or slot fewer for the others (`CountsMove`). A put or a take that leaves one
more finds each sleeper registered, so it signals, and one sleeper is awake; a close wakes all.
It is a counting argument over the threads, which is why there must be finitely many of
them; it needs neither `OneNursery` nor anything about the programs.

The serial verdict is easier to reach, because nothing runs beside the loop. It
needs `PassesStartOver`: a loop that is in control and whose progress flag is unset
is at its first task, so that the tasks it judges when it finds none ready are all
those of the group that have not ended, and none of them was passed over on the
strength of what a channel held before another task ran.

**The argument for the groups.** Levels belong to no task: `group_depth` goes up and
down by one, whoever opens or closes. That a join never takes the level of a loop
is a counting argument. The tasks a loop may still run (`Crew`) have some nurseries
open, and `Roomy` says that each of these has a level of its own between the loop's
level and the next loop's: there is an injection (`Fit`) from the pairs of a task
and an open nursery into those levels. An `open` adds a pair and a level, a loop that
ends takes away one of each (`FitOneMore`, `FitOneLess`), a `leave` and a task that ends only
take away pairs, and a new loop starts on tasks that have nothing open (`Fresh`). A
task that reaches a closing brace has a nursery open, because nurseries are blocks
(`Counted`, `OpenedSome`), so there is a level above the loop's (`LevelLeft`). That the pairs
of different loops do not mix needs that a task is in one group (`OneGroup`), which
holds because a spawn makes a new task.

**The argument for the scopes.** `GroupInv` bounds how many levels there are, not
whose they are: crossed bodies satisfy it. While nothing has been crossed, `ScopesHold` says whose: of
a crew only the task that runs has a nursery open, and its nurseries are, in their
order, the levels just below the next loop's; a task of one of them that has not
ended is in that level's group (`BodyHolds`). A loop has all tasks of its group, and
those it is done with have ended (`CompleteAt`). So the nursery that is left when a
loop ends is that of the loop's level, and all its tasks have ended. Nurseries are told
apart by `NamesApart`: one is open in one place. For the verdict, `Reached` adds that without an
`exit()` a loop in control is at the innermost level and every task that has not ended is in a
level that is open; on level 1 this leaves only the loop's own group.

**The argument for the heap.** `HeapInv` says that lists and pools are disjoint
(`Disjoint`) and, as long as no address is reused, that a linked object whose home is a
living context is on that context's list (`AtHome`). `Retire` then removes from
its own list; an `End` moves a whole list to the graveyard and its context out of
`alive`, which keeps `AtHome`; a `Spawn` keeps it exactly if no linked object has the
new address as its home. `OneList` does not need `AtHome`: a retire at the wrong
place is caught at once and ends the behaviour, as in `heap_reuse`.

**The argument for the counts.** `CountInv` says of each block (`Tallied`) that the count
of a linked object is the number of references to it (a struct or array has at most one);
that a block on no list has no reference, is about to be reclaimed by nobody and owns
nothing; and that an object about to be reclaimed has no reference left, owns nothing, and is
reclaimed by one task, once. The last is what makes a drop that two tasks share safe: only
the one that takes the count to zero goes on, and it has moved the children into its own
`drop_value` in that step. Contexts that do not exist have an empty stack (`Vacant`), which
is where a `Spawn` starts. References are counted by columns: those on the stack of each task, in
each object and in each task's `drop_value` (`RefsByColumns`); a step changes one
or two columns (`Moves`, `ColumnChanges`), whatever
the size of the others. That the sets are finite is part of the invariant (`Countable`), as a step
adds finitely many references to them: blocks and contexts may be infinitely many. Homes play
no part, so these theorems hold with address reuse too, up to the step that
`heap_reuse` shows.

**The argument for single owners.** A slot is live only if its binding is in
`alive`. What makes this inductive is that every release (the move, the drop at
an exit, the drop before an overwrite) empties or refills the slot in the same
step. The checker is not needed for it: its job is that reads find something.

**The argument for the ownership checker.** `UseLive` and `NothingLeaks` relate a run to
an analysis that is over when the run starts, and that kept only what it knew at the last
statement. So the invariant (`Sound`) says that there is a record of it, an annotation `h`
of the body with the checker's state before every statement (`Annotated`): each statement
relates the points before and after it as its case of `check_stmt` does (`Good`), and
each edge of the control flow leads from a point to one that knows no less (`Flows`: what is
moved stays moved, up to `forgotten`; what counts as consumed was consumed,
up to `misjudged`; no edge leads into dead code). While a body is written, the checker's
variables are the last point, and each open construct remembers the point at which it
was entered and the union and the intersection over the branches and jumps that
refer to it so far (`Checking`, `Edges`): this is what makes the edges hold at
its `end`, which is the only place where both ends of an edge are known. Each action of the checker extends the annotation
by one point (`CheckStep`), and at the closing brace every construct has its end
(`Accepted`). Then the code the generator emits must go where the annotation says: the depth of the
nesting counts openers less ends (`Balance`, by the least counterexample), so the end it finds by counting
is the recorded one (`CloseIs`), and so are the construct around an arm, an end or
a jump (`AroundEnd`, `AroundJump`) and the locals it leaves (`DeclaredIs`). What remains is that a run
agrees with the annotation at `pc` (`RunsAs`), which every statement keeps
(`RunStep`). `forgotten` and `misjudged` enter only at the end of a loop
(`EndLoopChecked`), which shows that these are the only two gaps of the analysis.

**The argument for the replay.** `Inv` describes the recorded run as a chain: `path[i+1]` is
what the code does at `path[i]`, with the entries between their two positions in
the log. During the replay `vm = path[step + 1]`. Lemma `Answers` says that the log
answers each demand at that position; `Retrace` that the next state of the replay
then is the next of the chain, as the chain is a function of the state
(`Functional`). At the end both runs are in the chain's last state, which is what
`Agree` compares.

**The argument for the report.** `args` is only ever replaced by an input that
has just failed, and put back otherwise; `seen` grows. `Inv` adds that before the
first failure nothing has failed (`NoneFailed`). For minimality `Shrinking` adds
`Descends`, every input that has failed is `args` or was larger, so that nothing
simpler has failed; and `PassTried`, while the pass has improved nothing every simpler
input at a place before `at` has been tried.

**Only model-checked.** Liveness under fairness (`RunSucceeds`,
`StuckIsReported`, `FailureEndsRun`, `CancelledGroupUnwinds`, `EndsOrReported`,
`AlwaysEnds`, `ReplayEnds`, `CheckEnds`) is out of this prover's reach. Every
invariant and action property that a passing run checks is stated by a theorem of the
table above, some under the premise the table gives. Where a premise fails TLC is
alone: what the M:N scheduler does to its queues and its verdict once a group has been
cancelled is only model-checked (`mn_failing`), as it does not hold of every script,
and a proof would have to say which scripts exclude the races of section 12. `ChannelsAreQueues` of the 1:1 runtime does not hold of every program.

## 12. Where code and documents disagree

Two of these are runs of `PROJECT.json`, `moves_break` and `heap_reuse`; they were also
reproduced by building the compiler and running a program of a few lines:

* **A binding moved on the way to a break is live after the loop** (`moves_break`).
  `STMT_BREAK` (`src/check.c:6333`) folds `consumed` into the loop's exit and not
  `moved`, and the join of an arm that leaves drops what the arm moved
  (`src/check.c:6245-6251`). `loop { if c { take(move p); break } }` and a read of `p`
  after it is accepted; the program crashes, or closes its handle twice. (Without the
  `if`, `moved` is still set where the body ends, `STMT_LOOP` leaves it so, and the read
  is refused.) The comment at `src/check.c:5632-5635` calls the analysis sound.
* **An arena is taken for another at the same address** (`heap_reuse`).
  `reclaim` (`src/runtime.c:153`) compares addresses; a task's arena is freed when
  the task ends, its objects stay behind with that `home`. A later task at the same address that
  drops one unlinks it from the main list and pools it; built programs, 1:1 and
  M:N, abort in `free`.

The others are kept as configurations; each is run with
`tlc -config NAME.cfg MODULE` and ends in a counterexample:

| Configuration | Module | Property |
|---|---|---|
| `mn_save_race` | `MCMNScheduler` | `ResumesWhereItParked` |
| `mn_retire_race` | `MCMNScheduler` | `FreedAfterUse` |
| `mn_rewind_race` | `MCMNScheduler` | `NurseriesClosed` |
| `mn_lost_cancel` | `MCMNScheduler` | `CancelledGroupUnwinds` |
| `mn_close_corrupts` | `MCMNScheduler` | `EnqueuedOnce` |
| `threads_unreported` | `MCThreadNursery` | `EndsOrReported` |
| `threads_return` | `MCThreadNursery` | `TasksEndFirst` |
| `serial_groups` | `MCSerialNursery` | `TasksEndFirst` |
| `serial_lambda` | `MCSerialNursery` | `TasksEndFirst` |
| `moves_for` | `MoveChecker` | `NeverCrashes` |
| `replay_failing` | `MCRecordReplay` | `FailureIsReproduced` |
| `check_callee` | `MCPropertyCheck` | `CalleeFailureIsReported` |

* **A fiber is resumed before its progress is saved** (`mn_save_race`).
  `ch_park` publishes the fiber and the lock is released; `run_fiber_once`
  stores `f->sp` and `f->frame_count` (`src/vm.c:1941`) only after `run()` has
  returned. A waker and a second worker fit in between and resume the fiber
  from the stack pointer of its previous run.
* **A fiber is freed before its progress is saved** (`mn_retire_race`). It parks, and
  before `run_fiber_once` has stored `f->sp` and `f->frame_count` (`src/vm.c:1941`) a
  second worker resumes it and runs it to its end; the main fiber joins and retires it
  (`OP_NURSERY_END`), and the first worker writes to freed memory. The comment at
  `src/vm.c:1838-1839` says of a fiber that is retired that "only this worker touches it".
  It is the race above, carried on to the join.
* **A parent is resumed before its `ip` is rewound** (`mn_rewind_race`).
  `OP_NURSERY_END` parks the parent, unlocks, and then decrements `frame->ip`
  (`src/vm.c:4149`). The last child can requeue it in between: it runs past the
  nursery's end, and the group is never joined. (A main fiber is spared: it is
  only resumed by the worker that executes the decrement.)
* **A cancelled task parks for ever** (`mn_lost_cancel`). The flag is read
  before `ch->lock` is taken; a sweep in between finds the task RUNNING, passes
  it over, and nobody wakes it again. If everything else stops the run ends in
  a deadlock error; beside a computing task it does not end.
* **`close()` relinks a fiber that is on the ready-queue**
  (`mn_close_corrupts`). The cancel sweep requeues a task and leaves it on the
  channel's FIFO; `close()` then chains it through `qnext`, the link of the
  ready-queue. The same stale entry makes `ch_unpark` return fibers that are
  not parked (it swallows the wakeup of the next waiter) or are already freed.
* The last child of a nursery unlocks `n->lock` and then requeues the parent
  (`src/vm.c:1905-1915`). If the parent is itself a task of a cancelled group, a sweep of
  that group can have requeued it meanwhile: it finds `live = 0`, frees the nursery, ends
  and may be freed by its own parent before the child's compare-and-swap on it. This takes
  three workers and two nested groups; no configuration is kept for it.

* **1:1: a stuck task beside a finished one is not reported**
  (`threads_unreported`). The detector compares `nwaiting` with `total`, the
  number of tasks ever spawned; a finished task is in `total` and never waits.
  The closing brace hangs where the serial scheduler reports.
* **A `return` in a nursery's body skips the join** (`threads_return`). It emits
  `OP_RETURN` and no `OP_NURSERY_END` (`src/codegen.c:1908`), and the checker
  allows it: the tasks outlive the function.

* **Serial: two tasks end each other's nurseries** (`serial_groups`). A task that
  blocks inside a nursery's body leaves its group on top of the VM's stack. The
  next task to open or close one finds it there: it joins the other's tasks, and
  its own outlive its brace (`docs/language.md:1498`).
* **Serial: a lambda carries a spawn out of its nursery** (`serial_lambda`). A `spawn` needs
  `nursery_depth > 0` (`src/check.c:7092`), and the check of a lambda (`src/check.c:7351`) does not
  reset that depth: a lambda in a nursery's body may spawn, and may be called in a
  task that has no nursery open. The child joins the innermost group of the VM, whose loop has
  already read how many tasks there are (`src/vm.c:4177`): it never runs, and the
  nursery is left without it (`docs/language.md:1498`). The built compiler does the same.
* **A `for` that does not run is taken to have run** (`moves_for`). `STMT_FOR`
  (`src/check.c:7055`) leaves `moved` as the end of the body left it and does not merge
  what was moved before the loop. A value moved, then assigned in the body of a `for`,
  may be read after it, although the body need not run: the built program crashes; a
  handle is closed twice, which `docs/THE_INGLE_BOOK.md:2632-2639` calls "a compile error".
* **A failing run is called DIVERGED by its own replay** (`replay_failing`). `ok`
  asks for `r1 == VM_OK` (`src/vm.c:4691`); the comment at `src/vm.c:4658-4659` says "so a failing run can
  always be reproduced".
* **A callee's failed `requires` counts as an input out of the domain**
  (`check_callee`). `trial_fails` (`src/vm.c:4799`) looks at the first letters of
  the message only. A function that calls another one outside its domain on every
  input is "ok (0 cases)"; so is one whose `panic` begins with "precondition", though
  the comment at `src/vm.c:2548` calls "a REACHED panic" a "genuine counterexample".

These were seen in the models, and those of the serial build, of replay and of
checking in the built compiler too; no configuration is kept for them:

* A cancelled task that waits for a nursery of its own is woken, finds
  `live > 0` and parks again; a computing grandchild keeps the group alive
  (`OP_NURSERY_END` does not look at the cancel of the fiber's own group).
* An error in the body of a nursery finishes the parent without joining: its
  children run on, with borrows of its data (`docs/language.md:1566-1569`).
* `exit()` sets `shutdown`, which `rq_pop` reads only when the ready-queue is
  empty and a running fiber never: beside a computing task the program does not
  end (`docs/language.md:443` says "terminate the program immediately").
* After `exit()` in the main fiber's body, `exit_requested` stays set on worker
  0, which then finishes the next fiber it runs even if it only parked.
* If a helper thread cannot be created, `nworkers` still counts it and the
  deadlock verdict never comes (`Started` is a proper subset of `Worker`).

* The checker accepts a handle that is closed on one path and left open on
  another where they meet at a loop's exit or back-edge (`misjudged`; `src/check.c:6325`,
  and no merge at the end of a `for`).
* Serial: an inner nursery whose task waits for one of the outer group is reported
  as a deadlock, though that task could go on (`docs/language.md:1518-1520`).
* Serial: a sender that waits when its channel is closed is never ready again: the
  program ends in a deadlock, not in "send on a closed channel".
* Serial: `exit()` in a task ends that task; the others go on until they call a
  builtin (`docs/language.md:443-444`).
* Serial: a `return` or `break` out of a nursery's body leaves its group open; its
  tasks run at the next brace, or never.
* Replay under the 1:1 and M:N builds: a task's VM has `nondet_mode` 0, so that its
  draws are neither logged nor answered.
* Replay of a program that calls `exit()`: `vm_run` leaves the result unwritten, and
  the verdict compares two uninitialised values.
* Checking: `exit_requested` stays set after a trial that calls `exit()`, and the
  functions checked after it stop at their first builtin and are "ok".
* Checking: a function that draws random values may pass on the run for the
  message; the report then says "runtime error (crash)".
* 1:1: a nested nursery gets a false verdict when its only task waits for a task of
  the outer one (setup `TaskWaitsOutside`, `VerdictIsReal`).
* 1:1: a sender that waits for room is woken by `close()` and tests only for
  room; it puts its value into the closed channel (setup `ClosedUnderSender`,
  `ChannelsAreQueues`), where `docs/language.md` promises an error.
* 1:1: the verdict's broadcast is sent without the channels' locks. A task
  between its test and `pthread_cond_wait` misses it and sleeps on: the deadlock
  is reported and the join hangs (setup `OneStuck`, the main thread in `join` for ever).
* 1:1: `exit()` in a task of the VM ends that task only (`docs/language.md:443`).
* 1:1: a task that runs inline for want of a thread can wait for a sibling that
  comes after it in the body, which then never comes.
* Native: between the verdict and `exit(70)` the other tasks see `deadlocked` and
  act as if they had been served: a sender overwrites a slot of the full ring, a
  receiver gets `None`. `em_run_nursery`, which leaves `sealed` unset, has no caller.

## 13. Bounds, fairness, abstractions

**Bounds.** M:N: four fibers, two or three workers, two channels of capacity 1 (in `mn_closing`
one holds 2, so that order can be lost), two nurseries. Each race needs at most a waker, a parker and a canceller at once:
three workers let all three be in their critical steps together, and a fourth
would idle, since of four fibers one is the joining parent. Capacity 1 makes
both full and empty frequent; larger capacities are covered by the theorems on
queues. Neither the M:N nor the serial model has ring indices: those are `RingChannel`'s. Scripts have at most six operations; they are finite, and a loop only
moves `pc` back, so the state space is finite without further bounds. In the
ring, three slots and two owners reach every wrap-around.

In the 1:1 runtime, three tasks besides the main thread, a channel of capacity 1 and one of
capacity 2, two nurseries, scripts of at most six operations. Three tasks let a signal
choose between two sleepers while a third thread holds the lock; capacity 2 lets
a value be in the channel while a waiter is woken for it. `Init` chooses among
eleven setups, one for each way a group can end.

Serial: four tasks, three levels, three tasks to a group (standing for 16 and
256), a channel of capacity 1 and one of capacity 2; a program of each shape for every choice of up
to two statements in its open places. Two tasks with a nursery each are what it
takes to cross groups, a fourth task and a fourth level what it takes to be
refused.

Heap: a channel and three blocks, two task addresses, four things made
(`MaxMade`), two references to a shared block (`MaxRefs`) and three to the channel, so that
a task that owns one can share it with a child. Three blocks allow a parent, a child and a
clone; four things made allow a context to end and another to come to lie at
its address. One size class, since classes do not mix.

Checker: one binding and seven statements (`MaxText`; `moves_break` needs eight, `moves_for` six): two nested constructs with
a branch or a jump in the inner one and a read after the outer one. Two bindings
never meet in the analysis but at the drops, and `OwnedOnce` is proved for any
number.

Replay: three instructions before the return, runs of at most eight (`MaxSteps`) that print
at most twice (`MaxPrints`), two values. Two values make a loop end or go on; the
theorems need no bound. Checking: numbers from -1 to 2, arrays of at most two,
two trials, one reject, three passes for 64; two elements are enough to drop one and not
the other, and 2 halves twice.

**Fairness.** `FairSpec` asks for weak fairness of the steps of each *started*
worker: the operating system runs every thread and hands on its mutexes. It
asks nothing of spurious wakeups, and nothing of a single action: a worker's
next step is determined up to the data, so no choice is forced by it. Lock
hand-off is fair in the model because a lock is held over bounded work only.

Of the 1:1 runtime `FairSpec` asks that each thread runs, and that spurious
wakeups are finite in number. It asks for no fairness of mutexes: scripts are
finite, so whoever competes for a lock leaves in the end.

The serial runtime, replay and checking are one thread each: their `FairSpec` is weak
fairness of `Next`. `ReplayEnds` is about programs whose recorded run has ended.

**Deadlock** is checked in the runs of the three runtimes and of the heap; a pool whose
threads have all left may stutter (`AllGone`), and so may a process that is gone
(`Gone`, `Over`). It is not checked in `ring`, `moves`, `replay` and `check`, whose
behaviours end, or stop at the bound on a run.

**Abstractions.** Values are the identity of their sender. The stack pointer is
represented by the script position it belongs to; a resume from a stale one
goes on as if it were right (`mn_save_race` shows that it may be stale, not
what then happens). Reading and writing a `_Atomic` field is one step.
`free(nursery)` makes the model's nursery available again; a fiber's memory is
marked `freed` and keeps its last value. Refused allocations, the record and
replay hooks, a second `vm_run` on one VM, the limits on nesting and the
graphics context (but for its thread) are left out. In the 1:1 runtime the
verdict reads all channels in one step; the merge of a thread's arena is in
`ObjectHeap`.

In `ObjectHeap` the two sides of a hand-over of a list are one step (the code holds
`HEAP_LOCK`), and tasks interleave freely, which is more than any scheduler allows.
In `MoveChecker` conditions are not looked at, as the checker does not; a body's
names are declared once. In `PropertyCheck` the sequence of generated numbers is any
sequence.

## 14. Not modelled

* **Sequential opcodes, lexer, parser, C backend, FFI, bytecode container, static
  prover**: functions from data to data without a history; what could go wrong in
  them is a wrong table entry, which the golden files test better than a model that
  repeats the table.
* **Types, generics, borrows and captures in the checker**: `MoveChecker` has the
  flow analysis; the rest is a walk over trees of some nine thousand lines.
* **Language server, driver, diagnostics, docs, graphics, kernel**: one thread,
  each request answered from scratch, or input and output.
* **Standard library, user interface, self-hosted compiler**: programs in Ingle.
* **Fault texts and the tape's printing**: layout.
* **`read_stdin`** in `RecordReplay`: `NATIVE_READ_STDIN` (`src/vm.c:1410`) reads from outside and
  neither logs nor substitutes, so a program that calls it is not among the captured ones.

Of the lines of C and headers, a third is a font table (`src/font_inter.h`) and a
quarter is C generated by the compiler itself (`bootstrap/seed`); the hand-written
core is some forty thousand lines, most of them the parts named above. The
modules cover the parts in which behaviours, and not tables, can be wrong.

## 15. Plan

Done: `BoundedChannel`, `RingChannel`, `MNScheduler`, `ThreadNursery`,
`SerialNursery`, `ObjectHeap`, `MoveChecker`, `RecordReplay`, `PropertyCheck`, with
the runs and theorems above. Next, in this order:

1. Borrows and captured bindings in `MoveChecker`, and a second binding in its run
   as far as the bound on statements allows.
2. The queues of the M:N scheduler after a cancel, for the scripts in which a sweep
   finds no fiber on a channel that is closed later.
3. The generations of `std/slotmap.ig`, against a partial function from handles to
   values.
4. Resources (objects with a `drop` of their own) in `ObjectHeap`, and the pools of
   several size classes.
