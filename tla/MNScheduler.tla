---------------------------- MODULE MNScheduler ----------------------------
(***************************************************************************)
(* The M:N green-thread scheduler of the Ingle VM (src/vm.c built with     *)
(* EMBER_MN): worker threads run fibers that park on channels and at the   *)
(* closing brace of a nursery.                                             *)
(*                                                                         *)
(* A step is one critical section (under ch->lock, n->lock or s->lock) or  *)
(* one atomic access.  Only n->lock is held across steps, while a cancel   *)
(* sweep requeues siblings, so it is the only lock with a variable.        *)
(*                                                                         *)
(* A fiber runs a script: the sequence of its operations on channels and   *)
(* nurseries.  pc[f] is the instruction pointer in the fiber's own frame   *)
(* (memory any worker that runs the fiber writes); the stack pointer lives *)
(* in the worker and is saved into the fiber, as vm->sp and f->sp.  It is  *)
(* represented by the script position it belongs to.                       *)
(***************************************************************************)
EXTENDS Integers, Sequences, FiniteSets

CONSTANTS Fiber, Main,       \* the fibers; Main has pin_worker0 set
          Worker, Worker0,   \* the pool; Worker0 is the calling thread
          Started,           \* the workers whose thread really started
          Nursery, Channel,
          Capacity,          \* channel -> its capacity
          Code,              \* fiber -> its script
          NoFiber, NoNursery

Ops == [op : {"send", "recv", "poll", "close"}, ch : Channel]
         \cup [op : {"open"}, n : Nursery]
         \cup [op : {"spawn"}, child : Fiber]
         \cup [op : {"loop"}, to : Nat \ {0}]
         \cup [op : {"join", "fail", "exit"}]

ASSUME SchedulerAssumption ==
  /\ Main \in Fiber /\ Worker0 \in Started /\ Started \subseteq Worker
  /\ NoFiber \notin Fiber /\ NoNursery \notin Nursery
  /\ Capacity \in [Channel -> Nat \ {0}]
  /\ Code \in [Fiber -> Seq(Ops)]

\* The scheduler counts its workers (nworkers), and what happens in finitely many steps
\* involves finitely many fibers.
ASSUME FinitePool == IsFiniteSet(Fiber) /\ IsFiniteSet(Worker)

VARIABLES
  \* each Fiber
  fstate,      \* "unborn" (not allocated), "ready", "running", "parked", "done"
  freed,       \* the fibers whose memory was freed
  pc,          \* frames[...].ip
  savedSp,     \* f->sp
  nursery,     \* the group the fiber is a child of
  curOpen,     \* the innermost nursery it has opened
  qnext,       \* the ready-queue link
  \* each worker
  wpc,         \* where it is in scheduler_worker_main
  cur,         \* the fiber it runs
  sp,          \* vm->sp, as of the operation that may block
  todo,        \* the fibers it still has to requeue
  then,        \* where it goes once todo is empty
  chain,       \* OP_CLOSE: head of the chain of woken waiters
  result,      \* the VMResult run() returned
  exitRequested, \* vm->exit_requested
  direct,      \* worker 0 is still in vm_run's own run of the main fiber
  \* the Scheduler, under its lock
  head, tail, pinned, nready, nidle, live,
  shutdown, halting, reported, globalError,
  \* each Nursery and the holder of its lock
  group, nlock,
  \* each channel
  buf, closed, recvq, sendq

fiberVars == <<fstate, freed, pc, savedSp, nursery, curOpen>>
queueVars == <<qnext, head, tail, pinned, nready>>
poolVars  == <<nidle, live, shutdown, halting, reported, globalError>>
groupVars == <<group, nlock>>
chanVars  == <<buf, closed, recvq, sendq>>
localVars == <<cur, sp, todo, then, chain, result, exitRequested, direct>>
vars == <<fiberVars, queueVars, poolVars, groupVars, chanVars, localVars, wpc>>

NewGroup == [open |-> FALSE, live |-> 0, parent |-> NoFiber, parentParked |-> FALSE,
             enclosing |-> NoNursery, cancel |-> FALSE, failed |-> FALSE,
             children |-> <<>>]

Init ==
  /\ fstate = [f \in Fiber |-> IF f = Main THEN "running" ELSE "unborn"]
  /\ freed = {}
  /\ pc = [f \in Fiber |-> 1]
  /\ savedSp = [f \in Fiber |-> 1]
  /\ nursery = [f \in Fiber |-> NoNursery]
  /\ curOpen = [f \in Fiber |-> NoNursery]
  /\ qnext = [f \in Fiber |-> NoFiber]
  /\ wpc = [w \in Worker |-> IF w = Worker0 THEN "exec"
                             ELSE IF w \in Started THEN "pop" ELSE "off"]
  /\ cur = [w \in Worker |-> Main]
  /\ sp = [w \in Worker |-> 1]
  /\ todo = [w \in Worker |-> <<>>]
  /\ then = [w \in Worker |-> "exec"]
  /\ chain = [w \in Worker |-> NoFiber]
  /\ result = [w \in Worker |-> "ok"]
  /\ exitRequested = [w \in Worker |-> FALSE]
  /\ direct = TRUE
  /\ head = NoFiber /\ tail = NoFiber /\ pinned = NoFiber
  /\ nready = 0 /\ nidle = 0 /\ live = 1
  /\ shutdown = FALSE /\ halting = FALSE /\ reported = FALSE
  /\ globalError = FALSE
  /\ group = [n \in Nursery |-> NewGroup]
  /\ nlock = [n \in Nursery |-> {}]
  /\ buf = [c \in Channel |-> <<>>]
  /\ closed = [c \in Channel |-> FALSE]
  /\ recvq = [c \in Channel |-> <<>>]
  /\ sendq = [c \in Channel |-> <<>>]
-----------------------------------------------------------------------------
(* Helpers *)

Goto(w, l) == wpc' = [wpc EXCEPT ![w] = l]

\* The same, waking the workers of `woken` from pthread_cond_wait.
GotoWaking(w, l, woken) ==
  wpc' = [v \in Worker |-> IF v = w THEN l
                           ELSE IF v \in woken THEN "woken" ELSE wpc[v]]

Idle == {v \in Worker : wpc[v] = "idle"}

\* pthread_cond_signal wakes one of the waiters, if there is one.
Signalled == IF Idle = {} THEN {{}} ELSE {{v} : v \in Idle}

Executing(w, op) ==
  /\ wpc[w] = "exec"
  /\ pc[cur[w]] \in DOMAIN Code[cur[w]]
  /\ Code[cur[w]][pc[cur[w]]].op = op

\* The operation a worker past its cancel check performs, at sp[w], and the
\* channel of the operation a worker performs.
Entered(w, op) == wpc[w] = "enter" /\ Code[cur[w]][sp[w]].op = op
Ch(w) == Code[cur[w]][IF wpc[w] = "enter" THEN sp[w] ELSE pc[cur[w]]].ch

CancelledNever(f) == FALSE                                          \* mutant
Cancelled(f) == nursery[f] # NoNursery /\ group[nursery[f]].cancel

Advance(w) == pc' = [pc EXCEPT ![cur[w]] = @ + 1]

\* run() returns to scheduler_worker_main, which looks at exit_requested
\* before it looks at the result.
Leave(w, r) == /\ result' = [result EXCEPT ![w] = r]
               /\ Goto(w, IF exitRequested[w] THEN "halt" ELSE "finish")

\* Requeue the fibers of fs one by one, then go on at l.
RequeueThen(w, fs, l) ==
  /\ todo' = [todo EXCEPT ![w] = fs]
  /\ then' = [then EXCEPT ![w] = l]
  /\ Goto(w, IF fs = <<>> THEN l ELSE "wake")

FirstOf(q) == IF q = <<>> THEN <<>> ELSE <<Head(q)>>
RestOfAll(q) == q                                                   \* mutant
RestOf(q)  == IF q = <<>> THEN <<>> ELSE Tail(q)

Full(c) == Len(buf[c]) = Capacity[c]

\* ch_park: last of the FIFO, marked PARKED under ch->lock.
Park(w, isSend) ==
  /\ IF isSend THEN /\ sendq' = [sendq EXCEPT ![Ch(w)] = Append(@, cur[w])]
                    /\ UNCHANGED recvq
               ELSE /\ recvq' = [recvq EXCEPT ![Ch(w)] = Append(@, cur[w])]
                    /\ UNCHANGED sendq
  /\ fstate' = [fstate EXCEPT ![cur[w]] = "parked"]
  /\ Goto(w, "save")

-----------------------------------------------------------------------------
(* Operations on channels *)

\* The seam of OP_SEND and OP_RECV: n->cancel is read before ch->lock is taken.
CheckCancel(w) ==
  /\ Executing(w, "send") \/ Executing(w, "recv")
  /\ sp' = [sp EXCEPT ![w] = pc[cur[w]]]
  /\ IF Cancelled(cur[w]) THEN Leave(w, "cancelled")
                          ELSE Goto(w, "enter") /\ UNCHANGED result
  /\ UNCHANGED <<fiberVars, queueVars, poolVars, groupVars, chanVars,
                 cur, todo, then, chain, exitRequested, direct>>

SendClosed(w) ==
  /\ Entered(w, "send") /\ closed[Ch(w)]
  /\ Leave(w, "error")
  /\ UNCHANGED <<fiberVars, queueVars, poolVars, groupVars, chanVars,
                 cur, sp, todo, then, chain, exitRequested, direct>>

SendPark(w) ==
  /\ Entered(w, "send") /\ ~closed[Ch(w)] /\ Full(Ch(w))
  /\ Park(w, TRUE)
  /\ UNCHANGED <<freed, pc, savedSp, nursery, curOpen, queueVars, poolVars,
                 groupVars, buf, closed, localVars>>

\* Enqueue, take one parked receiver off the FIFO and requeue it.
SendPut(w) ==
  /\ Entered(w, "send") /\ ~closed[Ch(w)] /\ ~Full(Ch(w))
  /\ buf' = [buf EXCEPT ![Ch(w)] = Append(@, cur[w])]
  /\ recvq' = [recvq EXCEPT ![Ch(w)] = RestOf(@)]
  /\ RequeueThen(w, FirstOf(recvq[Ch(w)]), "exec")
  /\ Advance(w)
  /\ UNCHANGED <<fstate, freed, savedSp, nursery, curOpen, queueVars, poolVars,
                 groupVars, closed, sendq, cur, sp, chain, result,
                 exitRequested, direct>>

RecvPark(w) ==
  /\ Entered(w, "recv") /\ buf[Ch(w)] = <<>> /\ ~closed[Ch(w)]
  /\ Park(w, FALSE)
  /\ UNCHANGED <<freed, pc, savedSp, nursery, curOpen, queueVars, poolVars,
                 groupVars, buf, closed, localVars>>

TakeNewest(w) ==                                                    \* mutant
  /\ buf' = [buf EXCEPT ![Ch(w)] = SubSeq(@, 1, Len(@) - 1)]
  /\ sendq' = [sendq EXCEPT ![Ch(w)] = RestOf(@)]
  /\ RequeueThen(w, FirstOf(sendq[Ch(w)]), "exec")
  /\ Advance(w)
  /\ UNCHANGED <<fstate, freed, savedSp, nursery, curOpen, queueVars, poolVars,
                 groupVars, closed, recvq, cur, sp, chain, result,
                 exitRequested, direct>>

\* Dequeue the oldest value and requeue one parked sender.
TakeValue(w) ==
  /\ buf' = [buf EXCEPT ![Ch(w)] = Tail(@)]
  /\ sendq' = [sendq EXCEPT ![Ch(w)] = RestOf(@)]
  /\ RequeueThen(w, FirstOf(sendq[Ch(w)]), "exec")
  /\ Advance(w)
  /\ UNCHANGED <<fstate, freed, savedSp, nursery, curOpen, queueVars, poolVars,
                 groupVars, closed, recvq, cur, sp, chain, result,
                 exitRequested, direct>>

\* None: closed and drained for recv, empty for try_recv.
TakeNone(w) ==
  /\ buf[Ch(w)] = <<>>
  /\ Advance(w) /\ Goto(w, "exec")
  /\ UNCHANGED <<fstate, freed, savedSp, nursery, curOpen, queueVars, poolVars,
                 groupVars, chanVars, localVars>>

RecvValue(w) == Entered(w, "recv") /\ buf[Ch(w)] # <<>> /\ TakeValue(w)
RecvNone(w)  == Entered(w, "recv") /\ closed[Ch(w)] /\ TakeNone(w)
PollValue(w) == Executing(w, "poll") /\ buf[Ch(w)] # <<>> /\ TakeValue(w)
PollNone(w)  == Executing(w, "poll") /\ TakeNone(w)

\* close() empties both FIFOs into a chain linked through qnext, receivers
\* first, so that the waiter chained last is at its head.
CloseChannel(w) ==
  /\ Executing(w, "close")
  /\ LET q == recvq[Ch(w)] \o sendq[Ch(w)]
         Slot(f) == CHOOSE i \in DOMAIN q : q[i] = f
     IN  /\ qnext' = [f \in Fiber |->
                        IF \E i \in DOMAIN q : q[i] = f
                        THEN IF Slot(f) = 1 THEN NoFiber ELSE q[Slot(f) - 1]
                        ELSE qnext[f]]
         /\ chain' = [chain EXCEPT ![w] = IF q = <<>> THEN NoFiber
                                          ELSE q[Len(q)]]
  /\ closed' = [closed EXCEPT ![Ch(w)] = TRUE]
  /\ recvq' = [recvq EXCEPT ![Ch(w)] = <<>>]
  /\ sendq' = [sendq EXCEPT ![Ch(w)] = <<>>]
  /\ Advance(w) /\ Goto(w, "chain")
  /\ UNCHANGED <<fstate, freed, savedSp, nursery, curOpen, head, tail, pinned,
                 nready, poolVars, groupVars, buf, cur, sp, todo, then, result,
                 exitRequested, direct>>

\* Outside the lock: read the link, then requeue the waiter.
WalkChain(w) ==
  /\ wpc[w] = "chain"
  /\ IF chain[w] = NoFiber
     THEN Goto(w, "exec") /\ UNCHANGED <<todo, then, chain>>
     ELSE /\ chain' = [chain EXCEPT ![w] = qnext[chain[w]]]
          /\ RequeueThen(w, <<chain[w]>>, "chain")
  /\ UNCHANGED <<fiberVars, queueVars, poolVars, groupVars, chanVars,
                 cur, sp, result, exitRequested, direct>>
-----------------------------------------------------------------------------
(* Requeueing: the PARKED -> READY compare-and-swap, then rq_push *)

Next1(w) == IF Tail(todo[w]) = <<>> THEN then[w] ELSE "wake"

CanRequeueAny(f) == fstate[f] # "done"                              \* mutant
CanRequeue(f) == fstate[f] = "parked"

Requeue(w) ==
  /\ wpc[w] = "wake"
  /\ LET f == Head(todo[w]) IN
     IF CanRequeue(f)
     THEN /\ fstate' = [fstate EXCEPT ![f] = "ready"]
          /\ Goto(w, "push")
          /\ UNCHANGED todo
     ELSE /\ todo' = [todo EXCEPT ![w] = Tail(@)]
          /\ Goto(w, Next1(w))
          /\ UNCHANGED fstate
  /\ UNCHANGED <<freed, pc, savedSp, nursery, curOpen, queueVars, poolVars,
                 groupVars, chanVars, cur, sp, then, chain, result,
                 exitRequested, direct>>

\* Link f at the tail of the ready-queue.
Enqueue(f) ==
  /\ qnext' = [g \in Fiber |-> IF g = tail THEN f
                               ELSE IF g = f THEN NoFiber ELSE qnext[g]]
  /\ head' = IF tail = NoFiber THEN f ELSE head
  /\ tail' = f
  /\ nready' = nready + 1

PinnedNever(f) == FALSE                                             \* mutant
Pinned(f) == f = Main

Push(w) ==
  /\ wpc[w] = "push"
  /\ LET f == Head(todo[w]) IN
     IF Pinned(f)
     THEN /\ pinned' = f
          /\ GotoWaking(w, Next1(w), Idle)
          /\ UNCHANGED <<qnext, head, tail, nready>>
     ELSE /\ Enqueue(f)
          /\ \E woken \in Signalled : GotoWaking(w, Next1(w), woken)
          /\ UNCHANGED pinned
  /\ todo' = [todo EXCEPT ![w] = Tail(@)]
  /\ UNCHANGED <<fiberVars, poolVars, groupVars, chanVars, cur, sp, then,
                 chain, result, exitRequested, direct>>

-----------------------------------------------------------------------------
(* The other operations of a fiber *)

\* The loop back-edge, a cancellation seam.
Loop(w) ==
  /\ Executing(w, "loop")
  /\ IF Cancelled(cur[w])
     THEN Leave(w, "cancelled") /\ UNCHANGED pc
     ELSE /\ pc' = [pc EXCEPT ![cur[w]] = Code[cur[w]][@].to]
          /\ UNCHANGED <<result, wpc>>
  /\ UNCHANGED <<fstate, freed, savedSp, nursery, curOpen, queueVars, poolVars,
                 groupVars, chanVars, cur, sp, todo, then, chain,
                 exitRequested, direct>>

\* The script's end, or a runtime error of the script.
Return(w) ==
  /\ \/ wpc[w] = "exec" /\ pc[cur[w]] \notin DOMAIN Code[cur[w]] /\ Leave(w, "ok")
     \/ Executing(w, "fail") /\ Leave(w, "error")
  /\ UNCHANGED <<fiberVars, queueVars, poolVars, groupVars, chanVars,
                 cur, sp, todo, then, chain, exitRequested, direct>>

Exit(w) ==
  /\ Executing(w, "exit")
  /\ exitRequested' = [exitRequested EXCEPT ![w] = TRUE]
  /\ Goto(w, "halt")
  /\ UNCHANGED <<fiberVars, queueVars, poolVars, groupVars, chanVars,
                 cur, sp, todo, then, chain, result, direct>>

\* OP_NURSERY_BEGIN mallocs a nursery: n is one that is not in use.
Open(w) ==
  /\ Executing(w, "open")
  /\ LET f == cur[w]  n == Code[f][pc[f]].n IN
     /\ ~group[n].open
     /\ group' = [group EXCEPT ![n] =
                    [NewGroup EXCEPT !.open = TRUE, !.enclosing = curOpen[f]]]
     /\ curOpen' = [curOpen EXCEPT ![f] = n]
  /\ Advance(w)
  /\ UNCHANGED <<fstate, freed, savedSp, nursery, queueVars, poolVars, nlock,
                 chanVars, localVars, wpc>>

\* OP_SPAWN.  The child is in no waiter FIFO and READY, so nobody can act on
\* it before rq_push, and this worker is not idle: the three critical sections
\* (n->lock, s->lock for live++, rq_push) are one step.
Spawn(w) ==
  /\ Executing(w, "spawn")
  /\ LET f == cur[w]  child == Code[f][pc[f]].child  n == curOpen[f] IN
     /\ n # NoNursery /\ nlock[n] = {}
     /\ fstate[child] = "unborn"
     /\ fstate' = [fstate EXCEPT ![child] = "ready"]
     /\ nursery' = [nursery EXCEPT ![child] = n]
     /\ group' = [group EXCEPT ![n] =
                    [@ EXCEPT !.children = <<child>> \o group[n].children,
                              !.live = group[n].live + 1]]
     /\ Enqueue(child)
  /\ live' = live + 1
  /\ \E woken \in Signalled : GotoWaking(w, "exec", woken)
  /\ Advance(w)
  /\ UNCHANGED <<freed, savedSp, curOpen, pinned, nidle, shutdown, halting,
                 reported, globalError, nlock, chanVars, localVars>>

JoinableAlways(n) == TRUE                                           \* mutant
Joinable(n) == group[n].live <= 0

\* OP_NURSERY_END with live children: the parent parks under n->lock.  The ip
\* is already past the operation; `frame->ip--` comes after the unlock.
JoinPark(w) ==
  /\ Executing(w, "join")
  /\ LET f == cur[w]  n == curOpen[f] IN
     /\ n # NoNursery /\ nlock[n] = {} /\ ~Joinable(n)
     /\ group' = [group EXCEPT ![n] = [@ EXCEPT !.parent = f, !.parentParked = TRUE]]
     /\ fstate' = [fstate EXCEPT ![f] = "parked"]
     /\ sp' = [sp EXCEPT ![w] = pc[f]]
  /\ Advance(w) /\ Goto(w, "rewind")
  /\ UNCHANGED <<freed, savedSp, nursery, curOpen, queueVars, poolVars, nlock,
                 chanVars, cur, todo, then, chain, result, exitRequested, direct>>

Rewind(w) ==
  /\ wpc[w] = "rewind"
  /\ pc' = [pc EXCEPT ![cur[w]] = @ - 1]
  /\ Goto(w, "save")
  /\ UNCHANGED <<fstate, freed, savedSp, nursery, curOpen, queueVars, poolVars,
                 groupVars, chanVars, localVars>>

\* OP_NURSERY_END without live children: the parent frees them and the
\* nursery, and an error of a child becomes its own.
JoinDone(w) ==
  /\ Executing(w, "join")
  /\ LET f == cur[w]  n == curOpen[f] IN
     /\ n # NoNursery /\ nlock[n] = {} /\ Joinable(n)
     /\ freed' = freed \cup {group[n].children[i] : i \in DOMAIN group[n].children}
     /\ curOpen' = [curOpen EXCEPT ![f] = group[n].enclosing]
     /\ group' = [group EXCEPT ![n].open = FALSE]
     /\ IF group[n].failed
        THEN Leave(w, "error") /\ UNCHANGED pc
        ELSE Advance(w) /\ UNCHANGED <<result, wpc>>
  /\ UNCHANGED <<fstate, savedSp, nursery, queueVars, poolVars, nlock, chanVars,
                 cur, sp, todo, then, chain, exitRequested, direct>>

-----------------------------------------------------------------------------
(* scheduler_worker_main *)

\* rq_pop, from its start or after pthread_cond_wait returned.
InPop(w) == wpc[w] \in {"pop", "woken"}
IdleNow(w) == IF wpc[w] = "woken" THEN nidle - 1 ELSE nidle

\* READY -> RUNNING and the load of the fiber's saved state; a fiber that is
\* not READY is skipped.
Claim(w, f) ==
  IF fstate[f] = "ready"
  THEN /\ fstate' = [fstate EXCEPT ![f] = "running"]
       /\ cur' = [cur EXCEPT ![w] = f]
       /\ Goto(w, "exec")
  ELSE Goto(w, "pop") /\ UNCHANGED <<fstate, cur>>

PopPinned(w) ==
  /\ InPop(w) /\ w = Worker0 /\ pinned # NoFiber
  /\ Claim(w, pinned)
  /\ pinned' = NoFiber
  /\ nidle' = IdleNow(w)
  /\ UNCHANGED <<freed, pc, savedSp, nursery, curOpen, qnext, head, tail,
                 nready, live, shutdown, halting, reported, globalError,
                 groupVars, chanVars, sp, todo, then, chain, result,
                 exitRequested, direct>>

TailKept(h) == tail                                                 \* mutant
TailAfter(h) == IF h = NoFiber THEN NoFiber ELSE tail

PopReady(w) ==
  /\ InPop(w) /\ ~(w = Worker0 /\ pinned # NoFiber) /\ head # NoFiber
  /\ Claim(w, head)
  /\ head' = qnext[head]
  /\ tail' = TailAfter(qnext[head])
  /\ nready' = nready - 1
  /\ nidle' = IdleNow(w)
  /\ UNCHANGED <<freed, pc, savedSp, nursery, curOpen, qnext, pinned, live,
                 shutdown, halting, reported, globalError, groupVars, chanVars,
                 sp, todo, then, chain, result, exitRequested, direct>>

NothingToPop(w) ==
  InPop(w) /\ ~(w = Worker0 /\ pinned # NoFiber) /\ head = NoFiber

\* Every worker would be idle with nothing runnable and a fiber left.
StalledIgnoringPinned(w) == /\ IdleNow(w) + 1 = Cardinality(Worker)  \* mutant
                            /\ nready = 0 /\ live >= 1
                            /\ ~halting /\ ~reported
StalledCountedEarly(w) == /\ IdleNow(w) = Cardinality(Worker)        \* mutant
                          /\ nready = 0 /\ pinned = NoFiber /\ live >= 1
                          /\ ~halting /\ ~reported
Stalled(w) == /\ IdleNow(w) + 1 = Cardinality(Worker)
              /\ nready = 0 /\ pinned = NoFiber /\ live >= 1
              /\ ~halting /\ ~reported

PopShutdown(w) ==
  /\ NothingToPop(w) /\ shutdown
  /\ nidle' = IdleNow(w)
  /\ Goto(w, "gone")
  /\ UNCHANGED <<fiberVars, queueVars, live, shutdown, halting, reported,
                 globalError, groupVars, chanVars, localVars>>

PopWait(w) ==
  /\ NothingToPop(w) /\ ~shutdown /\ ~Stalled(w)
  /\ nidle' = IdleNow(w) + 1
  /\ Goto(w, "idle")
  /\ UNCHANGED <<fiberVars, queueVars, live, shutdown, halting, reported,
                 globalError, groupVars, chanVars, localVars>>

PopDeadlock(w) ==
  /\ NothingToPop(w) /\ ~shutdown /\ Stalled(w)
  /\ reported' = TRUE /\ globalError' = TRUE /\ shutdown' = TRUE
  /\ nidle' = IdleNow(w)
  /\ GotoWaking(w, "gone", Idle)
  /\ UNCHANGED <<fiberVars, queueVars, live, halting, groupVars, chanVars,
                 localVars>>

\* pthread_cond_wait may return without a signal.
SpuriousWakeup(w) ==
  /\ wpc[w] = "idle"
  /\ Goto(w, "woken")
  /\ UNCHANGED <<fiberVars, queueVars, poolVars, groupVars, chanVars, localVars>>

\* run() returned VM_YIELD: the fiber's progress is saved after it parked.
Save(w) ==
  /\ wpc[w] = "save"
  /\ savedSp' = [savedSp EXCEPT ![cur[w]] = sp[w]]
  /\ Goto(w, IF exitRequested[w] THEN "halt" ELSE "pop")
  /\ direct' = (direct /\ w # Worker0)
  /\ UNCHANGED <<fstate, freed, pc, nursery, curOpen, queueVars, poolVars,
                 groupVars, chanVars, cur, sp, todo, then, chain, result,
                 exitRequested>>

HaltUnheard(w) ==                                                   \* mutant
  /\ wpc[w] = "halt"
  /\ halting' = TRUE /\ shutdown' = TRUE
  /\ result' = [result EXCEPT ![w] = "ok"]
  /\ Goto(w, "finish")
  /\ UNCHANGED <<fiberVars, queueVars, nidle, live, reported, globalError,
                 groupVars, chanVars, cur, sp, todo, then, chain,
                 exitRequested, direct>>

\* A fiber called exit(): shut the pool down and finish the fiber as VM_OK.
Halt(w) ==
  /\ wpc[w] = "halt"
  /\ halting' = TRUE /\ shutdown' = TRUE
  /\ result' = [result EXCEPT ![w] = "ok"]
  /\ GotoWaking(w, "finish", Idle)
  /\ UNCHANGED <<fiberVars, queueVars, nidle, live, reported, globalError,
                 groupVars, chanVars, cur, sp, todo, then, chain,
                 exitRequested, direct>>

-----------------------------------------------------------------------------
(* finish_child *)

\* The store of DONE and, of an error or a cancel, the exchange of n->cancel: one
\* step, as requeue and rq_pop, which read fstate, do not read cancel, and the
\* fibers that read cancel do not read this one's fstate.  Only the first to
\* cancel will sweep.  A fiber without a nursery is freed.
Finish(w) ==
  /\ wpc[w] = "finish"
  /\ LET f == cur[w]  n == nursery[f] IN
     /\ fstate' = [fstate EXCEPT ![f] = "done"]
     /\ freed' = IF n = NoNursery THEN freed \cup {f} ELSE freed
     /\ IF n = NoNursery THEN Goto(w, "tally") /\ UNCHANGED <<group, then>>
        ELSE IF result[w] = "ok" THEN Goto(w, "account") /\ UNCHANGED <<group, then>>
        ELSE /\ group' = [group EXCEPT ![n].cancel = TRUE]
             /\ then' = [then EXCEPT ![w] = IF group[n].cancel THEN "account"
                                                               ELSE "sweep"]
             /\ Goto(w, "verdict")
  /\ UNCHANGED <<pc, savedSp, nursery, curOpen, queueVars, poolVars, nlock,
                 chanVars, cur, sp, todo, chain, result, exitRequested, direct>>

VerdictDropped(w) ==                                                \* mutant
  /\ wpc[w] = "verdict"
  /\ Goto(w, then[w])
  /\ UNCHANGED <<fiberVars, queueVars, poolVars, groupVars, chanVars, localVars>>
VerdictOnly(w) ==                                                   \* mutant
  /\ wpc[w] = "verdict"
  /\ Goto(w, "tally")
  /\ UNCHANGED <<fiberVars, queueVars, poolVars, groupVars, chanVars, localVars>>
Verdict(w) ==
  /\ wpc[w] = "verdict"
  /\ LET n == nursery[cur[w]] IN
     IF result[w] = "error"
     THEN nlock[n] = {} /\ group' = [group EXCEPT ![n].failed = TRUE]
     ELSE UNCHANGED group
  /\ Goto(w, then[w])
  /\ UNCHANGED <<fiberVars, queueVars, poolVars, nlock, chanVars, localVars>>

\* Requeue the siblings, newest first, with n->lock held throughout.  (The
\* fiber itself is in the list; being DONE it is passed over.)
Sweep(w) ==
  /\ wpc[w] = "sweep"
  /\ LET n == nursery[cur[w]] IN
     /\ nlock[n] = {}
     /\ nlock' = [nlock EXCEPT ![n] = {w}]
     /\ RequeueThen(w, group[n].children, "unlock")
  /\ UNCHANGED <<fiberVars, queueVars, poolVars, group, chanVars, cur, sp,
                 chain, result, exitRequested, direct>>

Unlock(w) ==
  /\ wpc[w] = "unlock"
  /\ nlock' = [nlock EXCEPT ![nursery[cur[w]]] = {}]
  /\ Goto(w, "account")
  /\ UNCHANGED <<fiberVars, queueVars, poolVars, group, chanVars, localVars>>

LastChild(n) == group[n].live = 1 /\ group[n].parentParked

\* live-- under n->lock; the last child requeues a parked parent.
Account(w) ==
  /\ wpc[w] = "account"
  /\ LET n == nursery[cur[w]] IN
     /\ nlock[n] = {}
     /\ group' = [group EXCEPT ![n] =
                    [@ EXCEPT !.live = group[n].live - 1,
                              !.parentParked = group[n].parentParked /\ ~LastChild(n)]]
     /\ RequeueThen(w, IF LastChild(n) THEN <<group[n].parent>> ELSE <<>>, "tally")
  /\ UNCHANGED <<fiberVars, queueVars, poolVars, nlock, chanVars, cur, sp,
                 chain, result, exitRequested, direct>>

\* The global count; the last fiber of all shuts the pool down.  Only a worker
\* that runs vm_run's direct call goes on after exit().
Tally(w) ==
  /\ wpc[w] = "tally"
  /\ globalError' = (globalError \/ (nursery[cur[w]] = NoNursery /\ result[w] = "error"))
  /\ live' = live - 1
  /\ shutdown' = (shutdown \/ live = 1)
  /\ GotoWaking(w, IF exitRequested[w] /\ ~(direct /\ w = Worker0)
                   THEN "gone" ELSE "pop",
                IF live = 1 THEN Idle ELSE {})
  /\ direct' = (direct /\ w # Worker0)
  /\ UNCHANGED <<fiberVars, queueVars, nidle, halting, reported, groupVars,
                 chanVars, cur, sp, todo, then, chain, result, exitRequested>>

-----------------------------------------------------------------------------
RunFiber(w) ==
  \/ CheckCancel(w) \/ SendClosed(w) \/ SendPark(w) \/ SendPut(w)
  \/ RecvPark(w) \/ RecvValue(w) \/ RecvNone(w) \/ PollValue(w) \/ PollNone(w)
  \/ CloseChannel(w) \/ WalkChain(w) \/ Requeue(w) \/ Push(w)
  \/ Loop(w) \/ Return(w) \/ Exit(w) \/ Open(w) \/ Spawn(w)
  \/ JoinPark(w) \/ Rewind(w) \/ JoinDone(w)

Schedule(w) ==
  \/ PopPinned(w) \/ PopReady(w) \/ PopShutdown(w) \/ PopWait(w)
  \/ PopDeadlock(w) \/ Save(w) \/ Halt(w) \/ Finish(w) \/ Verdict(w)
  \/ Sweep(w) \/ Unlock(w) \/ Account(w) \/ Tally(w)

Step(w) == RunFiber(w) \/ Schedule(w)

\* vm_run has returned when every thread has.
AllGone == \A w \in Started : wpc[w] = "gone"

Next == \/ \E w \in Started : Step(w) \/ SpuriousWakeup(w)
        \/ AllGone /\ UNCHANGED vars

Spec == Init /\ [][Next]_vars

\* A thread that can take a step takes one: the operating system schedules
\* every thread and its mutexes are handed on.  Nothing is assumed of
\* spurious wakeups.
FairSpec == Spec /\ \A w \in Started : WF_vars(Step(w))
-----------------------------------------------------------------------------
(* Properties *)

FibersOK ==
  /\ fstate \in [Fiber -> {"unborn", "ready", "running", "parked", "done"}]
  /\ freed \subseteq Fiber
  /\ pc \in [Fiber -> Int]
  /\ savedSp \in [Fiber -> Int]
  /\ nursery \in [Fiber -> Nursery \cup {NoNursery}]
  /\ curOpen \in [Fiber -> Nursery \cup {NoNursery}]
QueueOK ==
  /\ qnext \in [Fiber -> Fiber \cup {NoFiber}]
  /\ head \in Fiber \cup {NoFiber}
  /\ tail \in Fiber \cup {NoFiber}
  /\ pinned \in {NoFiber, Main}
  /\ nready \in Int
Stages == {"off", "pop", "idle", "woken", "gone", "exec", "enter", "chain",
           "wake", "push", "rewind", "save", "halt", "finish", "verdict",
           "sweep", "unlock", "account", "tally"}
WorkersOK ==
  /\ wpc \in [Worker -> Stages]
  /\ then \in [Worker -> {"exec", "chain", "sweep", "unlock", "account", "tally"}]
  /\ cur \in [Worker -> Fiber]
  /\ sp \in [Worker -> Int]
  /\ todo \in [Worker -> Seq(Fiber)]
  /\ chain \in [Worker -> Fiber \cup {NoFiber}]
  /\ result \in [Worker -> {"ok", "error", "cancelled"}]
  /\ exitRequested \in [Worker -> BOOLEAN]
  /\ direct \in BOOLEAN
PoolOK ==
  /\ nidle \in Int
  /\ live \in Int
  /\ shutdown \in BOOLEAN
  /\ halting \in BOOLEAN
  /\ reported \in BOOLEAN
  /\ globalError \in BOOLEAN
Group == [open : BOOLEAN, live : Int, parent : Fiber \cup {NoFiber},
          parentParked : BOOLEAN, enclosing : Nursery \cup {NoNursery},
          cancel : BOOLEAN, failed : BOOLEAN, children : Seq(Fiber)]
GroupsOK ==
  /\ group \in [Nursery -> Group]
  /\ nlock \in [Nursery -> SUBSET Worker]
ChannelsOK ==
  /\ buf \in [Channel -> Seq(Fiber)]
  /\ closed \in [Channel -> BOOLEAN]
  /\ recvq \in [Channel -> Seq(Fiber)]
  /\ sendq \in [Channel -> Seq(Fiber)]

\* Every variable has its type.
TypeOK == FibersOK /\ QueueOK /\ WorkersOK /\ PoolOK /\ GroupsOK /\ ChannelsOK

\* Where a worker is, seen through the requeueing it is in the middle of.
At(w) == IF wpc[w] \in {"wake", "push"} THEN then[w] ELSE wpc[w]

\* w is inside run() with the fiber cur[w].  The last such stage is the parent's
\* `frame->ip--`, which comes after it has parked.
InRun(w) == At(w) \in {"exec", "enter", "chain", "rewind"}

\* Two workers are never in run() with one fiber, whatever wakes, closes and
\* cancels race for it: the compare-and-swaps on fstate, in requeue and in
\* scheduler_worker_main, pick one, and a parent that has parked but not rewound
\* is not picked by another.  The latter holds where only the main fiber, which is
\* bound to one worker, opens nurseries; a task's own nursery breaks it.
OneInterpreter ==
  \A v, w \in Worker : InRun(v) /\ InRun(w) /\ cur[v] = cur[w] => v = w

\* The main fiber, which owns the graphics context, is only run by the calling
\* thread (rq_push's pinned slot, rq_pop's is_worker0).
MainOnCallingThread ==
  \A w \in Worker : InRun(w) /\ cur[w] = Main => w = Worker0

\* The ready-queue as rq_pop would drain it: what lies i links after head.
FromHead == LET at[i \in 0 .. Cardinality(Fiber)] ==
                  IF i = 0 THEN head
                  ELSE IF at[i - 1] = NoFiber THEN NoFiber ELSE qnext[at[i - 1]]
            IN  at

\* A READY fiber is in exactly one place from which it will be run (reachable
\* from head, in the pinned slot, or in the hands of one waker that won the
\* compare-and-swap) and no other fiber is in any; nready counts the queue.
EnqueuedOnce ==
  LET Queued(f) == {i \in DOMAIN FromHead : FromHead[i] = f}
      Places(f) == Cardinality(Queued(f)) + (IF pinned = f THEN 1 ELSE 0)
                   + Cardinality({w \in Worker : /\ wpc[w] = "push"
                                                 /\ Head(todo[w]) = f})
  IN  /\ \A f \in Fiber : Places(f) = IF fstate[f] = "ready" THEN 1 ELSE 0
      /\ nready = Cardinality({i \in DOMAIN FromHead : FromHead[i] # NoFiber})

\* What ch_unpark says of the fiber it returns: everything on a waiter FIFO is
\* parked, and on one FIFO only once.
WaitersParked ==
  \A c \in Channel :
    LET q == recvq[c] \o sendq[c] IN
    /\ \A i \in DOMAIN q : fstate[q[i]] = "parked"
    /\ \A i, j \in DOMAIN q : q[i] = q[j] => i = j

\* The stages of finish_child before the nursery, and before the scheduler,
\* has counted the fiber out.
Uncounted == {"verdict", "sweep", "unlock", "account"}

\* The two live counters against the fibers they stand for: n->live for those
\* whose finish_child has not reached its live--, s->live likewise; the last
\* one decides who wakes the parent and when the pool shuts down.
LiveCounts ==
  LET Alive(f, stages) == \/ fstate[f] \in {"ready", "running", "parked"}
                          \/ \E w \in Worker : cur[w] = f /\ At(w) \in stages
  IN  /\ \A n \in Nursery : group[n].open =>
           group[n].live = Cardinality({f \in Fiber :
                              nursery[f] = n /\ Alive(f, Uncounted)})
      /\ live = Cardinality({f \in Fiber : Alive(f, Uncounted \cup {"tally"})})

\* A nursery's parent frees its children and the nursery only after every child
\* is out of finish_child and no cancel sweep has one still to visit ("so the
\* cancel sweep never UAFs", Nursery.children; "the sole owner that frees n",
\* OP_NURSERY_END).  A fiber that has parked is not in its worker's hands here.
FreedAfterFinish ==
  \A w \in Worker :
    /\ At(w) \in {"exec", "enter", "chain", "halt", "finish"} \cup Uncounted =>
         cur[w] \notin freed
    /\ At(w) \in Uncounted => group[nursery[cur[w]]].open
    /\ At(w) = "unlock" => \A i \in DOMAIN todo[w] : todo[w][i] \notin freed

\* A fiber is freed only when the worker that ran it has made its last access to
\* it ("only this worker touches it", retire_fiber), the writes after it parked
\* (`frame->ip--`, run_fiber_once's f->sp and f->frame_count) included.
FreedAfterUse ==
  \A w \in Worker :
    At(w) \in {"exec", "enter", "chain", "rewind", "save", "halt", "finish"} \cup Uncounted =>
      cur[w] \notin freed

\* Whether a parked fiber could go on: what it waits for has not happened.
Blocked(f) ==
  LET o == Code[f][pc[f]] IN
  CASE o.op = "send" -> ~closed[o.ch] /\ Len(buf[o.ch]) = Capacity[o.ch]
    [] o.op = "recv" -> ~closed[o.ch] /\ buf[o.ch] = <<>>
    [] o.op = "join" -> group[curOpen[f]].live > 0
    [] OTHER -> FALSE

\* rq_pop's verdict is a true one: when it reports a deadlock every fiber left
\* is parked on something that no other fiber is going to change.
DeadlockIsReal ==
  reported => \A f \in Fiber : \/ fstate[f] \in {"unborn", "done"}
                               \/ fstate[f] = "parked" /\ Blocked(f)

\* A fiber is resumed with the progress its last run saved ("then saves the
\* fiber's progress", run_fiber_once).
ResumesWhereItParked ==
  [][\A f \in Fiber : fstate[f] = "ready" /\ fstate'[f] = "running"
                        => savedSp[f] = pc[f]]_vars

\* Each channel is a bounded first-in-first-out queue.
Chan(c) == INSTANCE BoundedChannel WITH
             Msg <- Fiber, Capacity <- Capacity[c],
             queue <- buf[c], shut <- closed[c]
ChannelsAreQueues ==
  /\ \A c \in Channel : Chan(c)!Init
  /\ [][\A c \in Channel : Chan(c)!Next \/ UNCHANGED <<buf[c], closed[c]>>]_vars

\* A program that has everything it waits for, or that calls exit(), ends
\* without an error: every worker leaves, no wakeup is lost on the way and no
\* deadlock is reported (rq_pop, mn_worker_entry).
RunSucceeds == <>(AllGone /\ ~globalError)

\* A program in which some task can never go on ends in the deadlock error.
StuckIsReported == <>(AllGone /\ reported)

\* The failure of a task ends the program in error, with no deadlock verdict:
\* its siblings unwind, the join takes the group's verdict and passes it on.
FailureEndsRun == <>(AllGone /\ globalError /\ ~reported)

\* A cancelled group unwinds ("a failing task tears the group down",
\* finish_child): each of its fibers finishes.
CancelledGroupUnwinds ==
  \A n \in Nursery : group[n].cancel ~>
    \A f \in Fiber : nursery[f] = n => fstate[f] = "done"

\* A fiber that reaches the end of its script has closed every nursery it
\* opened ("re-run this op when the last child wakes it", OP_NURSERY_END).
NurseriesClosed ==
  \A f \in Fiber : fstate[f] = "done" /\ pc[f] = Len(Code[f]) + 1
                     => curOpen[f] = NoNursery
=============================================================================
