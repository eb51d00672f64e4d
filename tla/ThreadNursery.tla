--------------------------- MODULE ThreadNursery ---------------------------
(***************************************************************************)
(* The 1:1 runtime: every spawned task is an OS thread from its spawn on,  *)
(* a channel blocks its user on a condition variable, and the closing      *)
(* brace of a nursery seals the group and joins its threads.  It exists    *)
(* twice, in the VM (src/vm.c built with EMBER_PARALLEL) and in the        *)
(* runtime of compiled programs (src/runtime.c); setup.native tells which  *)
(* one runs.  They differ in what an error or a deadlock verdict does: the *)
(* VM's tasks return it, a compiled program exits.                         *)
(*                                                                         *)
(* A channel's lock is held across steps, so it is a variable.  A nursery's *)
(* lock is always released where it is taken: each such section is a step. *)
(*                                                                         *)
(* nwaiting and total count the set bits of active[] and the slots in use, *)
(* and change together with them; the sets stand for both.  Likewise       *)
(* recv_waiters and send_waiters count the threads whose parked_here is 1. *)
(***************************************************************************)
EXTENDS Integers, Sequences, FiniteSets

CONSTANTS Thread, Main,      \* Main is the thread that called vm_run
          Nursery, Channel,
          Capacity,          \* channel -> its capacity
          Setups,            \* the programs to run, see SetupAssumption
          NoThread, NoNursery

Ops == [op : {"send", "recv", "poll", "close"}, ch : Channel]
         \cup [op : {"open"}, n : Nursery]
         \cup [op : {"spawn"}, child : Thread]
         \cup [op : {"join", "fail", "exit"}]

ASSUME ThreadAssumption ==
  /\ IsFiniteSet(Thread)          \* a run starts finitely many threads
  /\ Main \in Thread /\ NoThread \notin Thread /\ NoNursery \notin Nursery
  /\ Capacity \in [Channel -> Nat \ {0}]

\* A setup: a script for each thread, the build, and the tasks whose
\* pthread_create fails.
ASSUME SetupAssumption ==
  \A s \in Setups : /\ s.code \in [Thread -> Seq(Ops)]
                    /\ s.native \in BOOLEAN
                    /\ s.refused \subseteq Thread

VARIABLES
  setup,      \* the program that runs
  up,         \* does the process exist
  pc,         \* thread -> its place in its script
  stage,      \* thread -> its place inside an operation (see Stages)
  parked,     \* the threads whose parked_here is 1
  failed,     \* the threads whose result is VM_RUNTIME_ERROR
  nursery,    \* thread -> the group it is tracked in
  opened,     \* thread -> the nurseries it has opened, innermost first
  group,      \* nursery -> its detector block: tasks, active, sealed, deadlocked
  owner,      \* channel -> the thread that holds ch->lock
  buf, closed \* channel -> its contents and flag

vars == <<setup, up, pc, stage, parked, failed, nursery, opened, group, owner, buf, closed>>

Stages == {"unborn",   \* not spawned
           "run",      \* between operations
           "test",     \* holds ch->lock, at the loop's condition
           "park",     \* holds ch->lock, about to call nursery_park
           "doze",     \* holds ch->lock, about to call pthread_cond_wait
           "asleep",   \* in pthread_cond_wait
           "woken",    \* woken, needs ch->lock
           "act",      \* holds ch->lock, past the loop
           "inline",   \* runs a task it could not start a thread for
           "join",     \* in pthread_join
           "dying",    \* about to call exit(70)
           "ended"}

NewGroup == [tasks |-> {}, active |-> {}, sealed |-> FALSE, deadlocked |-> FALSE]

Init ==
  /\ setup \in Setups
  /\ up = TRUE
  /\ pc = [t \in Thread |-> 1]
  /\ stage = [t \in Thread |-> IF t = Main THEN "run" ELSE "unborn"]
  /\ parked = {}
  /\ failed = {}
  /\ nursery = [t \in Thread |-> NoNursery]
  /\ opened = [t \in Thread |-> <<>>]
  /\ group = [n \in Nursery |-> NewGroup]
  /\ owner = [c \in Channel |-> NoThread]
  /\ buf = [c \in Channel |-> <<>>]
  /\ closed = [c \in Channel |-> FALSE]
-----------------------------------------------------------------------------
(* Helpers *)

Op(t) == setup.code[t][pc[t]]

Running(t, op) == /\ up /\ stage[t] = "run"
                  /\ pc[t] \in DOMAIN setup.code[t]
                  /\ Op(t).op = op

Inside(t, s) == up /\ stage[t] = s

Goto(t, s) == stage' = [stage EXCEPT ![t] = s]

GotoWaking(t, s, woken) ==
  stage' = [u \in Thread |-> IF u = t THEN s
                             ELSE IF u \in woken THEN "woken" ELSE stage[u]]

\* A blocked operation retried from its start, as in the serial scheduler.
Advance(t) == pc' = [pc EXCEPT ![t] = @ + 1]

\* What a thread that waits for its operation to become possible looks at:
\* the condition of the loop around pthread_cond_wait.
Blocked(o) ==
  IF o.op = "send" THEN Len(buf[o.ch]) = Capacity[o.ch]
                   ELSE buf[o.ch] = <<>> /\ ~closed[o.ch]

\* What the detector looks at, for the waits_on and is_send of a task.
Ready(o) ==
  IF o.op = "send" THEN Len(buf[o.ch]) < Capacity[o.ch]
                   ELSE buf[o.ch] # <<>> \/ closed[o.ch]

Deadlocked(t) == nursery[t] # NoNursery /\ group[nursery[t]].deadlocked

\* The threads asleep on not_full (op = "send") or not_empty (op = "recv").
Asleep(c, op) == {t \in Thread : stage[t] = "asleep" /\ Op(t).ch = c /\ Op(t).op = op}

AwaitedByOthers(c, op) ==                                           \* mutant
  \E t \in parked : Op(t).ch = c /\ Op(t).op # op

\* recv_waiters or send_waiters is positive.
Awaited(c, op) == \E t \in parked : Op(t).ch = c /\ Op(t).op = op

\* pthread_cond_signal, skipped when nobody is registered: the threads it may wake.
Signalled(c, op) ==
  IF Awaited(c, op) /\ Asleep(c, op) # {} THEN {{t} : t \in Asleep(c, op)} ELSE {{}}

\* A thread's run() or trampoline is over.  When the main program is over
\* the process ends, whatever the other threads do.
Ends(t) == Goto(t, "ended") /\ up' = (t # Main)

\* A run-time error: run() returns it, em_panic() exits.
Errs(t) ==
  IF setup.native
  THEN up' = FALSE /\ UNCHANGED <<stage, failed>>
  ELSE Ends(t) /\ failed' = failed \cup {t}
-----------------------------------------------------------------------------
(* send and recv *)

SendClosed(t) ==
  /\ Running(t, "send")
  /\ owner[Op(t).ch] = NoThread /\ closed[Op(t).ch]
  /\ Errs(t)
  /\ UNCHANGED <<setup, pc, parked, nursery, opened, group, owner, buf, closed>>

\* pthread_mutex_lock(&ch->lock), up to the loop; a send looks at `closed` here.
Enter(t) ==
  /\ \/ Running(t, "send") /\ ~closed[Op(t).ch]
     \/ Running(t, "recv")
  /\ owner[Op(t).ch] = NoThread
  /\ owner' = [owner EXCEPT ![Op(t).ch] = t]
  /\ Goto(t, "test")
  /\ UNCHANGED <<setup, up, pc, parked, failed, nursery, opened, group, buf, closed>>

\* The first time round the loop the thread registers itself, then tests again.
Register(t) ==
  /\ Inside(t, "test")
  /\ Blocked(Op(t)) /\ ~Deadlocked(t) /\ t \notin parked
  /\ parked' = parked \cup {t}
  /\ Goto(t, "park")
  /\ UNCHANGED <<setup, up, pc, failed, nursery, opened, group, owner, buf, closed>>

KeepWaiting(t) ==
  /\ Inside(t, "test")
  /\ Blocked(Op(t)) /\ ~Deadlocked(t) /\ t \in parked
  /\ Goto(t, "doze")
  /\ UNCHANGED <<setup, up, pc, parked, failed, nursery, opened, group, owner, buf, closed>>

\* Out of the loop: the thread deregisters (nursery_unpark).
StopWaiting(t) ==
  /\ Inside(t, "test")
  /\ ~Blocked(Op(t)) \/ Deadlocked(t)
  /\ parked' = parked \ {t}
  /\ group' = IF t \in parked /\ nursery[t] # NoNursery
              THEN [group EXCEPT ![nursery[t]].active = @ \ {t}] ELSE group
  /\ Goto(t, "act")
  /\ UNCHANGED <<setup, up, pc, failed, nursery, opened, owner, buf, closed>>

\* A bare count of the parked tasks.
StuckByCount(g) == g.sealed /\ g.tasks # {} /\ g.active = g.tasks    \* mutant

\* All tasks are parked, the nursery is sealed, and no task could go on.
Stuck(g) ==
  /\ g.sealed /\ g.tasks # {} /\ g.active = g.tasks
  /\ \A u \in g.active : ~Ready(Op(u))

\* Records g as the detector block of n and gives the verdict if it is due.
\* The VM wakes whoever waits where a task of the group waits, without those
\* channels' locks; a compiled program exits.
Detect(t, n, g, next) ==
  LET Sleepers == {u \in Thread : \E v \in g.active : u \in Asleep(Op(v).ch, Op(v).op)}
  IN  IF Stuck(g)
      THEN /\ group' = [group EXCEPT ![n] = [g EXCEPT !.deadlocked = TRUE]]
           /\ IF setup.native THEN Goto(t, "dying") ELSE GotoWaking(t, next, Sleepers)
      ELSE group' = [group EXCEPT ![n] = g] /\ Goto(t, next)

\* nursery_park: a no-op outside a nursery.
NurseryPark(t) ==
  /\ Inside(t, "park")
  /\ IF nursery[t] = NoNursery
     THEN Goto(t, "test") /\ UNCHANGED group
     ELSE LET n == nursery[t] IN
          Detect(t, n, [group[n] EXCEPT !.active = @ \cup {t}], "test")
  /\ UNCHANGED <<setup, up, pc, parked, failed, nursery, opened, owner, buf, closed>>

\* pthread_cond_wait: starts to wait, which releases the lock ...
Sleep(t) ==
  /\ Inside(t, "doze")
  /\ owner' = [owner EXCEPT ![Op(t).ch] = NoThread]
  /\ Goto(t, "asleep")
  /\ UNCHANGED <<setup, up, pc, parked, failed, nursery, opened, group, buf, closed>>

\* ... returns when signalled, or for no reason ...
SpuriousWakeup(t) ==
  /\ Inside(t, "asleep")
  /\ Goto(t, "woken")
  /\ UNCHANGED <<setup, up, pc, parked, failed, nursery, opened, group, owner, buf, closed>>

\* ... and takes the lock back before it does.
Reacquire(t) ==
  /\ Inside(t, "woken")
  /\ owner[Op(t).ch] = NoThread
  /\ owner' = [owner EXCEPT ![Op(t).ch] = t]
  /\ Goto(t, "test")
  /\ UNCHANGED <<setup, up, pc, parked, failed, nursery, opened, group, buf, closed>>

Unlock(t) == owner' = [owner EXCEPT ![Op(t).ch] = NoThread]

Acting(t, op) == Inside(t, "act") /\ Op(t).op = op

\* The ring with one more value: at its capacity it has no free slot, the index
\* wraps onto an old value, and the new one is read in its place too.
Stored(c, v) ==
  IF Len(buf[c]) < Capacity[c] THEN Append(buf[c], v)
  ELSE Append([buf[c] EXCEPT ![Len(buf[c]) - Capacity[c] + 1] = v], v)

MayPutAlways(c) == TRUE                                             \* mutant
\* A compiled program does not look again whether there is room.
MayPut(c) == setup.native \/ Len(buf[c]) # Capacity[c]

SendPut(t) ==
  LET c == Op(t).ch IN
  /\ Acting(t, "send") /\ MayPut(c)
  /\ buf' = [buf EXCEPT ![c] = Stored(c, t)]
  /\ \E woken \in Signalled(c, "recv") : GotoWaking(t, "run", woken)
  /\ Unlock(t) /\ Advance(t)
  /\ UNCHANGED <<setup, up, parked, failed, nursery, opened, group, closed>>

\* Still full: the verdict ended the wait.
SendRefused(t) ==
  /\ Acting(t, "send")
  /\ ~MayPut(Op(t).ch)
  /\ Unlock(t) /\ Errs(t)
  /\ UNCHANGED <<setup, pc, parked, nursery, opened, group, buf, closed>>

RecvValue(t) ==
  LET c == Op(t).ch IN
  /\ Acting(t, "recv") /\ buf[c] # <<>>
  /\ buf' = [buf EXCEPT ![c] = Tail(@)]
  /\ \E woken \in Signalled(c, "send") : GotoWaking(t, "run", woken)
  /\ Unlock(t) /\ Advance(t)
  /\ UNCHANGED <<setup, up, parked, failed, nursery, opened, group, closed>>

\* A compiled program takes an empty channel for a closed one.
RecvNone(t) ==
  LET c == Op(t).ch IN
  /\ Acting(t, "recv") /\ buf[c] = <<>> /\ (setup.native \/ closed[c])
  /\ Unlock(t) /\ Advance(t) /\ Goto(t, "run")
  /\ UNCHANGED <<setup, up, parked, failed, nursery, opened, group, buf, closed>>

RecvRefused(t) ==
  LET c == Op(t).ch IN
  /\ Acting(t, "recv") /\ buf[c] = <<>> /\ ~setup.native /\ ~closed[c]
  /\ Unlock(t) /\ Errs(t)
  /\ UNCHANGED <<setup, pc, parked, nursery, opened, group, buf, closed>>
-----------------------------------------------------------------------------
(* try_recv and close: one critical section each *)

PollValue(t) ==
  LET c == Op(t).ch IN
  /\ Running(t, "poll") /\ owner[c] = NoThread /\ buf[c] # <<>>
  /\ buf' = [buf EXCEPT ![c] = Tail(@)]
  /\ \E woken \in Signalled(c, "send") : GotoWaking(t, "run", woken)
  /\ Advance(t)
  /\ UNCHANGED <<setup, up, parked, failed, nursery, opened, group, owner, closed>>

PollNone(t) ==
  /\ Running(t, "poll") /\ owner[Op(t).ch] = NoThread /\ buf[Op(t).ch] = <<>>
  /\ Advance(t)
  /\ UNCHANGED <<setup, up, stage, parked, failed, nursery, opened, group, owner, buf, closed>>

CloseChannel(t) ==
  LET c == Op(t).ch IN
  /\ Running(t, "close") /\ owner[c] = NoThread
  /\ closed' = [closed EXCEPT ![c] = TRUE]
  /\ GotoWaking(t, "run", Asleep(c, "recv") \cup Asleep(c, "send"))
  /\ Advance(t)
  /\ UNCHANGED <<setup, up, parked, failed, nursery, opened, group, owner, buf>>
-----------------------------------------------------------------------------
(* Nurseries *)

Open(t) ==
  /\ Running(t, "open")
  /\ opened' = [opened EXCEPT ![t] = <<Op(t).n>> \o @]
  /\ group' = [group EXCEPT ![Op(t).n] = NewGroup]
  /\ Advance(t)
  /\ UNCHANGED <<setup, up, stage, parked, failed, nursery, owner, buf, closed>>

\* The task counts before its thread exists.  Where no thread can be had the
\* VM runs the task inline, and a compiled program panics.
Spawn(t) ==
  LET n == Head(opened[t])
      u == Op(t).child
  IN
  /\ Running(t, "spawn") /\ opened[t] # <<>> /\ stage[u] = "unborn"
  /\ u \notin setup.refused \/ ~setup.native
  /\ nursery' = [nursery EXCEPT ![u] = n]
  /\ group' = [group EXCEPT ![n].tasks = @ \cup {u}]
  /\ IF u \in setup.refused
     THEN stage' = [stage EXCEPT ![t] = "inline", ![u] = "run"] /\ UNCHANGED pc
     ELSE Goto(u, "run") /\ Advance(t)
  /\ UNCHANGED <<setup, up, parked, failed, opened, owner, buf, closed>>

SpawnPanic(t) ==
  /\ Running(t, "spawn") /\ Op(t).child \in setup.refused /\ setup.native
  /\ up' = FALSE
  /\ UNCHANGED <<setup, pc, stage, parked, failed, nursery, opened, group, owner, buf, closed>>

\* run_child has returned.
InlineDone(t) ==
  /\ Inside(t, "inline") /\ stage[Op(t).child] = "ended"
  /\ Goto(t, "run") /\ Advance(t)
  /\ UNCHANGED <<setup, up, parked, failed, nursery, opened, group, owner, buf, closed>>

SealOnly(t) ==                                                      \* mutant
  /\ Running(t, "join") /\ opened[t] # <<>>
  /\ group' = [group EXCEPT ![Head(opened[t])].sealed = TRUE]
  /\ Goto(t, "join")
  /\ UNCHANGED <<setup, up, pc, parked, failed, nursery, opened, owner, buf, closed>>

\* OP_NURSERY_END seals the group: from now on the detector may give its
\* verdict, and gives it here for tasks that had parked before ...
Seal(t) ==
  LET n == Head(opened[t]) IN
  /\ Running(t, "join") /\ opened[t] # <<>>
  /\ Detect(t, n, [group[n] EXCEPT !.sealed = TRUE], "join")
  /\ UNCHANGED <<setup, up, pc, parked, failed, nursery, opened, owner, buf, closed>>

\* ... joins every task, frees the group, and returns an error if a task did.
Join(t) ==
  LET n == Head(opened[t]) IN
  /\ Inside(t, "join")
  /\ \A u \in group[n].tasks : stage[u] = "ended"
  /\ opened' = [opened EXCEPT ![t] = Tail(@)]
  /\ group' = [group EXCEPT ![n] = NewGroup]
  /\ IF group[n].tasks \cap failed # {}
     THEN Errs(t) /\ UNCHANGED pc
     ELSE Goto(t, "run") /\ Advance(t) /\ UNCHANGED <<up, failed>>
  /\ UNCHANGED <<setup, parked, nursery, owner, buf, closed>>
-----------------------------------------------------------------------------
(* The end of a thread and of the process *)

Return(t) ==
  /\ up /\ stage[t] = "run" /\ pc[t] \notin DOMAIN setup.code[t]
  /\ Ends(t)
  /\ UNCHANGED <<setup, pc, parked, failed, nursery, opened, group, owner, buf, closed>>

Fail(t) ==
  /\ Running(t, "fail")
  /\ Errs(t)
  /\ UNCHANGED <<setup, pc, parked, nursery, opened, group, owner, buf, closed>>

\* exit(): in the VM only the thread that calls it returns.
Exit(t) ==
  /\ Running(t, "exit")
  /\ IF setup.native THEN up' = FALSE /\ UNCHANGED stage ELSE Ends(t)
  /\ UNCHANGED <<setup, pc, parked, failed, nursery, opened, group, owner, buf, closed>>

Die(t) ==
  /\ Inside(t, "dying")
  /\ up' = FALSE
  /\ UNCHANGED <<setup, pc, stage, parked, failed, nursery, opened, group, owner, buf, closed>>

Step(t) ==
  \/ SendClosed(t) \/ Enter(t) \/ Register(t) \/ KeepWaiting(t) \/ StopWaiting(t)
  \/ NurseryPark(t) \/ Sleep(t) \/ Reacquire(t)
  \/ SendPut(t) \/ SendRefused(t) \/ RecvValue(t) \/ RecvNone(t) \/ RecvRefused(t)
  \/ PollValue(t) \/ PollNone(t) \/ CloseChannel(t)
  \/ Open(t) \/ Spawn(t) \/ SpawnPanic(t) \/ InlineDone(t) \/ Seal(t) \/ Join(t)
  \/ Return(t) \/ Fail(t) \/ Exit(t) \/ Die(t)

\* The process is gone.
Gone == ~up /\ UNCHANGED vars

Next == (\E t \in Thread : Step(t) \/ SpuriousWakeup(t)) \/ Gone

Spec == Init /\ [][Next]_vars

\* The operating system runs every thread, and wakes a waiter for no reason
\* only now and then.  Scripts are finite, so nobody contends for a lock for
\* ever and a thread that wants it gets it: no fairness of locks is assumed.
FairSpec == /\ Spec
            /\ \A t \in Thread : WF_vars(Step(t))
            /\ <>[][\A t \in Thread : ~SpuriousWakeup(t)]_vars
-----------------------------------------------------------------------------
(* Properties *)

TypeOK ==
  /\ setup \in Setups /\ up \in BOOLEAN
  /\ pc \in [Thread -> Nat \ {0}]
  /\ stage \in [Thread -> Stages]
  /\ parked \subseteq Thread /\ failed \subseteq Thread
  /\ nursery \in [Thread -> Nursery \cup {NoNursery}]
  /\ opened \in [Thread -> Seq(Nursery)]
  /\ group \in [Nursery -> [tasks : SUBSET Thread, active : SUBSET Thread,
                            sealed : BOOLEAN, deadlocked : BOOLEAN]]
  /\ owner \in [Channel -> Thread \cup {NoThread}]
  /\ buf \in [Channel -> Seq(Thread)]
  /\ closed \in [Channel -> BOOLEAN]

\* Those that will look at the channel again before they sleep.
Awake(c, op) == {t \in Thread : /\ stage[t] \in {"woken", "test", "act"}
                                /\ Op(t).ch = c /\ Op(t).op = op}

\* No wakeup is lost ("only signal when someone is parked", OP_SEND): while a
\* receiver sleeps each value in the channel has a thread on its way to take
\* it, while a sender sleeps each free slot has one on its way to fill it, and
\* nobody sleeps for a value on a closed channel.
WakeupsSuffice ==
  \A c \in Channel :
    /\ Asleep(c, "recv") # {} => /\ Len(buf[c]) <= Cardinality(Awake(c, "recv"))
                                 /\ ~closed[c]
    /\ Asleep(c, "send") # {} =>
         Capacity[c] - Len(buf[c]) <= Cardinality(Awake(c, "send"))

\* The VM's verdict is a true one ("only when NONE can proceed is the group
\* truly stuck", struct Nursery): from then on every task of the group is
\* blocked where it was, or has returned the error.
VerdictIsReal ==
  \A n \in Nursery : group[n].deadlocked /\ ~setup.native =>
    \A t \in group[n].tasks :
      \/ stage[t] = "ended" /\ t \in failed
      \/ stage[t] \in {"test", "doze", "asleep", "woken", "act"} /\ Blocked(Op(t))

\* Tasks "cannot outlive" their nursery (docs/language.md): a thread that has
\* returned leaves no task of a nursery it opened behind.
TasksEndFirst ==
  \A t \in Thread : stage[t] = "ended" =>
    \A i \in DOMAIN opened[t] : \A u \in group[opened[t][i]].tasks :
      stage[u] = "ended"

\* Each channel is a bounded first-in-first-out queue.
Chan(c) == INSTANCE BoundedChannel WITH
             Msg <- Thread, Capacity <- Capacity[c],
             queue <- buf[c], shut <- closed[c]
ChannelsAreQueues ==
  /\ \A c \in Channel : Chan(c)!Init
  /\ [][\A c \in Channel : Chan(c)!Next \/ UNCHANGED <<buf[c], closed[c]>>]_vars

\* A program ends, or is reported as a deadlock "rather than hanging"
\* (docs/language.md).
EndsOrReported == <>(~up \/ \E n \in Nursery : group[n].deadlocked)
=============================================================================
