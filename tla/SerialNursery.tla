--------------------------- MODULE SerialNursery ---------------------------
(***************************************************************************)
(* The default runtime: every task runs on the one OS thread (src/vm.c     *)
(* built without EMBER_PARALLEL and EMBER_MN).  A spawn only queues its    *)
(* task; the closing brace of a nursery runs the tasks of the innermost    *)
(* group, pass after pass, each until it blocks or ends.  Brackets nest on *)
(* the C stack: a task that reaches the end of a nursery of its own runs   *)
(* that group's loop inside the loop that runs the task.                   *)
(*                                                                         *)
(* The groups are one stack per VM, not per task: levels count from 1,     *)
(* group_depth is the innermost open level.                                *)
(***************************************************************************)
EXTENDS Integers, Sequences, FiniteSets, SequencesExt

CONSTANTS Task, Main,      \* Main is the fiber that vm_run starts
          Nursery, Channel,
          Capacity,        \* channel -> its capacity
          Programs,        \* the programs to run, each a script per task
          MaxTasks,        \* MAX_GROUP_FIBERS
          MaxDepth,        \* MAX_NURSERY_DEPTH
          NoNursery

Ops == [op : {"send", "recv", "poll", "close"}, ch : Channel]
         \union [op : {"open"}, n : Nursery]
         \union [op : {"spawn"}, child : Task]
         \union [op : {"join", "leave", "builtin", "fail", "exit"}]

ASSUME TaskAssumption ==
  /\ Main \in Task /\ NoNursery \notin Nursery
  /\ Capacity \in [Channel -> Nat \ {0}]
  /\ {MaxTasks, MaxDepth} \subseteq Nat \ {0}

\* How many nurseries a script has opened, and left, before its place i.
Opens(s, i)  == Cardinality({j \in 1 .. (i - 1) : s[j].op = "open"})
Closes(s, i) == Cardinality({j \in 1 .. (i - 1) : s[j].op \in {"join", "leave"}})

\* A nursery is a block: what ends one is in its body, and a function ends outside
\* of those it opened.  A spawn need not be in a body of its own function: the
\* checker takes one in a lambda that a body holds (check.c:7092), and a lambda can
\* be called elsewhere.
Bracketed(s) ==
  /\ \A i \in DOMAIN s : s[i].op \in {"join", "leave"} => Closes(s, i) < Opens(s, i)
  /\ Opens(s, Len(s) + 1) = Closes(s, Len(s) + 1)

\* A task is a spawn that was executed, and a nursery a block that was entered.
ASSUME ProgramAssumption ==
  /\ Programs \subseteq [Task -> Seq(Ops)]
  /\ \A p \in Programs, t \in Task :
       /\ Bracketed(p[t])
       /\ \A i \in DOMAIN p[t] : p[t][i].op \in {"open", "spawn"} =>
            /\ \A u \in Task : \A j \in DOMAIN p[u] : p[u][j] = p[t][i] => u = t /\ j = i
            /\ p[t][i].op = "spawn" => p[t][i].child # Main

VARIABLES
  code,       \* the program that runs
  pc,         \* task -> its place in its script
  blocked,    \* the tasks whose block_channel is set
  ended,      \* the tasks that have returned
  depth,      \* vm->group_depth
  groups,     \* vm->groups: level -> the tasks spawned into it
  loops,      \* the scheduler loops on the C stack, innermost last
  picking,    \* a scheduler loop looks for a task to run
  current,    \* the task that runs, or ran last
  buf, closed,\* channel -> its contents and flag
  exiting,    \* vm->exit_requested
  outcome,    \* "running", or what vm_run returned
  opened,     \* history: task -> the nurseries whose body it is in
  home,       \* history: task -> the nursery it was spawned in
  left,       \* history: the nurseries that have been left
  crossed     \* history: a task was suspended in, or jumped out of, a nursery's body,
              \* or a lambda has carried a spawn out of one

channels == <<buf, closed>>
history  == <<opened, home, left, crossed>>
sched    == <<depth, groups, loops, picking, current>>
vars     == <<code, pc, blocked, ended, sched, channels, exiting, outcome, history>>

Outcomes == {"running", "finished", "exited", "error", "deadlock"}

Init ==
  /\ code \in Programs
  /\ pc = [t \in Task |-> 1]
  /\ blocked = {} /\ ended = {}
  /\ depth = 0 /\ groups = [d \in 1 .. MaxDepth |-> <<>>]
  /\ loops = <<>> /\ picking = FALSE /\ current = Main
  /\ buf = [c \in Channel |-> <<>>] /\ closed = [c \in Channel |-> FALSE]
  /\ exiting = FALSE /\ outcome = "running"
  /\ opened = [t \in Task |-> <<>>] /\ home = [t \in Task |-> NoNursery]
  /\ left = {} /\ crossed = FALSE

-----------------------------------------------------------------------------
(* Helpers *)

Op(t) == code[t][pc[t]]

Running(t, op) ==
  /\ outcome = "running" /\ ~picking /\ current = t
  /\ pc[t] \in DOMAIN code[t]
  /\ Op(t).op = op

Advance(t) == pc' = [pc EXCEPT ![t] = @ + 1]

Full(c)  == Len(buf[c]) = Capacity[c]
Empty(c) == buf[c] = <<>>

\* What the loop looks at for a suspended task.
ReadyUnlessClosed(t) ==                                \* mutant
  IF Op(t).op = "send" THEN ~Full(Op(t).ch) ELSE ~Empty(Op(t).ch)
Ready(t) ==
  IF Op(t).op = "send" THEN ~Full(Op(t).ch) ELSE ~Empty(Op(t).ch) \/ closed[Op(t).ch]

Top == Last(loops)
SetTop(l) == loops' = Append(Front(loops), l)

\* A task that ran makes the pass count, whether it has ended or yielded.
RanOnlyIfEnded(t) == pc[t] \notin DOMAIN code[t]        \* mutant
Ran(t) == TRUE

\* run() returns to the loop that called run_child, or for the main fiber to
\* vm_run: the task has ended ...
Ends(t) ==
  /\ ended' = ended \union {t}
  /\ IF loops = <<>>
     THEN /\ outcome' = IF exiting' THEN "exited" ELSE "finished"
          /\ UNCHANGED <<loops, picking>>
     ELSE /\ SetTop([Top EXCEPT !.done = Top.done \union {Top.at}, !.at = Top.at + 1,
                                !.progressed = Ran(t)])
          /\ picking' = TRUE /\ UNCHANGED outcome
  /\ UNCHANGED <<depth, groups, current>>

\* ... or yields, which vm_run reports as a deadlock ...
Yields(t) ==
  /\ blocked' = blocked \union {t}
  /\ IF loops = <<>>
     THEN outcome' = "deadlock" /\ UNCHANGED <<loops, picking>>
     ELSE /\ SetTop([Top EXCEPT !.at = Top.at + 1, !.progressed = Ran(t)])
          /\ picking' = TRUE /\ UNCHANGED outcome
  /\ crossed' = (crossed \/ (loops # <<>> /\ opened[t] # <<>>))
  /\ UNCHANGED <<pc, ended, depth, groups, current, channels, opened, home, left>>

\* ... or has failed: every loop pops its group and returns the error.
Fails(how) ==
  /\ outcome' = how
  /\ depth' = IF loops = <<>> THEN depth ELSE Head(loops).g - 1
  /\ UNCHANGED <<pc, blocked, ended, groups, loops, picking, current, channels, history>>

-----------------------------------------------------------------------------
(* Channels *)

SendClosed(t) ==
  /\ Running(t, "send") /\ closed[Op(t).ch]
  /\ Fails("error")
  /\ UNCHANGED <<code, exiting>>

SendBlocks(t) ==
  /\ Running(t, "send") /\ ~closed[Op(t).ch] /\ Full(Op(t).ch)
  /\ Yields(t)
  /\ UNCHANGED <<code, exiting>>

SendPuts(t) ==
  /\ Running(t, "send") /\ ~closed[Op(t).ch] /\ ~Full(Op(t).ch)
  /\ buf' = [buf EXCEPT ![Op(t).ch] = Append(@, t)]
  /\ blocked' = blocked \ {t}
  /\ Advance(t)
  /\ UNCHANGED <<code, ended, sched, closed, exiting, outcome, history>>

RecvBlocks(t) ==
  /\ Running(t, "recv") /\ Empty(Op(t).ch) /\ ~closed[Op(t).ch]
  /\ Yields(t)
  /\ UNCHANGED <<code, exiting>>

RecvTakesNewest(t) ==                                  \* mutant
  /\ Running(t, "recv") /\ (~Empty(Op(t).ch) \/ closed[Op(t).ch])
  /\ buf' = [buf EXCEPT ![Op(t).ch] = IF Empty(Op(t).ch) THEN @ ELSE Front(@)]
  /\ blocked' = blocked \ {t}
  /\ Advance(t)
  /\ UNCHANGED <<code, ended, sched, closed, exiting, outcome, history>>

\* A value, or None from a closed channel that is drained.
RecvTakes(t) ==
  /\ Running(t, "recv") /\ (~Empty(Op(t).ch) \/ closed[Op(t).ch])
  /\ buf' = [buf EXCEPT ![Op(t).ch] = IF Empty(Op(t).ch) THEN @ ELSE Tail(@)]
  /\ blocked' = blocked \ {t}
  /\ Advance(t)
  /\ UNCHANGED <<code, ended, sched, closed, exiting, outcome, history>>

Poll(t) ==
  /\ Running(t, "poll")
  /\ buf' = [buf EXCEPT ![Op(t).ch] = IF Empty(Op(t).ch) THEN @ ELSE Tail(@)]
  /\ blocked' = blocked \ {t}
  /\ Advance(t)
  /\ UNCHANGED <<code, ended, sched, closed, exiting, outcome, history>>

Close(t) ==
  /\ Running(t, "close")
  /\ closed' = [closed EXCEPT ![Op(t).ch] = TRUE]
  /\ Advance(t)
  /\ UNCHANGED <<code, blocked, ended, sched, buf, exiting, outcome, history>>

-----------------------------------------------------------------------------
(* Nurseries *)

Open(t) ==
  /\ Running(t, "open")
  /\ IF depth >= MaxDepth
     THEN Fails("error")
     ELSE /\ depth' = depth + 1
          /\ groups' = [groups EXCEPT ![depth + 1] = <<>>]
          /\ opened' = [opened EXCEPT ![t] = Append(@, Op(t).n)]
          /\ Advance(t)
          /\ UNCHANGED <<blocked, ended, loops, picking, current, channels, outcome, home, left, crossed>>
  /\ UNCHANGED <<code, exiting>>

TooMany      == depth < 1 \/ Len(groups[depth]) >= MaxTasks

\* The nursery a task is in: that of the innermost body, or the one it was spawned in.
Scope(t) == IF opened[t] = <<>> THEN home[t] ELSE Last(opened[t])

\* The task joins the innermost group of the VM, whoever opened it.
Spawn(t) ==
  /\ Running(t, "spawn")
  /\ IF TooMany
     THEN Fails("error")
     ELSE /\ groups' = [groups EXCEPT ![depth] = Append(@, Op(t).child)]
          /\ home' = [home EXCEPT ![Op(t).child] = Scope(t)]
          /\ crossed' = (crossed \/ opened[t] = <<>>)
          /\ Advance(t)
          /\ UNCHANGED <<blocked, ended, depth, loops, picking, current, channels, outcome,
                         opened, left>>
  /\ UNCHANGED <<code, exiting>>

\* The level a loop leaves open while the tasks of level g run.
KeptNone(g) == g - 1     \* mutant
Kept(g) == g

\* The closing brace: a loop over the tasks of the innermost group.
Join(t) ==
  /\ Running(t, "join") /\ depth > 0
  /\ loops' = Append(loops, [g |-> depth, n |-> Len(groups[depth]), owner |-> t,
                             done |-> {}, at |-> 1, progressed |-> FALSE])
  /\ picking' = TRUE
  /\ depth' = Kept(depth)
  /\ UNCHANGED <<code, pc, blocked, ended, groups, current, channels, exiting, outcome, history>>

\* A return or a break out of the nursery's body: no code is emitted for it.
Leave(t) ==
  /\ Running(t, "leave")
  /\ opened' = [opened EXCEPT ![t] = Front(@)]
  /\ left' = left \union {Last(opened[t])}
  /\ crossed' = TRUE
  /\ Advance(t)
  /\ UNCHANGED <<code, blocked, ended, sched, channels, exiting, outcome, home>>

-----------------------------------------------------------------------------
(* The scheduler loop *)

InLoop == outcome = "running" /\ picking

TaskAt(l, i) == groups[l.g][i]
RemainingReady(l) ==                                   \* mutant
  {i \in 1 .. l.n : i \notin l.done /\ TaskAt(l, i) \notin blocked}
Remaining(l) == {i \in 1 .. l.n : i \notin l.done}
Runnable(l) == {i \in 1 .. l.n : /\ i \notin l.done
                                 /\ TaskAt(l, i) \notin blocked \/ Ready(TaskAt(l, i))}
Upcoming(l) == {i \in Runnable(l) : i >= l.at}

\* run_child with the next runnable task of the pass.
Resume ==
  /\ InLoop
  /\ \E i \in Upcoming(Top) :
     /\ \A j \in Upcoming(Top) : i <= j
     /\ SetTop([Top EXCEPT !.at = i])
     /\ current' = TaskAt(Top, i)
  /\ picking' = FALSE
  /\ UNCHANGED <<code, pc, blocked, ended, depth, groups, channels, exiting, outcome, history>>

EndOfPass == InLoop /\ Upcoming(Top) = {}

ProgressKept(l) == l.progressed     \* mutant
ProgressReset(l) == FALSE

NextPass ==
  /\ EndOfPass /\ Remaining(Top) # {} /\ Top.progressed
  /\ SetTop([Top EXCEPT !.at = 1, !.progressed = ProgressReset(Top)])
  /\ UNCHANGED <<code, pc, blocked, ended, depth, groups, picking, current, channels, exiting, outcome,
                 history>>

Deadlock ==
  /\ EndOfPass /\ Remaining(Top) # {} /\ ~Top.progressed
  /\ Fails("deadlock")
  /\ UNCHANGED <<code, exiting>>

\* All tasks of the group are done: pop it, and the parent goes on.
EndNursery ==
  /\ EndOfPass /\ Remaining(Top) = {}
  /\ loops' = Front(loops)
  /\ depth' = Top.g - 1
  /\ picking' = FALSE /\ current' = Top.owner
  /\ Advance(Top.owner)
  /\ opened' = [opened EXCEPT ![Top.owner] = Front(@)]
  /\ left' = left \union {Last(opened[Top.owner])}
  /\ UNCHANGED <<code, blocked, ended, groups, channels, exiting, outcome, home, crossed>>

-----------------------------------------------------------------------------
(* The end of a task *)

Return(t) ==
  /\ outcome = "running" /\ ~picking /\ current = t /\ pc[t] \notin DOMAIN code[t]
  /\ UNCHANGED exiting
  /\ Ends(t)
  /\ UNCHANGED <<code, pc, blocked, channels, history>>

Fail(t) ==
  /\ Running(t, "fail")
  /\ Fails("error")
  /\ UNCHANGED <<code, exiting>>

\* exit() returns from the interpreter, as if the task had ended; so does every
\* builtin that a task calls from then on, once it has done its work.
Exit(t) ==
  /\ Running(t, "exit")
  /\ exiting' = TRUE
  /\ Ends(t)
  /\ UNCHANGED <<code, pc, blocked, channels, history>>

CallBuiltin(t) ==
  /\ Running(t, "builtin")
  /\ UNCHANGED exiting
  /\ IF exiting THEN Ends(t) /\ UNCHANGED pc
                ELSE Advance(t) /\ UNCHANGED <<ended, sched, outcome>>
  /\ UNCHANGED <<code, blocked, channels, history>>

Step(t) ==
  \/ SendClosed(t) \/ SendBlocks(t) \/ SendPuts(t) \/ RecvBlocks(t) \/ RecvTakes(t)
  \/ Poll(t) \/ Close(t)
  \/ Open(t) \/ Spawn(t) \/ Join(t) \/ Leave(t)
  \/ Return(t) \/ Fail(t) \/ Exit(t) \/ CallBuiltin(t)

Schedule == Resume \/ NextPass \/ Deadlock \/ EndNursery

Over == outcome # "running" /\ UNCHANGED vars

Next == (\E t \in Task : Step(t)) \/ Schedule \/ Over

Spec == Init /\ [][Next]_vars

\* There is one thread, and it runs.
FairSpec == Spec /\ WF_vars(Next)

-----------------------------------------------------------------------------
(* Properties *)

\* Every variable keeps its type.
TypeOK ==
  /\ code \in [Task -> Seq(Ops)]
  /\ pc \in [Task -> Nat \ {0}]
  /\ blocked \subseteq Task /\ ended \subseteq Task
  /\ depth \in 0 .. MaxDepth
  /\ \A d \in 1 .. MaxDepth : groups[d] \in Seq(Task) /\ Len(groups[d]) <= MaxTasks
  /\ \A i \in DOMAIN loops : /\ loops[i].g \in 1 .. MaxDepth
                             /\ loops[i].at \in 1 .. loops[i].n + 1
                             /\ loops[i].done \subseteq 1 .. loops[i].n
                             /\ loops[i].owner \in Task
  /\ picking \in BOOLEAN /\ current \in Task
  /\ buf \in [Channel -> Seq(Task)] /\ closed \in [Channel -> BOOLEAN]
  /\ exiting \in BOOLEAN /\ outcome \in Outcomes
  /\ opened \in [Task -> Seq(Nursery)] /\ home \in [Task -> Nursery \union {NoNursery}]
  /\ left \subseteq Nursery /\ crossed \in BOOLEAN

\* No task of a loop opens, or closes, the level the loop iterates: popping it
\* first "would make it reuse slot g and clobber the group array this loop is
\* still iterating" (vm.c:4171).  Nor does a group outgrow its array (vm.c:4075,
\* MAX_GROUP_FIBERS).
GroupsIntact ==
  outcome = "running" =>
    /\ \A d \in 1 .. MaxDepth : Len(groups[d]) <= MaxTasks
    /\ \A i, j \in DOMAIN loops : i < j => loops[i].g < loops[j].g
    /\ loops # <<>> => /\ Top.g <= depth
                       /\ Len(groups[Top.g]) >= Top.n
    /\ \A t \in Task : Running(t, "join") => /\ depth > 0
                                             /\ loops # <<>> => Top.g < depth

\* A nursery that has been left has no unfinished task ("Tasks are scoped to a
\* `nursery` block and cannot outlive it", docs/language.md:1498).
TasksEndFirst == \A t \in Task : home[t] \in left => t \in ended

\* The same as long as no task is suspended in a nursery's body, or jumps out
\* of one: group_depth belongs to the VM and not to the task.
TasksEndFirstUncrossed == crossed \/ TasksEndFirst

\* A task that waits for its operation to become possible.
Stuck(t) ==
  /\ t \in blocked
  /\ IF Op(t).op = "send" THEN Len(buf[Op(t).ch]) = Capacity[Op(t).ch]
                          ELSE Empty(Op(t).ch) /\ ~closed[Op(t).ch]

\* A deadlock is reported only when every task of the group is stuck ("every
\* task in a nursery blocked on a channel that can never progress",
\* docs/language.md:1519) ...
DeadlockIsReal ==
  outcome = "deadlock" /\ loops # <<>> => \A i \in Remaining(Top) : Stuck(TaskAt(Top, i))

\* ... and by the loop of the outermost nursery only when every task of the program
\* is, no group having been crossed and no exit requested, which leaves the tasks of
\* a body unstarted.  The loop of an inner nursery does not look at the tasks outside
\* it, which might unblock its own (vm.c:4274).
ProgramIsStuck ==
  outcome = "deadlock" /\ Len(loops) = 1 /\ Top.g = 1 /\ ~crossed /\ ~exiting =>
    \A t \in Task : home[t] # NoNursery => t \in ended \/ Stuck(t)

\* Each channel is a bounded first-in-first-out queue.
Chan(c) == INSTANCE BoundedChannel WITH
             Msg <- Task, Capacity <- Capacity[c],
             queue <- buf[c], shut <- closed[c]
ChannelsAreQueues ==
  /\ \A c \in Channel : Chan(c)!Init
  /\ [][\A c \in Channel : Chan(c)!Next \/ UNCHANGED <<buf[c], closed[c]>>]_vars

\* A program whose tasks do not loop ends, or is reported.
AlwaysEnds == <>(outcome # "running")
=============================================================================
