------------------------- MODULE MNSchedulerProofs -------------------------
(***************************************************************************)
(* Theorems about MNScheduler, for every set of fibers, workers, channels  *)
(* and nurseries, every capacity and every script: the types, that two     *)
(* workers are in run() with one fiber only while one of them rewinds its  *)
(* ip, and that channels are queues.                                       *)
(*                                                                         *)
(* Unless exit() is called before the main fiber has parked: that the live *)
(* counters are right and that no fiber is freed while a worker runs or    *)
(* finishes it; where each fiber is saved before it is run again, that it  *)
(* is not freed before the save either.                                    *)
(*                                                                         *)
(* Unless a task fails, too: that each fiber is in the one place it can be *)
(* run or woken from, that the main fiber stays on the calling thread,     *)
(* that no fiber is in two workers' run() where only the main fiber joins, *)
(* and that the deadlock verdict is a true one.                            *)
(***************************************************************************)
EXTENDS MNScheduler, FiniteSetTheorems, WellFoundedInduction, TLAPS

\* What an operation of a script names.
LEMMA OpFields ==
  ASSUME NEW f \in Fiber, NEW i \in DOMAIN Code[f]
  PROVE  LET o == Code[f][i] IN
         /\ o.op \in {"send", "recv", "poll", "close"} => o.ch \in Channel
         /\ o.op = "open" => o.n \in Nursery
         /\ o.op = "spawn" => o.child \in Fiber
         /\ o.op = "loop" => o.to \in Nat
<1>1. Code[f] \in Seq(Ops)
  BY SchedulerAssumption DEF SchedulerAssumption
<1>2. Code[f][i] \in Ops
  BY <1>1
<1>. QED
  BY <1>2 DEF Ops

\* What the stage a worker is in says of its own variables; needed for the
\* types of what it reads (Head(todo), a nursery, the channel of sp[w]).
Control(w) ==
  /\ wpc[w] = "enter" => /\ sp[w] \in DOMAIN Code[cur[w]]
                         /\ Code[cur[w]][sp[w]].op \in {"send", "recv"}
  /\ wpc[w] \in {"wake", "push"} =>
       todo[w] # <<>> /\ then[w] \in {"exec", "chain", "unlock", "tally"}
  /\ wpc[w] = "verdict" => then[w] \in {"account", "sweep"}
  /\ At(w) \in Uncounted => nursery[cur[w]] # NoNursery

ControlOK ==
  /\ \A w \in Worker : Control(w)
  /\ \A n \in Nursery : group[n].parentParked => group[n].parent # NoFiber

Inv == TypeOK /\ ControlOK

\* A worker keeps its control facts when another moves, or wakes it.
LEMMA OthersKeepControl ==
  ASSUME Inv, NEW v \in Worker,
         wpc'[v] \in {wpc[v], "woken"}, todo'[v] = todo[v],
         then'[v] = then[v], cur'[v] = cur[v], sp'[v] = sp[v],
         nursery[cur[v]] # NoNursery => nursery'[cur[v]] # NoNursery
  PROVE  Control(v)'
<1>1. Control(v)
  BY DEF Inv, ControlOK
<1>2. At(v)' \in {At(v), "woken"}
  BY DEF At
<1>. QED
  BY <1>1, <1>2 DEF Control, Uncounted

\* The last element of a sequence, and the one before a given one.
LEMMA SeqLast ==
  ASSUME NEW S, NEW q \in Seq(S), q # <<>>
  PROVE  q[Len(q)] \in S
OBVIOUS

LEMMA SeqPrevious ==
  ASSUME NEW S, NEW q \in Seq(S), NEW f, \E i \in DOMAIN q : q[i] = f
  PROVE  LET s == CHOOSE i \in DOMAIN q : q[i] = f
         IN  s # 1 => q[s - 1] \in S
<1>. DEFINE s == CHOOSE i \in DOMAIN q : q[i] = f
<1>1. s \in DOMAIN q
  OBVIOUS
<1>. HIDE DEF s
<1>2. s # 1 => s - 1 \in 1 .. Len(q)
  BY <1>1
<1>. QED
  BY <1>2

\* The updates of a nursery keep its type.
LEMMA GroupCounted ==
  ASSUME NEW r \in Group, NEW l \in Int, NEW b \in BOOLEAN
  PROVE  [r EXCEPT !.live = l, !.parentParked = b] \in Group
BY DEF Group

LEMMA GroupAwaited ==
  ASSUME NEW r \in Group, NEW f \in Fiber
  PROVE  [r EXCEPT !.parent = f, !.parentParked = TRUE] \in Group
BY DEF Group

LEMMA GroupCancelled ==
  ASSUME NEW r \in Group
  PROVE  [r EXCEPT !.cancel = TRUE] \in Group
BY DEF Group

LEMMA GroupGrown ==
  ASSUME NEW r \in Group, NEW c \in Seq(Fiber), NEW l \in Int
  PROVE  [r EXCEPT !.children = c, !.live = l] \in Group
BY DEF Group

LEMMA GroupOpened ==
  ASSUME NEW n \in Nursery \cup {NoNursery}
  PROVE  [NewGroup EXCEPT !.open = TRUE, !.enclosing = n] \in Group
<1>1. NewGroup \in Group
  BY DEF NewGroup, Group
<1>. QED
  BY <1>1 DEF Group

\* What a worker's current operation names is a channel.
LEMMA ChType ==
  ASSUME Inv, NEW w \in Worker
  PROVE  /\ Entered(w, "send") \/ Entered(w, "recv") => Ch(w) \in Channel
         /\ Executing(w, "poll") \/ Executing(w, "close") => Ch(w) \in Channel
BY OpFields DEF Inv, TypeOK, WorkersOK, ControlOK, Control, Entered,
   Executing, Ch

LEMMA InitInv == Init => Inv
<1>. SUFFICES ASSUME Init PROVE Inv
  OBVIOUS
<1>. USE SchedulerAssumption DEF SchedulerAssumption, Init
<1>0. FibersOK
  BY DEF FibersOK
<1>1. QueueOK
  BY DEF QueueOK
<1>5. PoolOK
  <2>1. nidle \in Int /\ live \in Int
    OBVIOUS
  <2>2. /\ shutdown \in BOOLEAN /\ halting \in BOOLEAN
        /\ reported \in BOOLEAN /\ globalError \in BOOLEAN
    OBVIOUS
  <2>. QED
    BY ONLY <2>1, <2>2 DEF PoolOK
<1>2. WorkersOK
  BY DEF WorkersOK, Stages
<1>3. GroupsOK /\ ChannelsOK
  BY DEF GroupsOK, Group, NewGroup, ChannelsOK
<1>4. ControlOK
  BY DEF ControlOK, Control, At, Uncounted, NewGroup
<1>. QED
  BY <1>0, <1>1, <1>2, <1>3, <1>4, <1>5 DEF Inv, TypeOK

-----------------------------------------------------------------------------
(* Every step keeps Inv: one lemma per action, one step per part it changes *)

LEMMA CheckCancelInv ==
  ASSUME Inv, NEW w \in Worker, CheckCancel(w) PROVE Inv'
<1>. USE DEF Inv, TypeOK, CheckCancel
<1>1. FibersOK' /\ QueueOK' /\ PoolOK' /\ GroupsOK' /\ ChannelsOK'
  BY DEF FibersOK, QueueOK, PoolOK, GroupsOK, ChannelsOK, fiberVars,
    queueVars, poolVars, groupVars, chanVars
<1>2. WorkersOK'
  <2>1. wpc' \in [Worker -> Stages]
    BY DEF WorkersOK, Leave, Goto, Stages
  <2>2. sp' \in [Worker -> Int]
    BY DEF WorkersOK, FibersOK
  <2>3. result' \in [Worker -> {"ok", "error", "cancelled"}]
    BY DEF WorkersOK, Leave
  <2>. QED
    BY <2>1, <2>2, <2>3 DEF WorkersOK
<1>3. \A n \in Nursery : group'[n].parentParked => group'[n].parent # NoFiber
  BY DEF ControlOK, WorkersOK, groupVars
<1>4. ASSUME NEW v \in Worker PROVE Control(v)'
  <2>1. CASE v = w
    BY <2>1
      DEF ControlOK, Control, At, Uncounted, WorkersOK, Executing, Leave,
      Goto, fiberVars, groupVars
  <2>2. CASE v # w
    BY <2>2, OthersKeepControl
      DEF WorkersOK, Executing, Leave, Goto, fiberVars, groupVars
  <2>. QED
    BY <2>1, <2>2
<1>. QED
  BY <1>1, <1>2, <1>3, <1>4
    DEF ControlOK

LEMMA SendClosedInv ==
  ASSUME Inv, NEW w \in Worker, SendClosed(w) PROVE Inv'
<1>. USE DEF Inv, TypeOK, SendClosed
<1>1. FibersOK' /\ QueueOK' /\ PoolOK' /\ GroupsOK' /\ ChannelsOK'
  BY DEF FibersOK, QueueOK, PoolOK, GroupsOK, ChannelsOK, fiberVars,
    queueVars, poolVars, groupVars, chanVars
<1>2. WorkersOK'
  BY DEF WorkersOK, Leave, Goto, Stages
<1>3. \A n \in Nursery : group'[n].parentParked => group'[n].parent # NoFiber
  BY DEF ControlOK, WorkersOK, groupVars
<1>4. ASSUME NEW v \in Worker PROVE Control(v)'
  <2>1. CASE v = w
    BY <2>1
      DEF ControlOK, Control, At, Uncounted, WorkersOK, Leave, Goto,
      fiberVars, groupVars
  <2>2. CASE v # w
    BY <2>2, OthersKeepControl
      DEF WorkersOK, Leave, Goto, fiberVars, groupVars
  <2>. QED
    BY <2>1, <2>2
<1>. QED
  BY <1>1, <1>2, <1>3, <1>4
    DEF ControlOK

LEMMA SendParkInv ==
  ASSUME Inv, NEW w \in Worker, SendPark(w) PROVE Inv'
<1>. USE DEF Inv, TypeOK, SendPark
<1>a. Ch(w) \in Channel
  BY ChType
<1>b. cur[w] \in Fiber /\ Append(sendq[Ch(w)], cur[w]) \in Seq(Fiber)
  BY <1>a DEF WorkersOK, ChannelsOK
<1>1. QueueOK' /\ PoolOK' /\ GroupsOK'
  BY DEF QueueOK, PoolOK, GroupsOK, queueVars, poolVars, groupVars
<1>2. FibersOK'
  BY DEF FibersOK, Park, WorkersOK
<1>3. WorkersOK'
  BY DEF WorkersOK, Park, Goto, Stages, localVars
<1>4. ChannelsOK'
  BY <1>b
    DEF ChannelsOK, Park
<1>5. \A n \in Nursery : group'[n].parentParked => group'[n].parent # NoFiber
  BY DEF ControlOK, WorkersOK, groupVars
<1>6. ASSUME NEW v \in Worker PROVE Control(v)'
  <2>1. CASE v = w
    BY <2>1
      DEF ControlOK, Control, At, Uncounted, WorkersOK, Park, Goto,
      localVars, groupVars
  <2>2. CASE v # w
    BY <2>2, OthersKeepControl
      DEF WorkersOK, Park, Goto, localVars, groupVars
  <2>. QED
    BY <2>1, <2>2
<1>. QED
  BY <1>1, <1>2, <1>3, <1>4, <1>5, <1>6
    DEF ControlOK

LEMMA RecvParkInv ==
  ASSUME Inv, NEW w \in Worker, RecvPark(w) PROVE Inv'
<1>. USE DEF Inv, TypeOK, RecvPark
<1>a. Ch(w) \in Channel
  BY ChType
<1>b. cur[w] \in Fiber /\ Append(recvq[Ch(w)], cur[w]) \in Seq(Fiber)
  BY <1>a DEF WorkersOK, ChannelsOK
<1>1. QueueOK' /\ PoolOK' /\ GroupsOK'
  BY DEF QueueOK, PoolOK, GroupsOK, queueVars, poolVars, groupVars
<1>2. FibersOK'
  BY DEF FibersOK, Park, WorkersOK
<1>3. WorkersOK'
  BY DEF WorkersOK, Park, Goto, Stages, localVars
<1>4. ChannelsOK'
  BY <1>b
    DEF ChannelsOK, Park
<1>5. \A n \in Nursery : group'[n].parentParked => group'[n].parent # NoFiber
  BY DEF ControlOK, WorkersOK, groupVars
<1>6. ASSUME NEW v \in Worker PROVE Control(v)'
  <2>1. CASE v = w
    BY <2>1
      DEF ControlOK, Control, At, Uncounted, WorkersOK, Park, Goto,
      localVars, groupVars
  <2>2. CASE v # w
    BY <2>2, OthersKeepControl
      DEF WorkersOK, Park, Goto, localVars, groupVars
  <2>. QED
    BY <2>1, <2>2
<1>. QED
  BY <1>1, <1>2, <1>3, <1>4, <1>5, <1>6
    DEF ControlOK

LEMMA SendPutInv ==
  ASSUME Inv, NEW w \in Worker, SendPut(w) PROVE Inv'
<1>. USE DEF Inv, TypeOK, SendPut
<1>a. Ch(w) \in Channel
  BY ChType
<1>1. QueueOK' /\ PoolOK' /\ GroupsOK'
  BY DEF QueueOK, PoolOK, GroupsOK, queueVars, poolVars, groupVars
<1>2. FibersOK'
  BY DEF FibersOK, Advance, WorkersOK
<1>3. WorkersOK'
  BY <1>a
    DEF WorkersOK, RequeueThen, FirstOf, Goto, Stages, ChannelsOK
<1>4. ChannelsOK'
  BY <1>a
    DEF ChannelsOK, RestOf, WorkersOK
<1>5. \A n \in Nursery : group'[n].parentParked => group'[n].parent # NoFiber
  BY DEF ControlOK, WorkersOK, groupVars
<1>6. ASSUME NEW v \in Worker PROVE Control(v)'
  <2>1. CASE v = w
    BY <2>1
      DEF ControlOK, Control, At, Uncounted, WorkersOK, groupVars,
      RequeueThen, FirstOf, Goto
  <2>2. CASE v # w
    BY <2>2, OthersKeepControl
      DEF WorkersOK, groupVars, RequeueThen, FirstOf, Goto
  <2>. QED
    BY <2>1, <2>2
<1>. QED
  BY <1>1, <1>2, <1>3, <1>4, <1>5, <1>6
    DEF ControlOK

LEMMA RecvValueInv ==
  ASSUME Inv, NEW w \in Worker, RecvValue(w) PROVE Inv'
<1>. USE DEF Inv, TypeOK, RecvValue
<1>a. Ch(w) \in Channel
  BY ChType
<1>1. QueueOK' /\ PoolOK' /\ GroupsOK'
  BY DEF QueueOK, PoolOK, GroupsOK, queueVars, poolVars, groupVars,
    TakeValue
<1>2. FibersOK'
  BY DEF FibersOK, TakeValue, Advance, WorkersOK
<1>3. WorkersOK'
  BY <1>a
    DEF WorkersOK, TakeValue, RequeueThen, FirstOf, Goto, Stages, ChannelsOK
<1>4. ChannelsOK'
  BY <1>a
    DEF ChannelsOK, TakeValue, RestOf, WorkersOK
<1>5. \A n \in Nursery : group'[n].parentParked => group'[n].parent # NoFiber
  BY DEF ControlOK, WorkersOK, groupVars, TakeValue
<1>6. ASSUME NEW v \in Worker PROVE Control(v)'
  <2>1. CASE v = w
    BY <2>1
      DEF ControlOK, Control, At, Uncounted, WorkersOK, groupVars,
      TakeValue, RequeueThen, FirstOf, Goto
  <2>2. CASE v # w
    BY <2>2, OthersKeepControl
      DEF WorkersOK, groupVars, TakeValue, RequeueThen, FirstOf, Goto
  <2>. QED
    BY <2>1, <2>2
<1>. QED
  BY <1>1, <1>2, <1>3, <1>4, <1>5, <1>6
    DEF ControlOK

LEMMA PollValueInv ==
  ASSUME Inv, NEW w \in Worker, PollValue(w) PROVE Inv'
<1>. USE DEF Inv, TypeOK, PollValue
<1>a. Ch(w) \in Channel
  BY ChType
<1>1. QueueOK' /\ PoolOK' /\ GroupsOK'
  BY DEF QueueOK, PoolOK, GroupsOK, queueVars, poolVars, groupVars,
    TakeValue
<1>2. FibersOK'
  BY DEF FibersOK, TakeValue, Advance, WorkersOK
<1>3. WorkersOK'
  BY <1>a
    DEF WorkersOK, TakeValue, RequeueThen, FirstOf, Goto, Stages, ChannelsOK
<1>4. ChannelsOK'
  BY <1>a
    DEF ChannelsOK, TakeValue, RestOf, WorkersOK
<1>5. \A n \in Nursery : group'[n].parentParked => group'[n].parent # NoFiber
  BY DEF ControlOK, WorkersOK, groupVars, TakeValue
<1>6. ASSUME NEW v \in Worker PROVE Control(v)'
  <2>1. CASE v = w
    BY <2>1
      DEF ControlOK, Control, At, Uncounted, WorkersOK, groupVars,
      TakeValue, RequeueThen, FirstOf, Goto
  <2>2. CASE v # w
    BY <2>2, OthersKeepControl
      DEF WorkersOK, groupVars, TakeValue, RequeueThen, FirstOf, Goto
  <2>. QED
    BY <2>1, <2>2
<1>. QED
  BY <1>1, <1>2, <1>3, <1>4, <1>5, <1>6
    DEF ControlOK

LEMMA RecvNoneInv ==
  ASSUME Inv, NEW w \in Worker, RecvNone(w) PROVE Inv'
<1>. USE DEF Inv, TypeOK, RecvNone
<1>1. QueueOK' /\ PoolOK' /\ GroupsOK' /\ ChannelsOK'
  BY DEF QueueOK, PoolOK, GroupsOK, ChannelsOK, queueVars, poolVars,
    groupVars, chanVars, TakeNone
<1>2. FibersOK'
  BY DEF FibersOK, TakeNone, Advance, WorkersOK
<1>3. WorkersOK'
  BY DEF WorkersOK, TakeNone, Goto, Stages, localVars
<1>4. \A n \in Nursery : group'[n].parentParked => group'[n].parent # NoFiber
  BY DEF ControlOK, WorkersOK, TakeNone, groupVars
<1>5. ASSUME NEW v \in Worker PROVE Control(v)'
  <2>1. CASE v = w
    BY <2>1
      DEF ControlOK, Control, At, Uncounted, WorkersOK, TakeNone, Goto,
      localVars, groupVars
  <2>2. CASE v # w
    BY <2>2, OthersKeepControl
      DEF WorkersOK, TakeNone, Goto, localVars, groupVars
  <2>. QED
    BY <2>1, <2>2
<1>. QED
  BY <1>1, <1>2, <1>3, <1>4, <1>5
    DEF ControlOK

LEMMA PollNoneInv ==
  ASSUME Inv, NEW w \in Worker, PollNone(w) PROVE Inv'
<1>. USE DEF Inv, TypeOK, PollNone
<1>1. QueueOK' /\ PoolOK' /\ GroupsOK' /\ ChannelsOK'
  BY DEF QueueOK, PoolOK, GroupsOK, ChannelsOK, queueVars, poolVars,
    groupVars, chanVars, TakeNone
<1>2. FibersOK'
  BY DEF FibersOK, TakeNone, Advance, WorkersOK
<1>3. WorkersOK'
  BY DEF WorkersOK, TakeNone, Goto, Stages, localVars
<1>4. \A n \in Nursery : group'[n].parentParked => group'[n].parent # NoFiber
  BY DEF ControlOK, WorkersOK, TakeNone, groupVars
<1>5. ASSUME NEW v \in Worker PROVE Control(v)'
  <2>1. CASE v = w
    BY <2>1
      DEF ControlOK, Control, At, Uncounted, WorkersOK, TakeNone, Goto,
      localVars, groupVars
  <2>2. CASE v # w
    BY <2>2, OthersKeepControl, SMTT(30)
      DEF WorkersOK, TakeNone, Goto, localVars, groupVars
  <2>. QED
    BY <2>1, <2>2
<1>. QED
  BY <1>1, <1>2, <1>3, <1>4, <1>5
    DEF ControlOK

LEMMA CloseEffects ==
  ASSUME Inv, NEW w \in Worker, CloseChannel(w)
  PROVE  /\ wpc[w] = "exec" /\ wpc' = [wpc EXCEPT ![w] = "chain"]
         /\ closed' = [closed EXCEPT ![Ch(w)] = TRUE]
         /\ recvq' = [recvq EXCEPT ![Ch(w)] = <<>>]
         /\ sendq' = [sendq EXCEPT ![Ch(w)] = <<>>]
         /\ pc' = [pc EXCEPT ![cur[w]] = @ + 1]
         /\ UNCHANGED <<fstate, freed, savedSp, nursery, curOpen, head, tail,
                        pinned, nready, poolVars, groupVars, buf, cur, sp, todo,
                        then, result, exitRequested, direct>>
         /\ qnext' \in [Fiber -> Fiber \cup {NoFiber}]
         /\ chain' \in [Worker -> Fiber \cup {NoFiber}]
<1>. DEFINE q == recvq[Ch(w)] \o sendq[Ch(w)]
            s(f) == CHOOSE i \in DOMAIN q : q[i] = f
            hit(f) == \E i \in DOMAIN q : q[i] = f
<1>1. q \in Seq(Fiber)
  <2>1. Ch(w) \in Channel
    BY ChType DEF CloseChannel, Inv, TypeOK
  <2>2. recvq[Ch(w)] \in Seq(Fiber) /\ sendq[Ch(w)] \in Seq(Fiber)
    BY <2>1 DEF Inv, TypeOK, ChannelsOK
  <2>. QED
    BY <2>2
<1>2. ASSUME NEW f \in Fiber, hit(f) PROVE s(f) # 1 => q[s(f) - 1] \in Fiber
  <2>. HIDE DEF q
  <2>. QED
    BY ONLY <1>1, <1>2, SeqPrevious
<1>3. q # <<>> => q[Len(q)] \in Fiber
  <2>. HIDE DEF q
  <2>. QED
    BY ONLY <1>1, SeqLast
<1>4. /\ qnext' = [f \in Fiber |-> IF hit(f) THEN IF s(f) = 1 THEN NoFiber
                                                              ELSE q[s(f) - 1]
                                             ELSE qnext[f]]
      /\ chain' = [chain EXCEPT ![w] = IF q = <<>> THEN NoFiber ELSE q[Len(q)]]
  BY ONLY CloseChannel(w) DEF CloseChannel
<1>. HIDE DEF q, s, hit
<1>5. qnext' \in [Fiber -> Fiber \cup {NoFiber}]
  BY ONLY Inv, <1>2, <1>4 DEF Inv, TypeOK, QueueOK
<1>6. chain' \in [Worker -> Fiber \cup {NoFiber}]
  BY ONLY Inv, <1>3, <1>4 DEF Inv, TypeOK, WorkersOK
<1>. QED
  BY ONLY CloseChannel(w), <1>5, <1>6 DEF CloseChannel, Executing, Advance, Goto

LEMMA CloseChannelInv ==
  ASSUME Inv, NEW w \in Worker, CloseChannel(w) PROVE Inv'
<1>a. w \in Worker /\ cur[w] \in Fiber /\ Ch(w) \in Channel
  BY ChType DEF Inv, TypeOK, WorkersOK, CloseChannel
<1>b. /\ wpc[w] = "exec" /\ wpc' = [wpc EXCEPT ![w] = "chain"]
      /\ closed' = [closed EXCEPT ![Ch(w)] = TRUE]
      /\ recvq' = [recvq EXCEPT ![Ch(w)] = <<>>]
      /\ sendq' = [sendq EXCEPT ![Ch(w)] = <<>>]
      /\ pc' = [pc EXCEPT ![cur[w]] = @ + 1]
      /\ UNCHANGED <<fstate, freed, savedSp, nursery, curOpen, head, tail,
                     pinned, nready, poolVars, groupVars, buf, cur, sp, todo,
                     then, result, exitRequested, direct>>
      /\ qnext' \in [Fiber -> Fiber \cup {NoFiber}]
      /\ chain' \in [Worker -> Fiber \cup {NoFiber}]
  BY CloseEffects
<1>1. PoolOK' /\ GroupsOK'
  BY ONLY Inv, <1>b DEF Inv, TypeOK, PoolOK, GroupsOK, poolVars, groupVars
<1>2. FibersOK'
  BY ONLY Inv, <1>a, <1>b DEF Inv, TypeOK, FibersOK
<1>3. QueueOK'
  BY ONLY Inv, <1>b DEF Inv, TypeOK, QueueOK
<1>4. WorkersOK'
  BY ONLY Inv, <1>b DEF Inv, TypeOK, WorkersOK, Stages
<1>5. ChannelsOK'
  <2>1. <<>> \in Seq(Fiber)
    OBVIOUS
  <2>. QED
    BY ONLY Inv, <1>b, <2>1 DEF Inv, TypeOK, ChannelsOK
<1>6. \A n \in Nursery : group'[n].parentParked => group'[n].parent # NoFiber
  BY ONLY Inv, <1>b DEF Inv, ControlOK, groupVars
<1>7. ASSUME NEW v \in Worker PROVE Control(v)'
  <2>1. CASE v = w
    <3>1. wpc'[w] = "chain"
      BY ONLY Inv, <1>a, <1>b DEF Inv, TypeOK, WorkersOK
    <3>. QED
      BY ONLY <2>1, <3>1 DEF Control, At, Uncounted
  <2>2. CASE v # w
    BY ONLY Inv, <1>a, <1>b, <1>7, <2>2, OthersKeepControl DEF Inv, TypeOK, WorkersOK
  <2>. QED
    BY <2>1, <2>2
<1>. QED
  BY ONLY <1>1, <1>2, <1>3, <1>4, <1>5, <1>6, <1>7 DEF Inv, TypeOK, ControlOK

LEMMA WalkChainInv ==
  ASSUME Inv, NEW w \in Worker, WalkChain(w) PROVE Inv'
<1>. USE DEF Inv, TypeOK, WalkChain
<1>1. FibersOK' /\ QueueOK' /\ PoolOK' /\ GroupsOK' /\ ChannelsOK'
  BY DEF FibersOK, QueueOK, PoolOK, GroupsOK, ChannelsOK, fiberVars,
    queueVars, poolVars, groupVars, chanVars
<1>2. WorkersOK'
  <2>1. CASE chain[w] = NoFiber
    BY <2>1 DEF WorkersOK, Goto, Stages
  <2>2. CASE chain[w] # NoFiber
    <3>1. chain[w] \in Fiber /\ qnext[chain[w]] \in Fiber \cup {NoFiber}
      BY <2>2 DEF WorkersOK, QueueOK
    <3>. QED
      <4>1. /\ chain' = [chain EXCEPT ![w] = qnext[chain[w]]]
            /\ todo' = [todo EXCEPT ![w] = <<chain[w]>>]
            /\ then' = [then EXCEPT ![w] = "chain"]
            /\ wpc' = [wpc EXCEPT ![w] = "wake"]
        BY <2>2 DEF RequeueThen, Goto
      <4>2. /\ UNCHANGED <<cur, sp, result, exitRequested, direct>>
            /\ WorkersOK
        OBVIOUS
      <4>3. chain' \in [Worker -> Fiber \cup {NoFiber}] /\ todo' \in [Worker -> Seq(Fiber)]
        BY ONLY <3>1, <4>1, <4>2 DEF WorkersOK
      <4>4. /\ wpc' \in [Worker -> Stages]
            /\ then' \in [Worker -> {"exec", "chain", "sweep", "unlock", "account", "tally"}]
        BY ONLY <3>1, <4>1, <4>2 DEF WorkersOK, Stages
      <4>. QED
        BY ONLY <4>2, <4>3, <4>4 DEF WorkersOK
  <2>. QED
    BY <2>1, <2>2
<1>3. \A n \in Nursery : group'[n].parentParked => group'[n].parent # NoFiber
  BY DEF ControlOK, WorkersOK, groupVars
<1>4. ASSUME NEW v \in Worker PROVE Control(v)'
  <2>1. CASE v = w
    <3>1. /\ wpc'[w] \in {"exec", "wake"}
          /\ wpc'[w] = "wake" => todo'[w] # <<>> /\ then'[w] = "chain"
      BY DEF WorkersOK, RequeueThen, Goto
    <3>2. At(w)' \notin Uncounted
      BY <3>1 DEF At, Uncounted
    <3>. QED
      BY <2>1, <3>1, <3>2 DEF Control
  <2>2. CASE v # w
    BY <2>2, OthersKeepControl
      DEF WorkersOK, RequeueThen, Goto, fiberVars, groupVars
  <2>. QED
    BY <2>1, <2>2
<1>. QED
  BY <1>1, <1>2, <1>3, <1>4
    DEF ControlOK

LEMMA RequeueInv ==
  ASSUME Inv, NEW w \in Worker, Requeue(w) PROVE Inv'
<1>. USE DEF Inv, TypeOK, Requeue
<1>1. QueueOK' /\ PoolOK' /\ GroupsOK' /\ ChannelsOK'
  BY DEF QueueOK, PoolOK, GroupsOK, ChannelsOK, queueVars, poolVars,
    groupVars, chanVars
<1>2. FibersOK'
  BY DEF FibersOK
<1>3. WorkersOK'
  <2>1. Next1(w) \in Stages /\ Tail(todo[w]) \in Seq(Fiber)
    BY DEF WorkersOK, Next1, Stages, ControlOK, Control
  <2>2. CASE CanRequeue(Head(todo[w]))
    BY <2>2 DEF WorkersOK, Goto, Stages
  <2>3. CASE ~CanRequeue(Head(todo[w]))
    BY <2>1, <2>3 DEF WorkersOK, Goto
  <2>. QED
    BY <2>2, <2>3
<1>4. \A n \in Nursery : group'[n].parentParked => group'[n].parent # NoFiber
  BY DEF ControlOK, WorkersOK, groupVars
<1>5. ASSUME NEW v \in Worker PROVE Control(v)'
  <2>1. CASE v = w
    BY <2>1
      DEF ControlOK, Control, At, Uncounted, WorkersOK, Goto, Next1,
      groupVars
  <2>2. CASE v # w
    BY <2>2, OthersKeepControl
      DEF WorkersOK, Goto, Next1, groupVars
  <2>. QED
    BY <2>1, <2>2
<1>. QED
  BY <1>1, <1>2, <1>3, <1>4, <1>5
    DEF ControlOK

LEMMA PushInv ==
  ASSUME Inv, NEW w \in Worker, Push(w) PROVE Inv'
<1>. USE DEF Inv, TypeOK, Push
<1>a. Head(todo[w]) \in Fiber /\ Tail(todo[w]) \in Seq(Fiber)
  BY DEF WorkersOK, ControlOK, Control
<1>1. FibersOK' /\ PoolOK' /\ GroupsOK' /\ ChannelsOK'
  BY DEF FibersOK, PoolOK, GroupsOK, ChannelsOK, fiberVars, poolVars,
    groupVars, chanVars
<1>2. QueueOK'
  BY <1>a
    DEF QueueOK, Enqueue, Pinned
<1>3. WorkersOK'
  <2>1. \E woken \in SUBSET Idle : GotoWaking(w, Next1(w), woken)
    BY DEF Signalled
  <2>2. Next1(w) \in Stages
    BY DEF Next1, WorkersOK, Stages
  <2>3. wpc' \in [Worker -> Stages]
    BY ONLY Inv, <2>1, <2>2 DEF Inv, TypeOK, WorkersOK, GotoWaking, Stages
  <2>4. /\ todo' = [todo EXCEPT ![w] = Tail(@)]
        /\ UNCHANGED <<cur, sp, then, chain, result, exitRequested, direct>>
    OBVIOUS
  <2>5. todo' \in [Worker -> Seq(Fiber)]
    BY ONLY Inv, <1>a, <2>4 DEF Inv, TypeOK, WorkersOK
  <2>. QED
    BY ONLY Inv, <2>3, <2>4, <2>5 DEF Inv, TypeOK, WorkersOK
<1>4. \A n \in Nursery : group'[n].parentParked => group'[n].parent # NoFiber
  BY DEF ControlOK, WorkersOK, groupVars
<1>5. ASSUME NEW v \in Worker PROVE Control(v)'
  <2>1. CASE v = w
    BY <2>1
      DEF ControlOK, Control, At, Uncounted, WorkersOK, GotoWaking, Next1,
      fiberVars, groupVars
  <2>2. CASE v # w
    BY <2>2, OthersKeepControl
      DEF WorkersOK, GotoWaking, Next1, fiberVars, groupVars
  <2>. QED
    BY <2>1, <2>2
<1>. QED
  BY <1>1, <1>2, <1>3, <1>4, <1>5
    DEF ControlOK

LEMMA LoopInv ==
  ASSUME Inv, NEW w \in Worker, Loop(w) PROVE Inv'
<1>. USE DEF Inv, TypeOK, Loop
<1>1. QueueOK' /\ PoolOK' /\ GroupsOK' /\ ChannelsOK'
  BY DEF QueueOK, PoolOK, GroupsOK, ChannelsOK, queueVars, poolVars,
    groupVars, chanVars
<1>2. FibersOK'
  BY OpFields
    DEF FibersOK, Executing, WorkersOK
<1>3. WorkersOK'
  BY DEF WorkersOK, Leave, Goto, Stages
<1>4. \A n \in Nursery : group'[n].parentParked => group'[n].parent # NoFiber
  BY DEF ControlOK, WorkersOK, groupVars
<1>5. ASSUME NEW v \in Worker PROVE Control(v)'
  <2>1. CASE v = w
    BY <2>1
      DEF ControlOK, Control, At, Uncounted, WorkersOK, Executing, Leave,
      Goto, groupVars
  <2>2. CASE v # w
    BY <2>2, OthersKeepControl
      DEF WorkersOK, Executing, Leave, Goto, groupVars
  <2>. QED
    BY <2>1, <2>2
<1>. QED
  BY <1>1, <1>2, <1>3, <1>4, <1>5
    DEF ControlOK

LEMMA ReturnInv ==
  ASSUME Inv, NEW w \in Worker, Return(w) PROVE Inv'
<1>. USE DEF Inv, TypeOK, Return
<1>1. FibersOK' /\ QueueOK' /\ PoolOK' /\ GroupsOK' /\ ChannelsOK'
  BY DEF FibersOK, QueueOK, PoolOK, GroupsOK, ChannelsOK, fiberVars,
    queueVars, poolVars, groupVars, chanVars
<1>2. WorkersOK'
  BY DEF WorkersOK, Leave, Goto, Stages
<1>3. \A n \in Nursery : group'[n].parentParked => group'[n].parent # NoFiber
  BY DEF ControlOK, WorkersOK, groupVars
<1>4. ASSUME NEW v \in Worker PROVE Control(v)'
  <2>1. CASE v = w
    <3>1. wpc'[w] \in {"halt", "finish"}
      BY DEF Leave, Goto, WorkersOK
    <3>. QED
      BY ONLY <2>1, <3>1 DEF Control, At, Uncounted
  <2>2. CASE v # w
    BY <2>2, OthersKeepControl
      DEF WorkersOK, Executing, Leave, Goto, fiberVars, groupVars
  <2>. QED
    BY <2>1, <2>2
<1>. QED
  BY <1>1, <1>2, <1>3, <1>4
    DEF ControlOK

LEMMA ExitInv ==
  ASSUME Inv, NEW w \in Worker, Exit(w) PROVE Inv'
<1>. USE DEF Inv, TypeOK, Exit
<1>1. FibersOK' /\ QueueOK' /\ PoolOK' /\ GroupsOK' /\ ChannelsOK'
  BY DEF FibersOK, QueueOK, PoolOK, GroupsOK, ChannelsOK, fiberVars,
    queueVars, poolVars, groupVars, chanVars
<1>2. WorkersOK'
  BY DEF WorkersOK, Goto, Stages
<1>3. \A n \in Nursery : group'[n].parentParked => group'[n].parent # NoFiber
  BY DEF ControlOK, WorkersOK, groupVars
<1>4. ASSUME NEW v \in Worker PROVE Control(v)'
  <2>1. CASE v = w
    BY <2>1
      DEF ControlOK, Control, At, Uncounted, WorkersOK, Executing, Goto,
      fiberVars, groupVars
  <2>2. CASE v # w
    BY <2>2, OthersKeepControl
      DEF WorkersOK, Executing, Goto, fiberVars, groupVars
  <2>. QED
    BY <2>1, <2>2
<1>. QED
  BY <1>1, <1>2, <1>3, <1>4
    DEF ControlOK

LEMMA OpenInv ==
  ASSUME Inv, NEW w \in Worker, Open(w) PROVE Inv'
<1>. USE DEF Inv, TypeOK, Open
<1>a. Code[cur[w]][pc[cur[w]]].n \in Nursery
  BY OpFields DEF WorkersOK, Executing
<1>1. QueueOK' /\ PoolOK' /\ ChannelsOK'
  BY DEF QueueOK, PoolOK, ChannelsOK, queueVars, poolVars, chanVars
<1>2. FibersOK'
  BY <1>a
    DEF FibersOK, Advance, WorkersOK
<1>3. WorkersOK'
  BY DEF WorkersOK, localVars
<1>4. ASSUME NEW g \in Nursery PROVE group'[g] \in Group
  <2>1. CASE g = Code[cur[w]][pc[cur[w]]].n
    <3>1. group'[g] = [NewGroup EXCEPT !.open = TRUE,
                     !.enclosing = curOpen[cur[w]]]
      BY <2>1, <1>a DEF GroupsOK
    <3>. QED
      <4>1. curOpen[cur[w]] \in Nursery \cup {NoNursery}
        BY DEF FibersOK, WorkersOK
      <4>. QED
        BY ONLY <3>1, <4>1, GroupOpened
  <2>2. CASE g # Code[cur[w]][pc[cur[w]]].n
    BY <2>2, <1>a DEF GroupsOK
  <2>. QED
    BY <2>1, <2>2
<1>5. GroupsOK'
  BY <1>4
    DEF GroupsOK
<1>6. \A n \in Nursery : group'[n].parentParked => group'[n].parent # NoFiber
  BY <1>a
    DEF ControlOK, WorkersOK, GroupsOK, Group, NewGroup
<1>7. ASSUME NEW v \in Worker PROVE Control(v)'
  <2>1. CASE v = w
    BY <2>1, <1>a
      DEF ControlOK, Control, At, Uncounted, WorkersOK, GroupsOK, Group,
      NewGroup, localVars
  <2>2. CASE v # w
    BY <2>2, <1>a, OthersKeepControl
      DEF WorkersOK, GroupsOK, Group, NewGroup, localVars
  <2>. QED
    BY <2>1, <2>2
<1>. QED
  BY <1>1, <1>2, <1>3, <1>5, <1>6, <1>7
    DEF ControlOK

LEMMA SpawnInv ==
  ASSUME Inv, NEW w \in Worker, Spawn(w) PROVE Inv'
<1>. DEFINE f == cur[w]
            child == Code[f][pc[f]].child
            n == curOpen[f]
            kids == <<child>> \o group[n].children
            grown == [group[n] EXCEPT !.children = kids, !.live = group[n].live + 1]
<1>a. f \in Fiber /\ child \in Fiber /\ n \in Nursery
  BY OpFields DEF Inv, TypeOK, WorkersOK, FibersOK, Spawn, Executing
<1>b. group[n] \in Group /\ group[n].children \in Seq(Fiber) /\ group[n].live + 1 \in Int
  BY <1>a DEF Inv, TypeOK, GroupsOK, Group
<1>c. kids \in Seq(Fiber)
  BY ONLY <1>a, <1>b
<1>d. grown \in Group
  <2>. HIDE DEF kids
  <2>. QED
    BY ONLY <1>b, <1>c, GroupGrown
<1>e. /\ wpc[w] = "exec" /\ live' = live + 1
      /\ fstate' = [fstate EXCEPT ![child] = "ready"]
      /\ nursery' = [nursery EXCEPT ![child] = n]
      /\ pc' = [pc EXCEPT ![f] = @ + 1]
      /\ Enqueue(child)
      /\ \E woken \in Signalled : GotoWaking(w, "exec", woken)
      /\ UNCHANGED <<freed, savedSp, curOpen, pinned, nidle, shutdown, halting,
                     reported, globalError, nlock, chanVars, localVars>>
  BY DEF Spawn, Executing, Advance
<1>f. group' = [group EXCEPT ![n] = grown]
  BY DEF Spawn
<1>. HIDE DEF child, kids, grown
<1>1. ChannelsOK'
  BY ONLY Inv, <1>e DEF Inv, TypeOK, ChannelsOK, chanVars
<1>2. FibersOK'
  BY ONLY Inv, <1>a, <1>e DEF Inv, TypeOK, FibersOK
<1>3. QueueOK'
  BY ONLY Inv, <1>a, <1>e DEF Inv, TypeOK, QueueOK, Enqueue
<1>4. WorkersOK'
  <2>1. wpc' \in [Worker -> Stages]
    BY ONLY Inv, <1>e DEF Inv, TypeOK, WorkersOK, GotoWaking, Stages
  <2>. QED
    BY ONLY Inv, <1>e, <2>1 DEF Inv, TypeOK, WorkersOK, localVars
<1>5. PoolOK'
  BY ONLY Inv, <1>e DEF Inv, TypeOK, PoolOK
<1>6. GroupsOK'
  BY ONLY Inv, <1>d, <1>e, <1>f DEF Inv, TypeOK, GroupsOK
<1>7. \A g \in Nursery : group'[g].parentParked => group'[g].parent # NoFiber
  <2>1. grown.parentParked = group[n].parentParked /\ grown.parent = group[n].parent
    BY ONLY <1>b DEF grown, Group
  <2>. QED
    BY ONLY Inv, <1>a, <1>f, <2>1 DEF Inv, TypeOK, GroupsOK, ControlOK
<1>8. ASSUME NEW v \in Worker PROVE Control(v)'
  <2>1. CASE v = w
    <3>1. wpc'[w] = "exec"
      BY ONLY Inv, <1>e DEF Inv, TypeOK, WorkersOK, GotoWaking
    <3>. QED
      BY ONLY <2>1, <3>1 DEF Control, At, Uncounted
  <2>2. CASE v # w
    <3>1. wpc'[v] \in {wpc[v], "woken"}
      BY ONLY <1>e, <2>2, <1>8 DEF GotoWaking
    <3>2. nursery[cur[v]] # NoNursery => nursery'[cur[v]] # NoNursery
      BY ONLY Inv, <1>a, <1>e, <1>8, SchedulerAssumption
        DEF Inv, TypeOK, FibersOK, WorkersOK, SchedulerAssumption
    <3>. QED
      BY ONLY Inv, <1>8, <1>e, <3>1, <3>2, OthersKeepControl DEF localVars
  <2>. QED
    BY <2>1, <2>2
<1>. QED
  BY ONLY <1>1, <1>2, <1>3, <1>4, <1>5, <1>6, <1>7, <1>8 DEF Inv, TypeOK, ControlOK

LEMMA JoinParkInv ==
  ASSUME Inv, NEW w \in Worker, JoinPark(w) PROVE Inv'
<1>. DEFINE f == cur[w]
            n == curOpen[f]
            awaited == [group[n] EXCEPT !.parent = f, !.parentParked = TRUE]
<1>a. f \in Fiber /\ n \in Nursery /\ f # NoFiber
  BY SchedulerAssumption
    DEF SchedulerAssumption, Inv, TypeOK, WorkersOK, FibersOK, JoinPark
<1>b. awaited \in Group
  BY <1>a, GroupAwaited DEF Inv, TypeOK, GroupsOK
<1>c. /\ group' = [group EXCEPT ![n] = awaited]
      /\ fstate' = [fstate EXCEPT ![f] = "parked"]
      /\ sp' = [sp EXCEPT ![w] = pc[f]]
      /\ pc' = [pc EXCEPT ![f] = @ + 1]
      /\ wpc' = [wpc EXCEPT ![w] = "rewind"]
      /\ UNCHANGED <<freed, savedSp, nursery, curOpen, queueVars, poolVars,
                     nlock, chanVars, cur, todo, then, chain, result,
                     exitRequested, direct>>
  BY DEF JoinPark, Advance, Goto
<1>d. awaited.parent # NoFiber
  BY ONLY Inv, <1>a DEF Inv, TypeOK, GroupsOK, Group
<1>. HIDE DEF awaited
<1>1. QueueOK' /\ PoolOK' /\ ChannelsOK'
  BY ONLY Inv, <1>c
    DEF Inv, TypeOK, QueueOK, PoolOK, ChannelsOK, queueVars, poolVars, chanVars
<1>2. FibersOK'
  BY ONLY Inv, <1>a, <1>c DEF Inv, TypeOK, FibersOK
<1>3. WorkersOK'
  BY ONLY Inv, <1>a, <1>c DEF Inv, TypeOK, FibersOK, WorkersOK, Stages
<1>4. GroupsOK'
  BY ONLY Inv, <1>b, <1>c DEF Inv, TypeOK, GroupsOK
<1>5. \A g \in Nursery : group'[g].parentParked => group'[g].parent # NoFiber
  BY ONLY Inv, <1>c, <1>d DEF Inv, TypeOK, ControlOK, GroupsOK
<1>6. ASSUME NEW v \in Worker PROVE Control(v)'
  <2>1. CASE v = w
    <3>1. wpc'[w] = "rewind"
      BY ONLY Inv, <1>c DEF Inv, TypeOK, WorkersOK
    <3>. QED
      BY ONLY <2>1, <3>1 DEF Control, At, Uncounted
  <2>2. CASE v # w
    BY ONLY Inv, <1>c, <1>6, <2>2, OthersKeepControl
      DEF Inv, TypeOK, WorkersOK
  <2>. QED
    BY <2>1, <2>2
<1>. QED
  BY ONLY <1>1, <1>2, <1>3, <1>4, <1>5, <1>6 DEF Inv, TypeOK, ControlOK

LEMMA RewindInv ==
  ASSUME Inv, NEW w \in Worker, Rewind(w) PROVE Inv'
<1>. USE DEF Inv, TypeOK, Rewind
<1>1. QueueOK' /\ PoolOK' /\ GroupsOK' /\ ChannelsOK'
  BY DEF QueueOK, PoolOK, GroupsOK, ChannelsOK, queueVars, poolVars,
    groupVars, chanVars
<1>2. FibersOK'
  BY DEF FibersOK, WorkersOK
<1>3. WorkersOK'
  BY DEF WorkersOK, Goto, Stages, localVars
<1>4. \A n \in Nursery : group'[n].parentParked => group'[n].parent # NoFiber
  BY DEF ControlOK, WorkersOK, groupVars
<1>5. ASSUME NEW v \in Worker PROVE Control(v)'
  <2>1. CASE v = w
    BY <2>1
      DEF ControlOK, Control, At, Uncounted, WorkersOK, Goto, localVars,
      groupVars
  <2>2. CASE v # w
    BY <2>2, OthersKeepControl
      DEF WorkersOK, Goto, localVars, groupVars
  <2>. QED
    BY <2>1, <2>2
<1>. QED
  BY <1>1, <1>2, <1>3, <1>4, <1>5
    DEF ControlOK

LEMMA JoinDoneInv ==
  ASSUME Inv, NEW w \in Worker, JoinDone(w) PROVE Inv'
<1>. USE DEF Inv, TypeOK, JoinDone
<1>a. curOpen[cur[w]] \in Nursery
  BY DEF WorkersOK, FibersOK
<1>1. QueueOK' /\ PoolOK' /\ ChannelsOK'
  BY DEF QueueOK, PoolOK, ChannelsOK, queueVars, poolVars, chanVars
<1>2. FibersOK'
  BY <1>a
    DEF FibersOK, Advance, WorkersOK, GroupsOK, Group
<1>3. WorkersOK'
  BY DEF WorkersOK, Leave, Goto, Stages
<1>4. ASSUME NEW g \in Nursery PROVE group'[g] \in Group
  BY <1>a
    DEF GroupsOK, Group
<1>5. GroupsOK'
  BY <1>4
    DEF GroupsOK
<1>6. \A n \in Nursery : group'[n].parentParked => group'[n].parent # NoFiber
  BY <1>a
    DEF ControlOK, WorkersOK, GroupsOK, Group
<1>7. ASSUME NEW v \in Worker PROVE Control(v)'
  <2>1. CASE v = w
    BY <2>1, <1>a
      DEF ControlOK, Control, At, Uncounted, WorkersOK, GroupsOK, Group,
      Leave, Goto
  <2>2. CASE v # w
    BY <2>2, <1>a, OthersKeepControl
      DEF WorkersOK, GroupsOK, Group, Leave, Goto
  <2>. QED
    BY <2>1, <2>2
<1>. QED
  BY <1>1, <1>2, <1>3, <1>5, <1>6, <1>7
    DEF ControlOK

LEMMA PopPinnedInv ==
  ASSUME Inv, NEW w \in Worker, PopPinned(w) PROVE Inv'
<1>. USE DEF Inv, TypeOK, PopPinned
<1>1. GroupsOK' /\ ChannelsOK'
  BY DEF GroupsOK, ChannelsOK, groupVars, chanVars
<1>2. FibersOK'
  BY DEF FibersOK, Claim, Goto
<1>3. QueueOK'
  BY DEF QueueOK
<1>4. WorkersOK'
  <2>1. pinned \in Fiber
    BY SchedulerAssumption DEF QueueOK, SchedulerAssumption
  <2>2. CASE fstate[pinned] = "ready"
    BY <2>1, <2>2 DEF WorkersOK, Claim, Goto, Stages
  <2>3. CASE fstate[pinned] # "ready"
    BY <2>3 DEF WorkersOK, Claim, Goto, Stages
  <2>. QED
    BY <2>2, <2>3
<1>5. PoolOK'
  BY DEF PoolOK, IdleNow
<1>6. \A n \in Nursery : group'[n].parentParked => group'[n].parent # NoFiber
  BY DEF ControlOK, WorkersOK, groupVars
<1>7. ASSUME NEW v \in Worker PROVE Control(v)'
  <2>1. CASE v = w
    BY <2>1
      DEF ControlOK, Control, At, Uncounted, WorkersOK, InPop, groupVars,
      Claim, Goto
  <2>2. CASE v # w
    BY <2>2, OthersKeepControl
      DEF WorkersOK, InPop, groupVars, Claim, Goto
  <2>. QED
    BY <2>1, <2>2
<1>. QED
  BY <1>1, <1>2, <1>3, <1>4, <1>5, <1>6, <1>7
    DEF ControlOK

LEMMA PopReadyInv ==
  ASSUME Inv, NEW w \in Worker, PopReady(w) PROVE Inv'
<1>. USE DEF Inv, TypeOK, PopReady
<1>1. GroupsOK' /\ ChannelsOK'
  BY DEF GroupsOK, ChannelsOK, groupVars, chanVars
<1>2. FibersOK'
  BY DEF FibersOK, Claim, Goto
<1>3. QueueOK'
  BY DEF QueueOK, TailAfter
<1>4. WorkersOK'
  BY DEF WorkersOK, Claim, Goto, Stages, QueueOK
<1>5. PoolOK'
  BY DEF PoolOK, IdleNow
<1>6. \A n \in Nursery : group'[n].parentParked => group'[n].parent # NoFiber
  BY DEF ControlOK, WorkersOK, groupVars
<1>7. ASSUME NEW v \in Worker PROVE Control(v)'
  <2>1. CASE v = w
    BY <2>1
      DEF ControlOK, Control, At, Uncounted, WorkersOK, InPop, groupVars,
      Claim, Goto
  <2>2. CASE v # w
    BY <2>2, OthersKeepControl
      DEF WorkersOK, InPop, groupVars, Claim, Goto
  <2>. QED
    BY <2>1, <2>2
<1>. QED
  BY <1>1, <1>2, <1>3, <1>4, <1>5, <1>6, <1>7
    DEF ControlOK

LEMMA PopShutdownInv ==
  ASSUME Inv, NEW w \in Worker, PopShutdown(w) PROVE Inv'
<1>. USE DEF Inv, TypeOK, PopShutdown
<1>1. FibersOK' /\ QueueOK' /\ GroupsOK' /\ ChannelsOK'
  BY DEF FibersOK, QueueOK, GroupsOK, ChannelsOK, fiberVars, queueVars,
    groupVars, chanVars
<1>2. WorkersOK'
  BY DEF WorkersOK, Goto, Stages, localVars
<1>3. PoolOK'
  BY DEF PoolOK, IdleNow
<1>4. \A n \in Nursery : group'[n].parentParked => group'[n].parent # NoFiber
  BY DEF ControlOK, WorkersOK, groupVars
<1>5. ASSUME NEW v \in Worker PROVE Control(v)'
  <2>1. CASE v = w
    BY <2>1
      DEF ControlOK, Control, At, Uncounted, WorkersOK, Goto, fiberVars,
      groupVars, localVars
  <2>2. CASE v # w
    BY <2>2, OthersKeepControl
      DEF WorkersOK, Goto, fiberVars, groupVars, localVars
  <2>. QED
    BY <2>1, <2>2
<1>. QED
  BY <1>1, <1>2, <1>3, <1>4, <1>5
    DEF ControlOK

LEMMA PopWaitInv ==
  ASSUME Inv, NEW w \in Worker, PopWait(w) PROVE Inv'
<1>. USE DEF Inv, TypeOK, PopWait
<1>1. FibersOK' /\ QueueOK' /\ GroupsOK' /\ ChannelsOK'
  BY DEF FibersOK, QueueOK, GroupsOK, ChannelsOK, fiberVars, queueVars,
    groupVars, chanVars
<1>2. WorkersOK'
  BY DEF WorkersOK, Goto, Stages, localVars
<1>3. PoolOK'
  BY DEF PoolOK, IdleNow
<1>4. \A n \in Nursery : group'[n].parentParked => group'[n].parent # NoFiber
  BY DEF ControlOK, WorkersOK, groupVars
<1>5. ASSUME NEW v \in Worker PROVE Control(v)'
  <2>1. CASE v = w
    BY <2>1
      DEF ControlOK, Control, At, Uncounted, WorkersOK, Goto, fiberVars,
      groupVars, localVars
  <2>2. CASE v # w
    BY <2>2, OthersKeepControl
      DEF WorkersOK, Goto, fiberVars, groupVars, localVars
  <2>. QED
    BY <2>1, <2>2
<1>. QED
  BY <1>1, <1>2, <1>3, <1>4, <1>5
    DEF ControlOK

LEMMA PopDeadlockInv ==
  ASSUME Inv, NEW w \in Worker, PopDeadlock(w) PROVE Inv'
<1>. USE DEF Inv, TypeOK, PopDeadlock
<1>1. FibersOK' /\ QueueOK' /\ GroupsOK' /\ ChannelsOK'
  BY DEF FibersOK, QueueOK, GroupsOK, ChannelsOK, fiberVars, queueVars,
    groupVars, chanVars
<1>2. WorkersOK'
  BY DEF WorkersOK, GotoWaking, Stages, localVars
<1>3. PoolOK'
  BY DEF PoolOK, IdleNow
<1>4. \A n \in Nursery : group'[n].parentParked => group'[n].parent # NoFiber
  BY DEF ControlOK, WorkersOK, groupVars
<1>5. ASSUME NEW v \in Worker PROVE Control(v)'
  <2>1. CASE v = w
    BY <2>1
      DEF ControlOK, Control, At, Uncounted, WorkersOK, GotoWaking,
      fiberVars, groupVars, localVars, Idle
  <2>2. CASE v # w
    BY <2>2, OthersKeepControl
      DEF WorkersOK, GotoWaking, fiberVars, groupVars, localVars, Idle
  <2>. QED
    BY <2>1, <2>2
<1>. QED
  BY <1>1, <1>2, <1>3, <1>4, <1>5
    DEF ControlOK

LEMMA SpuriousWakeupInv ==
  ASSUME Inv, NEW w \in Worker, SpuriousWakeup(w) PROVE Inv'
<1>. USE DEF Inv, TypeOK, SpuriousWakeup
<1>1. FibersOK' /\ QueueOK' /\ PoolOK' /\ GroupsOK' /\ ChannelsOK'
  BY DEF FibersOK, QueueOK, PoolOK, GroupsOK, ChannelsOK, fiberVars,
    queueVars, poolVars, groupVars, chanVars
<1>2. WorkersOK'
  BY DEF WorkersOK, Goto, Stages, localVars
<1>3. \A n \in Nursery : group'[n].parentParked => group'[n].parent # NoFiber
  BY DEF ControlOK, WorkersOK, groupVars
<1>4. ASSUME NEW v \in Worker PROVE Control(v)'
  <2>1. CASE v = w
    BY <2>1
      DEF ControlOK, Control, At, Uncounted, WorkersOK, Goto, fiberVars,
      groupVars, localVars
  <2>2. CASE v # w
    BY <2>2, OthersKeepControl
      DEF WorkersOK, Goto, fiberVars, groupVars, localVars
  <2>. QED
    BY <2>1, <2>2
<1>. QED
  BY <1>1, <1>2, <1>3, <1>4
    DEF ControlOK

LEMMA SaveInv ==
  ASSUME Inv, NEW w \in Worker, Save(w) PROVE Inv'
<1>. USE DEF Inv, TypeOK, Save
<1>1. QueueOK' /\ PoolOK' /\ GroupsOK' /\ ChannelsOK'
  BY DEF QueueOK, PoolOK, GroupsOK, ChannelsOK, queueVars, poolVars,
    groupVars, chanVars
<1>2. FibersOK'
  BY DEF FibersOK, WorkersOK
<1>3. WorkersOK'
  BY DEF WorkersOK, Goto, Stages
<1>4. \A n \in Nursery : group'[n].parentParked => group'[n].parent # NoFiber
  BY DEF ControlOK, WorkersOK, groupVars
<1>5. ASSUME NEW v \in Worker PROVE Control(v)'
  <2>1. CASE v = w
    BY <2>1
      DEF ControlOK, Control, At, Uncounted, WorkersOK, Goto, groupVars
  <2>2. CASE v # w
    BY <2>2, OthersKeepControl
      DEF WorkersOK, Goto, groupVars
  <2>. QED
    BY <2>1, <2>2
<1>. QED
  BY <1>1, <1>2, <1>3, <1>4, <1>5
    DEF ControlOK

LEMMA HaltInv ==
  ASSUME Inv, NEW w \in Worker, Halt(w) PROVE Inv'
<1>. USE DEF Inv, TypeOK, Halt
<1>1. FibersOK' /\ QueueOK' /\ GroupsOK' /\ ChannelsOK'
  BY DEF FibersOK, QueueOK, GroupsOK, ChannelsOK, fiberVars, queueVars,
    groupVars, chanVars
<1>2. WorkersOK'
  BY DEF WorkersOK, GotoWaking, Stages
<1>3. PoolOK'
  BY DEF PoolOK
<1>4. \A n \in Nursery : group'[n].parentParked => group'[n].parent # NoFiber
  BY DEF ControlOK, WorkersOK, groupVars
<1>5. ASSUME NEW v \in Worker PROVE Control(v)'
  <2>1. CASE v = w
    BY <2>1
      DEF ControlOK, Control, At, Uncounted, WorkersOK, GotoWaking, Idle,
      fiberVars, groupVars
  <2>2. CASE v # w
    BY <2>2, OthersKeepControl
      DEF WorkersOK, GotoWaking, Idle, fiberVars, groupVars
  <2>. QED
    BY <2>1, <2>2
<1>. QED
  BY <1>1, <1>2, <1>3, <1>4, <1>5
    DEF ControlOK

LEMMA FinishInv ==
  ASSUME Inv, NEW w \in Worker, Finish(w) PROVE Inv'
<1>. USE DEF Inv, TypeOK, Finish
<1>1. QueueOK' /\ PoolOK' /\ ChannelsOK'
  BY DEF QueueOK, PoolOK, ChannelsOK, queueVars, poolVars, chanVars
<1>2. FibersOK'
  BY DEF FibersOK, WorkersOK
<1>3. WorkersOK'
  BY DEF WorkersOK, Goto, Stages
<1>4. ASSUME NEW g \in Nursery PROVE group'[g] \in Group
  <2>1. CASE g = nursery[cur[w]]
    <3>1. group'[g] = IF group' = group THEN group[g]
                   ELSE [group[g] EXCEPT !.cancel = TRUE]
      BY <2>1 DEF GroupsOK
    <3>. QED
      <4>1. group[g] \in Group
        BY DEF GroupsOK
      <4>. QED
        BY ONLY <3>1, <4>1, GroupCancelled
  <2>2. CASE g # nursery[cur[w]]
    BY <2>2 DEF GroupsOK
  <2>. QED
    BY <2>1, <2>2
<1>5. GroupsOK'
  BY <1>4
    DEF GroupsOK
<1>6. ASSUME NEW g \in Nursery
      PROVE  group'[g].parentParked => group'[g].parent # NoFiber
  <2>1. /\ group'[g].parentParked = group[g].parentParked
        /\ group'[g].parent = group[g].parent
    BY DEF GroupsOK, Group
  <2>. QED
    BY <2>1 DEF ControlOK
<1>7. ASSUME NEW v \in Worker PROVE Control(v)'
  <2>1. CASE v = w
    BY <2>1
      DEF ControlOK, Control, At, Uncounted, WorkersOK, FibersOK, GroupsOK,
      Group, Goto
  <2>2. CASE v # w
    BY <2>2, OthersKeepControl
      DEF WorkersOK, FibersOK, GroupsOK, Group, Goto
  <2>. QED
    BY <2>1, <2>2
<1>. QED
  BY <1>1, <1>2, <1>3, <1>5, <1>6, <1>7
    DEF ControlOK

LEMMA VerdictInv ==
  ASSUME Inv, NEW w \in Worker, Verdict(w) PROVE Inv'
<1>. USE DEF Inv, TypeOK, Verdict
<1>a. nursery[cur[w]] \in Nursery
  BY DEF ControlOK, Control, At, Uncounted, WorkersOK, FibersOK
<1>1. FibersOK' /\ QueueOK' /\ PoolOK' /\ ChannelsOK'
  BY DEF FibersOK, QueueOK, PoolOK, ChannelsOK, fiberVars, queueVars,
    poolVars, chanVars
<1>2. WorkersOK'
  BY DEF WorkersOK, Goto, Stages, localVars, ControlOK
<1>3. ASSUME NEW g \in Nursery PROVE group'[g] \in Group
  <2>1. CASE g = nursery[cur[w]]
    <3>1. group'[g] = IF result[w] = "error"
                   THEN [group[g] EXCEPT !.failed = TRUE] ELSE group[g]
      BY <2>1, <1>a DEF GroupsOK
    <3>. QED
      BY <2>1, <3>1, <1>a DEF GroupsOK, Group
  <2>2. CASE g # nursery[cur[w]]
    BY <2>2, <1>a DEF GroupsOK
  <2>. QED
    BY <2>1, <2>2
<1>4. GroupsOK'
  BY <1>3
    DEF GroupsOK
<1>5. ASSUME NEW g \in Nursery
      PROVE  group'[g].parentParked => group'[g].parent # NoFiber
  <2>1. /\ group'[g].parentParked = group[g].parentParked
        /\ group'[g].parent = group[g].parent
    BY DEF GroupsOK, Group
  <2>. QED
    BY <2>1 DEF ControlOK
<1>6. ASSUME NEW v \in Worker PROVE Control(v)'
  <2>1. CASE v = w
    BY <2>1, <1>a
      DEF ControlOK, Control, At, Uncounted, WorkersOK, GroupsOK, Group,
      Goto, fiberVars, localVars
  <2>2. CASE v # w
    BY <2>2, <1>a, OthersKeepControl
      DEF WorkersOK, GroupsOK, Group, Goto, fiberVars, localVars
  <2>. QED
    BY <2>1, <2>2
<1>. QED
  BY <1>1, <1>2, <1>4, <1>5, <1>6
    DEF ControlOK

LEMMA SweepInv ==
  ASSUME Inv, NEW w \in Worker, Sweep(w) PROVE Inv'
<1>. USE DEF Inv, TypeOK, Sweep
<1>a. nursery[cur[w]] \in Nursery
  BY DEF ControlOK, Control, At, Uncounted, WorkersOK, FibersOK
<1>1. FibersOK' /\ QueueOK' /\ PoolOK' /\ ChannelsOK'
  BY DEF FibersOK, QueueOK, PoolOK, ChannelsOK, fiberVars, queueVars,
    poolVars, chanVars
<1>2. WorkersOK'
  BY <1>a
    DEF WorkersOK, RequeueThen, Goto, Stages, GroupsOK, Group
<1>3. GroupsOK'
  BY DEF GroupsOK
<1>4. \A n \in Nursery : group'[n].parentParked => group'[n].parent # NoFiber
  BY <1>a
    DEF ControlOK, WorkersOK, GroupsOK, Group
<1>5. ASSUME NEW v \in Worker PROVE Control(v)'
  <2>1. CASE v = w
    BY <2>1, <1>a
      DEF ControlOK, Control, At, Uncounted, WorkersOK, RequeueThen, Goto,
      fiberVars, GroupsOK, Group
  <2>2. CASE v # w
    BY <2>2, <1>a, OthersKeepControl
      DEF WorkersOK, RequeueThen, Goto, fiberVars, GroupsOK, Group
  <2>. QED
    BY <2>1, <2>2
<1>. QED
  BY <1>1, <1>2, <1>3, <1>4, <1>5
    DEF ControlOK

LEMMA UnlockInv ==
  ASSUME Inv, NEW w \in Worker, Unlock(w) PROVE Inv'
<1>. USE DEF Inv, TypeOK, Unlock
<1>1. FibersOK' /\ QueueOK' /\ PoolOK' /\ ChannelsOK'
  BY DEF FibersOK, QueueOK, PoolOK, ChannelsOK, fiberVars, queueVars,
    poolVars, chanVars
<1>2. WorkersOK'
  BY DEF WorkersOK, Goto, Stages, localVars
<1>3. GroupsOK'
  BY DEF GroupsOK
<1>4. \A n \in Nursery : group'[n].parentParked => group'[n].parent # NoFiber
  BY DEF ControlOK, WorkersOK
<1>5. ASSUME NEW v \in Worker PROVE Control(v)'
  <2>1. CASE v = w
    BY <2>1
      DEF ControlOK, Control, At, Uncounted, WorkersOK, Goto, fiberVars,
      localVars
  <2>2. CASE v # w
    BY <2>2, OthersKeepControl
      DEF WorkersOK, Goto, fiberVars, localVars
  <2>. QED
    BY <2>1, <2>2
<1>. QED
  BY <1>1, <1>2, <1>3, <1>4, <1>5
    DEF ControlOK

LEMMA AccountInv ==
  ASSUME Inv, NEW w \in Worker, Account(w) PROVE Inv'
<1>. USE DEF Inv, TypeOK, Account
<1>a. nursery[cur[w]] \in Nursery
  BY DEF ControlOK, Control, At, Uncounted, WorkersOK, FibersOK
<1>b. LastChild(nursery[cur[w]]) => group[nursery[cur[w]]].parent \in Fiber
  BY <1>a DEF LastChild, ControlOK, GroupsOK, Group
<1>1. FibersOK' /\ QueueOK' /\ PoolOK' /\ ChannelsOK'
  BY DEF FibersOK, QueueOK, PoolOK, ChannelsOK, fiberVars, queueVars,
    poolVars, chanVars
<1>2. WorkersOK'
  BY <1>b
    DEF WorkersOK, RequeueThen, Goto, Stages
<1>3. GroupsOK'
  <2>. DEFINE n == nursery[cur[w]]
              counted == [group[n] EXCEPT
                            !.live = group[n].live - 1,
                            !.parentParked = group[n].parentParked /\ ~LastChild(n)]
  <2>1. group[n] \in Group
    BY <1>a DEF GroupsOK
  <2>2. counted \in Group
    <3>1. /\ group[n].live - 1 \in Int
          /\ (group[n].parentParked /\ ~LastChild(n)) \in BOOLEAN
      BY ONLY <2>1 DEF Group
    <3>2. ASSUME NEW l \in Int, NEW b \in BOOLEAN
          PROVE  [group[n] EXCEPT !.live = l, !.parentParked = b] \in Group
      BY ONLY <2>1, <3>2, GroupCounted
    <3>. QED
      BY ONLY <3>1, <3>2
  <2>3. group' = [group EXCEPT ![n] = counted] /\ nlock' = nlock
    OBVIOUS
  <2>. HIDE DEF n, counted
  <2>. QED
    BY ONLY GroupsOK, <2>2, <2>3 DEF GroupsOK
<1>4. \A n \in Nursery : group'[n].parentParked => group'[n].parent # NoFiber
  BY <1>a
    DEF ControlOK, WorkersOK, GroupsOK, Group
<1>5. ASSUME NEW v \in Worker PROVE Control(v)'
  <2>1. CASE v = w
    BY <2>1, <1>a
      DEF ControlOK, Control, At, Uncounted, WorkersOK, RequeueThen, Goto,
      fiberVars, GroupsOK, Group
  <2>2. CASE v # w
    BY <2>2, <1>a, OthersKeepControl
      DEF WorkersOK, RequeueThen, Goto, fiberVars, GroupsOK, Group
  <2>. QED
    BY <2>1, <2>2
<1>. QED
  BY <1>1, <1>2, <1>3, <1>4, <1>5
    DEF ControlOK

LEMMA TallyInv ==
  ASSUME Inv, NEW w \in Worker, Tally(w) PROVE Inv'
<1>. USE DEF Inv, TypeOK, Tally
<1>1. FibersOK' /\ QueueOK' /\ GroupsOK' /\ ChannelsOK'
  BY DEF FibersOK, QueueOK, GroupsOK, ChannelsOK, fiberVars, queueVars,
    groupVars, chanVars
<1>2. WorkersOK'
  BY DEF WorkersOK, GotoWaking, Stages
<1>3. PoolOK'
  BY DEF PoolOK
<1>4. \A n \in Nursery : group'[n].parentParked => group'[n].parent # NoFiber
  BY DEF ControlOK, WorkersOK, groupVars
<1>5. ASSUME NEW v \in Worker PROVE Control(v)'
  <2>1. CASE v = w
    BY <2>1
      DEF ControlOK, Control, At, Uncounted, WorkersOK, GotoWaking, Idle,
      fiberVars, groupVars
  <2>2. CASE v # w
    BY <2>2, OthersKeepControl
      DEF WorkersOK, GotoWaking, Idle, fiberVars, groupVars
  <2>. QED
    BY <2>1, <2>2
<1>. QED
  BY <1>1, <1>2, <1>3, <1>4, <1>5
    DEF ControlOK
LEMMA StepInv == Inv /\ [Next]_vars => Inv'
<1>. SUFFICES ASSUME Inv, [Next]_vars PROVE Inv'
  OBVIOUS
<1>1. CASE UNCHANGED vars
  BY <1>1 DEF Inv, TypeOK, FibersOK, QueueOK, WorkersOK, PoolOK, GroupsOK,
     ChannelsOK, ControlOK, Control, At, vars, fiberVars, queueVars, poolVars,
     groupVars, chanVars, localVars
<1>2. ASSUME NEW w \in Started, RunFiber(w) PROVE Inv'
  <2>1. w \in Worker
    BY SchedulerAssumption DEF SchedulerAssumption
  <2>2. CASE \/ CheckCancel(w) \/ SendClosed(w) \/ SendPark(w) \/ SendPut(w)
             \/ RecvPark(w) \/ RecvValue(w) \/ RecvNone(w) \/ PollValue(w)
             \/ PollNone(w)
    BY <2>1, <2>2, CheckCancelInv, SendClosedInv, SendParkInv, SendPutInv,
       RecvParkInv, RecvValueInv, RecvNoneInv, PollValueInv, PollNoneInv
  <2>3. CASE \/ CloseChannel(w) \/ WalkChain(w) \/ Requeue(w) \/ Push(w)
             \/ Loop(w) \/ Return(w) \/ Exit(w)
    BY <2>1, <2>3, CloseChannelInv, WalkChainInv, RequeueInv, PushInv,
       LoopInv, ReturnInv, ExitInv
  <2>4. CASE Open(w) \/ Spawn(w) \/ JoinPark(w) \/ Rewind(w) \/ JoinDone(w)
    BY <2>1, <2>4, OpenInv, SpawnInv, JoinParkInv, RewindInv, JoinDoneInv
  <2>. QED
    BY <1>2, <2>2, <2>3, <2>4 DEF RunFiber
<1>3. ASSUME NEW w \in Started, Schedule(w) \/ SpuriousWakeup(w) PROVE Inv'
  <2>1. w \in Worker
    BY SchedulerAssumption DEF SchedulerAssumption
  <2>2. CASE \/ PopPinned(w) \/ PopReady(w) \/ PopShutdown(w) \/ PopWait(w)
             \/ PopDeadlock(w) \/ Save(w) \/ Halt(w) \/ SpuriousWakeup(w)
    BY <2>1, <2>2, PopPinnedInv, PopReadyInv, PopShutdownInv, PopWaitInv,
       PopDeadlockInv, SaveInv, HaltInv, SpuriousWakeupInv
  <2>3. CASE \/ Finish(w) \/ Verdict(w) \/ Sweep(w) \/ Unlock(w)
             \/ Account(w) \/ Tally(w)
    BY <2>1, <2>3, FinishInv, VerdictInv, SweepInv, UnlockInv, AccountInv,
       TallyInv
  <2>. QED
    BY <1>3, <2>2, <2>3 DEF Schedule
<1>. QED
  BY <1>1, <1>2, <1>3 DEF Next, Step

\* The variables of the scheduler, its fibers, workers, nurseries and channels
\* have their types in every state, whatever the scripts and the schedule:
\* what rq_pop, requeue and finish_child read is a fiber, a worker's list, a
\* nursery (scheduler_worker_main and all it calls).
THEOREM TypeCorrect == Spec => []TypeOK
<1>1. Inv => TypeOK
  BY DEF Inv
<1>. QED
  BY InitInv, StepInv, <1>1, PTL DEF Spec
-----------------------------------------------------------------------------
(* One interpreter per fiber *)

\* w is in run() with a fiber it has not parked.
Interprets(w) == At(w) \in {"exec", "enter", "chain"}

OneUntilParked ==
  \A v, w \in Worker : Interprets(v) /\ Interprets(w) /\ cur[v] = cur[w] => v = w

\* A fiber that somebody may be interpreting: neither a claim nor a requeue
\* is possible.  (exit() can leave a fiber that still runs DONE.)
Held(f) == fstate[f] \in {"running", "done"}

\* OneUntilParked alone is not inductive: a claim keeps it only because what
\* is interpreted is held, and hence not READY.
InterpretedHeld == \A w \in Worker : Interprets(w) => Held(cur[w])

\* What a step of w does to who interprets what: other workers go on as they
\* were; w goes on with its fiber or claims a READY one; and only a fiber that
\* w itself stops interpreting ceases to be held.
Disciplined(w) ==
  /\ \A v \in Worker \ {w} : (Interprets(v)' <=> Interprets(v)) /\ cur'[v] = cur[v]
  /\ Interprets(w)' => \/ Interprets(w) /\ cur'[w] = cur[w]
                       \/ ~Held(cur'[w]) /\ Held(cur[w])'
  /\ \A f \in Fiber : Held(f) => \/ Held(f)'
                                 \/ f = cur[w] /\ Interprets(w) /\ ~Interprets(w)'

LEMMA DisciplinedSteps ==
  ASSUME Inv, NEW w \in Worker, Step(w) \/ SpuriousWakeup(w)
  PROVE  Disciplined(w)
<1>. USE DEF Disciplined, Interprets, At, Held, Goto, GotoWaking, Idle
<1>. WorkersOK /\ FibersOK
  BY DEF Inv, TypeOK
<1>1. CASE CheckCancel(w) \/ SendClosed(w) \/ Loop(w) \/ Return(w) \/ Exit(w)
  <2>1. /\ wpc[w] \in {"exec", "enter"} /\ UNCHANGED <<cur, fstate, then>>
        /\ \/ wpc' = wpc
           \/ \E l \in {"enter", "halt", "finish"} : wpc' = [wpc EXCEPT ![w] = l]
    BY ONLY <1>1 DEF CheckCancel, SendClosed, Loop, Return, Exit, Leave, Goto,
       Executing, Entered, fiberVars
  <2>. QED
    BY <2>1 DEF WorkersOK
<1>2. CASE SendPark(w) \/ RecvPark(w)
  BY <1>2 DEF SendPark, RecvPark, Park, Entered, WorkersOK, FibersOK, localVars
<1>3. CASE SendPut(w) \/ RecvValue(w) \/ PollValue(w)
  <2>1. /\ wpc[w] \in {"exec", "enter"} /\ UNCHANGED <<cur, fstate>>
        /\ then' = [then EXCEPT ![w] = "exec"]
        /\ \E l \in {"exec", "wake"} : wpc' = [wpc EXCEPT ![w] = l]
    BY ONLY <1>3 DEF SendPut, RecvValue, PollValue, TakeValue, RequeueThen, Goto,
       Entered, Executing
  <2>. QED
    BY <2>1 DEF WorkersOK
<1>4. CASE RecvNone(w) \/ PollNone(w) \/ CloseChannel(w) \/ WalkChain(w)
  <2>1. CASE RecvNone(w) \/ PollNone(w) \/ CloseChannel(w)
    <3>1. /\ wpc[w] \in {"exec", "enter"} /\ UNCHANGED <<cur, fstate, then>>
          /\ \E l \in {"exec", "chain"} : wpc' = [wpc EXCEPT ![w] = l]
      BY ONLY <2>1 DEF RecvNone, PollNone, TakeNone, CloseChannel, Goto, Entered,
         Executing, localVars
    <3>. QED
      BY <3>1, SMTT(30) DEF WorkersOK
  <2>2. CASE WalkChain(w)
    BY <2>2 DEF WalkChain, RequeueThen, WorkersOK, fiberVars
  <2>. QED
    BY <1>4, <2>1, <2>2
<1>5. CASE Requeue(w)
  <2>1. /\ wpc[w] = "wake" /\ UNCHANGED <<cur, then>>
        /\ then[w] \in {"exec", "chain", "unlock", "tally"}
    BY <1>5 DEF Requeue, Inv, ControlOK, Control
  <2>2. \/ wpc' = [wpc EXCEPT ![w] = "push"]
        \/ wpc' = [wpc EXCEPT ![w] = then[w]]
        \/ wpc' = [wpc EXCEPT ![w] = "wake"]
    BY <1>5 DEF Requeue, Next1
  <2>3. \A f \in Fiber : Held(f) => Held(f)'
    BY <1>5 DEF Requeue, CanRequeue, FibersOK
  <2>. QED
    BY <2>1, <2>2, <2>3 DEF WorkersOK
<1>6. CASE Push(w)
  <2>1. wpc[w] = "push" /\ UNCHANGED <<fstate, cur, then>>
    BY <1>6 DEF Push, fiberVars
  <2>2. \E woken \in SUBSET Idle : GotoWaking(w, Next1(w), woken)
    BY <1>6 DEF Push, Signalled
  <2>3. then[w] \in {"exec", "chain", "unlock", "tally"}
    BY <2>1 DEF Inv, ControlOK, Control
  <2>. QED
    BY <2>1, <2>2, <2>3 DEF Next1, WorkersOK
<1>7. CASE Open(w) \/ JoinDone(w) \/ Rewind(w) \/ JoinPark(w)
  <2>1. CASE Open(w) \/ Rewind(w)
    BY <2>1 DEF Open, Rewind, Executing, WorkersOK, localVars
  <2>2. CASE JoinDone(w)
    BY <2>2 DEF JoinDone, Leave, Executing, WorkersOK
  <2>3. CASE JoinPark(w)
    BY <2>3 DEF JoinPark, Executing, WorkersOK, FibersOK
  <2>. QED
    BY <1>7, <2>1, <2>2, <2>3
<1>8. CASE Spawn(w)
  <2>1. wpc[w] = "exec" /\ UNCHANGED <<cur, then>>
    BY <1>8 DEF Spawn, Executing, localVars
  <2>2. \E woken \in SUBSET Idle : GotoWaking(w, "exec", woken)
    <3>1. PICK woken \in Signalled : GotoWaking(w, "exec", woken)
      BY <1>8 DEF Spawn
    <3>2. woken \in SUBSET Idle
      BY DEF Signalled
    <3>. QED
      BY <3>1, <3>2
  <2>3. PICK child : fstate[child] = "unborn" /\ fstate' = [fstate EXCEPT ![child] = "ready"]
    BY <1>8 DEF Spawn
  <2>. QED
    BY <2>1, <2>2, <2>3 DEF WorkersOK, FibersOK
<1>9. CASE PopPinned(w) \/ PopReady(w)
  <2>1. PICK f \in Fiber : Claim(w, f)
    BY <1>9, SchedulerAssumption DEF PopPinned, PopReady, Inv, TypeOK, QueueOK,
       SchedulerAssumption
  <2>2. InPop(w) /\ then' = then
    BY <1>9 DEF PopPinned, PopReady
  <2>3. CASE fstate[f] = "ready"
    <3>1. /\ fstate' = [fstate EXCEPT ![f] = "running"]
          /\ cur' = [cur EXCEPT ![w] = f]
          /\ wpc' = [wpc EXCEPT ![w] = "exec"]
      BY <2>1, <2>3 DEF Claim
    <3>2. ~Held(f) /\ Held(f)' /\ cur'[w] = f
      BY <2>3, <3>1 DEF WorkersOK, FibersOK
    <3>3. \A g \in Fiber : Held(g) => Held(g)'
      BY <3>1 DEF FibersOK
    <3>. QED
      BY <2>2, <3>1, <3>2, <3>3 DEF InPop, WorkersOK
  <2>4. CASE fstate[f] # "ready"
    BY <2>1, <2>2, <2>4 DEF Claim, InPop, WorkersOK, FibersOK
  <2>. QED
    BY <2>3, <2>4
<1>10. CASE PopShutdown(w) \/ PopWait(w) \/ PopDeadlock(w) \/ SpuriousWakeup(w)
  BY <1>10 DEF PopShutdown, PopWait, PopDeadlock, SpuriousWakeup, NothingToPop,
     InPop, WorkersOK, fiberVars, localVars
<1>11. CASE Save(w) \/ Halt(w) \/ Unlock(w) \/ Tally(w)
  BY <1>11 DEF Save, Halt, Unlock, Tally, WorkersOK, fiberVars, localVars
<1>12. CASE Finish(w)
  BY <1>12 DEF Finish, WorkersOK, FibersOK
<1>13. CASE Verdict(w)
  BY <1>13 DEF Verdict, Inv, ControlOK, Control, WorkersOK, fiberVars, localVars
<1>14. CASE Sweep(w) \/ Account(w)
  BY <1>14 DEF Sweep, Account, RequeueThen, WorkersOK, fiberVars
<1>. QED
  BY <1>1, <1>2, <1>3, <1>4, <1>5, <1>6, <1>7, <1>8, <1>9, <1>10, <1>11, <1>12,
     <1>13, <1>14 DEF Step, RunFiber, Schedule

\* The inductive invariant.
OneInv == Inv /\ OneUntilParked /\ InterpretedHeld

LEMMA OneInvInit == Init => OneInv
<1>. SUFFICES ASSUME Init PROVE OneInv
  OBVIOUS
<1>1. Inv
  BY InitInv
<1>2. \A w \in Worker : Interprets(w) => w = Worker0
  BY DEF Init, Interprets, At
<1>3. \A w \in Worker : Held(cur[w])
  BY SchedulerAssumption DEF SchedulerAssumption, Init, Held
<1>. QED
  BY <1>1, <1>2, <1>3 DEF OneInv, OneUntilParked, InterpretedHeld

LEMMA OneInvStep == OneInv /\ [Next]_vars => OneInv'
<1>. SUFFICES ASSUME OneInv, [Next]_vars PROVE OneInv'
  OBVIOUS
<1>1. Inv'
  BY StepInv DEF OneInv
<1>2. CASE UNCHANGED vars
  BY <1>1, <1>2 DEF OneInv, OneUntilParked, InterpretedHeld, Interprets, Held, At,
     vars, fiberVars, localVars
<1>3. ASSUME NEW w \in Started, Step(w) \/ SpuriousWakeup(w)
      PROVE  OneUntilParked' /\ InterpretedHeld'
  <2>1. w \in Worker
    BY SchedulerAssumption DEF SchedulerAssumption
  <2>2. Disciplined(w)
    BY <1>3, <2>1, DisciplinedSteps DEF OneInv
  <2>3. \A v \in Worker : cur[v] \in Fiber
    BY DEF OneInv, Inv, TypeOK, WorkersOK
  <2>4. ASSUME NEW v \in Worker \ {w}, Interprets(v)'
        PROVE  /\ Interprets(v) /\ cur'[v] = cur[v]
               /\ Held(cur[v]) /\ Held(cur[v])'
    <3>1. Interprets(v) /\ cur'[v] = cur[v]
      BY <2>2, <2>4 DEF Disciplined
    <3>2. Held(cur[v])
      BY <3>1 DEF OneInv, InterpretedHeld
    <3>3. ~(cur[v] = cur[w] /\ Interprets(w))
      BY <2>1, <3>1 DEF OneInv, OneUntilParked
    <3>. QED
      BY <2>2, <2>3, <3>1, <3>2, <3>3 DEF Disciplined
  <2>5. OneUntilParked'
    <3>1. ASSUME NEW v \in Worker \ {w}, Interprets(v)', Interprets(w)'
          PROVE  cur'[v] # cur'[w]
      BY <2>1, <2>2, <2>4, <3>1 DEF Disciplined, OneInv, OneUntilParked
    <3>2. ASSUME NEW u \in Worker \ {w}, NEW v \in Worker \ {w},
                 Interprets(u)', Interprets(v)', cur'[u] = cur'[v]
          PROVE  u = v
      BY <2>4, <3>2 DEF OneInv, OneUntilParked
    <3>. QED
      BY <3>1, <3>2 DEF OneUntilParked
  <2>6. InterpretedHeld'
    <3>1. ASSUME NEW v \in Worker \ {w}, Interprets(v)' PROVE Held(cur[v])'
      BY <2>4, <3>1
    <3>2. Interprets(w)' => Held(cur[w])'
      BY <2>1, <2>2, <2>3 DEF Disciplined, OneInv, InterpretedHeld
    <3>. QED
      BY <2>4, <3>1, <3>2 DEF InterpretedHeld, Held
  <2>. QED
    BY <2>5, <2>6
<1>. QED
  BY <1>1, <1>2, <1>3 DEF Next, OneInv

LEMMA OneInvariant == Spec => []OneInv
  BY OneInvInit, OneInvStep, PTL DEF Spec

\* Two workers are in run() with one fiber only if one of them has parked it at the end of a
\* nursery and is about to rewind its ip, for any pool, any scripts and any cancels: requeue's
\* PARKED -> READY and scheduler_worker_main's READY -> RUNNING exchanges pick one.
Overlap == \A v, w \in Worker :
  InRun(v) /\ InRun(w) /\ cur[v] = cur[w] => v = w \/ "rewind" \in {wpc[v], wpc[w]}

THEOREM OverlapsOnlyAtRewind == Spec => []Overlap
<1>1. OneInv => Overlap
  <2>. SUFFICES ASSUME OneInv, NEW v \in Worker, NEW w \in Worker, InRun(v), InRun(w),
                       cur[v] = cur[w], wpc[v] # "rewind", wpc[w] # "rewind"
       PROVE  v = w
    BY DEF Overlap
  <2>1. Interprets(v) /\ Interprets(w)
    BY DEF InRun, Interprets, At, OneInv, Inv, ControlOK, Control
  <2>. QED
    BY <2>1 DEF OneInv, OneUntilParked
<1>. QED
  BY OneInvariant, <1>1, PTL

-----------------------------------------------------------------------------
(* Channels *)

\* OP_SEND tests for a full channel with an equality, which is enough only
\* because no channel ever holds more.
WithinCapacity == \A c \in Channel : Len(buf[c]) <= Capacity[c]

QueueStep(c) == Chan(c)!Next \/ UNCHANGED <<buf[c], closed[c]>>

LEMMA PutStep ==
  ASSUME Inv, WithinCapacity, NEW w \in Worker, SendPut(w)
  PROVE  /\ \A c \in Channel : QueueStep(c)
         /\ WithinCapacity'
<1>1. /\ Ch(w) \in Channel /\ cur[w] \in Fiber /\ ~closed[Ch(w)]
      /\ Len(buf[Ch(w)]) # Capacity[Ch(w)]
  BY ChType DEF SendPut, Full, Inv, TypeOK, WorkersOK
<1>2. /\ buf \in [Channel -> Seq(Fiber)] /\ closed' = closed
      /\ buf' = [buf EXCEPT ![Ch(w)] = Append(@, cur[w])]
  BY DEF SendPut, Inv, TypeOK, ChannelsOK
<1>3. Capacity[Ch(w)] \in Nat /\ Len(buf[Ch(w)]) \in Nat
  <2>1. Capacity[Ch(w)] \in Nat
    BY <1>1, SchedulerAssumption DEF SchedulerAssumption
  <2>2. Len(buf[Ch(w)]) \in Nat
    BY <1>1, <1>2
  <2>. QED
    BY <2>1, <2>2
<1>4. Len(buf[Ch(w)]) < Capacity[Ch(w)]
  BY <1>1, <1>3 DEF WithinCapacity
<1>5. ASSUME NEW c \in Channel PROVE QueueStep(c)
  <2>1. CASE c = Ch(w)
    <3>1. Chan(c)!Put(cur[w])
      BY <1>1, <1>2, <1>4, <2>1 DEF Chan!Put
    <3>. QED
      BY <1>1, <3>1 DEF QueueStep, Chan!Next
  <2>2. CASE c # Ch(w)
    BY <1>2, <2>2 DEF QueueStep
  <2>. QED
    BY <2>1, <2>2
<1>6. WithinCapacity'
  <2>1. Len(buf'[Ch(w)]) <= Capacity[Ch(w)]
    BY <1>1, <1>2, <1>3, <1>4
  <2>. QED
    BY <1>1, <1>2, <2>1 DEF WithinCapacity
<1>. QED
  BY <1>5, <1>6

LEMMA TakeStep ==
  ASSUME Inv, WithinCapacity, NEW w \in Worker, RecvValue(w) \/ PollValue(w)
  PROVE  /\ \A c \in Channel : QueueStep(c)
         /\ WithinCapacity'
<1>1. Ch(w) \in Channel /\ buf[Ch(w)] # <<>>
  BY ChType DEF RecvValue, PollValue
<1>2. /\ buf \in [Channel -> Seq(Fiber)] /\ closed' = closed
      /\ buf' = [buf EXCEPT ![Ch(w)] = Tail(@)]
  BY DEF RecvValue, PollValue, TakeValue, Inv, TypeOK, ChannelsOK
<1>3. Capacity[Ch(w)] \in Nat /\ Len(buf[Ch(w)]) \in Nat
  <2>1. Capacity[Ch(w)] \in Nat
    BY <1>1, SchedulerAssumption DEF SchedulerAssumption
  <2>2. Len(buf[Ch(w)]) \in Nat
    BY <1>1, <1>2
  <2>. QED
    BY <2>1, <2>2
<1>4. ASSUME NEW c \in Channel PROVE QueueStep(c)
  <2>1. CASE c = Ch(w)
    BY <1>1, <1>2, <2>1 DEF QueueStep, Chan!Next, Chan!Take
  <2>2. CASE c # Ch(w)
    BY <1>2, <2>2 DEF QueueStep
  <2>. QED
    BY <2>1, <2>2
<1>5. WithinCapacity'
  <2>1. Len(buf'[Ch(w)]) <= Capacity[Ch(w)]
    BY <1>1, <1>2, <1>3, SMTT(30) DEF WithinCapacity
  <2>. QED
    BY <1>1, <1>2, <2>1 DEF WithinCapacity
<1>. QED
  BY <1>4, <1>5

LEMMA CloseStep ==
  ASSUME Inv, WithinCapacity, NEW w \in Worker, CloseChannel(w)
  PROVE  /\ \A c \in Channel : QueueStep(c)
         /\ WithinCapacity'
<1>1. /\ Ch(w) \in Channel /\ buf' = buf
      /\ closed' = [closed EXCEPT ![Ch(w)] = TRUE]
      /\ closed \in [Channel -> BOOLEAN]
  BY ChType, CloseEffects DEF CloseChannel, Inv, TypeOK, ChannelsOK
<1>2. ASSUME NEW c \in Channel PROVE QueueStep(c)
  <2>1. CASE c = Ch(w)
    BY <1>1, <2>1 DEF QueueStep, Chan!Next, Chan!Close
  <2>2. CASE c # Ch(w)
    BY <1>1, <2>2 DEF QueueStep
  <2>. QED
    BY <2>1, <2>2
<1>. QED
  BY <1>1, <1>2, SMTT(30) DEF WithinCapacity

\* Every other step leaves what the channels hold alone.
LEMMA ChannelSteps ==
  ASSUME Inv, WithinCapacity, [Next]_vars
  PROVE  /\ \A c \in Channel : QueueStep(c)
         /\ WithinCapacity'
<1>1. CASE UNCHANGED <<buf, closed>>
  BY <1>1, SMTT(30) DEF QueueStep, WithinCapacity
<1>2. CASE UNCHANGED vars
  BY <1>1, <1>2, SMTT(30) DEF vars, chanVars
<1>3. ASSUME NEW w \in Started, RunFiber(w)
      PROVE  \/ UNCHANGED <<buf, closed>>
             \/ w \in Worker /\ (\/ SendPut(w) \/ RecvValue(w) \/ PollValue(w)
                                 \/ CloseChannel(w))
  BY <1>3, SchedulerAssumption DEF SchedulerAssumption, RunFiber, CheckCancel,
     SendClosed, SendPark, RecvPark, RecvNone, PollNone, TakeNone, WalkChain,
     Requeue, Push, Loop, Return, Exit, Open, Spawn, JoinPark, Rewind, JoinDone,
     chanVars
<1>4. ASSUME NEW w \in Started, Schedule(w) \/ SpuriousWakeup(w)
      PROVE  UNCHANGED <<buf, closed>>
  BY <1>4 DEF Schedule, SpuriousWakeup, PopPinned, PopReady, PopShutdown, PopWait,
     PopDeadlock, Save, Halt, Finish, Verdict, Sweep, Unlock, Account, Tally,
     chanVars
<1>. QED
  BY <1>1, <1>2, <1>3, <1>4, PutStep, TakeStep, CloseStep, SMTT(30) DEF Next, Step

\* Each channel implements the bounded queue of BoundedChannel, for every
\* capacity: values leave in the order in which they were sent, none is lost
\* or duplicated, none enters a full or a closed channel (OP_SEND, OP_RECV,
\* OP_TRY_RECV, OP_CLOSE under ch->lock).
THEOREM ChannelsImplementQueues == Spec => ChannelsAreQueues
<1>1. Init => /\ \A c \in Channel : Chan(c)!Init
              /\ WithinCapacity
  <2>. SUFFICES ASSUME Init
       PROVE  /\ \A c \in Channel : Chan(c)!Init
              /\ WithinCapacity
    OBVIOUS
  <2>1. \A c \in Channel : buf[c] = <<>> /\ closed[c] = FALSE
    BY DEF Init
  <2>2. \A c \in Channel : Chan(c)!Init
    BY <2>1 DEF Chan!Init
  <2>3. \A c \in Channel : Len(buf[c]) = 0 /\ Capacity[c] \in Nat \ {0}
    BY <2>1, SchedulerAssumption DEF SchedulerAssumption
  <2>. QED
    BY <2>2, <2>3 DEF WithinCapacity
<1>2. Inv /\ WithinCapacity /\ [Next]_vars
        => /\ [\A c \in Channel : QueueStep(c)]_vars
           /\ WithinCapacity'
  BY ChannelSteps
<1>. QED
  BY InitInv, StepInv, <1>1, <1>2, PTL DEF Spec, ChannelsAreQueues, QueueStep

-----------------------------------------------------------------------------
(* The live counters *)

\* Where a worker is with its fiber: it runs it, it takes it out of its group,
\* it takes it out of the scheduler's count, or it has none.
Stage(w) == IF At(w) \in {"exec", "enter", "chain", "halt", "finish"} THEN "runs"
            ELSE IF At(w) \in Uncounted THEN "leaves"
            ELSE IF At(w) = "tally" THEN "left" ELSE "none"

Unfinished == {"ready", "running", "parked"}

\* The fibers that their group, and those that the scheduler, has not counted out.
InGroup(f)   == \/ fstate[f] \in Unfinished
                \/ \E w \in Worker : cur[w] = f /\ Stage(w) = "leaves"
InProgram(f) == \/ fstate[f] \in Unfinished
                \/ \E w \in Worker : cur[w] = f /\ Stage(w) \in {"leaves", "left"}

Members(n) == {f \in Fiber : nursery[f] = n /\ InGroup(f)}
Everyone   == {f \in Fiber : InProgram(f)}

\* Whoever has called exit() takes no other fiber.
Quits(w) ==
  exitRequested[w] => At(w) \notin {"pop", "woken", "idle", "exec", "enter", "chain",
                                    "rewind", "save"}

\* The state of the fiber a worker is with, which no other worker is with.
Engaged(w) == /\ Stage(w) = "runs" => fstate[cur[w]] = "running"
              /\ Stage(w) \in {"leaves", "left"} => fstate[cur[w]] = "done"
OneWorker == \A v, w \in Worker :
  Stage(v) # "none" /\ Stage(w) # "none" /\ cur[v] = cur[w] => v = w

\* Each open nursery is the innermost one of one fiber, or encloses one other.
Nesting ==
  /\ \A f \in Fiber : curOpen[f] # NoNursery => group[curOpen[f]].open
  /\ \A f, g \in Fiber : curOpen[f] = curOpen[g] => f = g \/ curOpen[f] = NoNursery
  /\ \A n \in Nursery : group[n].open /\ group[n].enclosing # NoNursery =>
       /\ group[group[n].enclosing].open
       /\ \A f \in Fiber : curOpen[f] # group[n].enclosing
       /\ \A m \in Nursery : group[m].open /\ group[m].enclosing = group[n].enclosing => m = n

Census(n) ==
  /\ IsFiniteSet(Members(n))
  /\ group[n].open => /\ group[n].live = Cardinality(Members(n))
                      /\ \A i \in DOMAIN group[n].children : nursery[group[n].children[i]] = n
  /\ ~group[n].open => Members(n) = {}

Histories ==
  /\ \A f \in Fiber : fstate[f] = "unborn" => nursery[f] = NoNursery
  /\ \A f \in freed : fstate[f] = "done"
  /\ \A w \in Worker : Stage(w) = "leaves" => cur[w] \notin freed

\* The main fiber has not called exit() in the run of it that vm_run starts with.
MainStays == direct => ~exitRequested[Worker0]

-----------------------------------------------------------------------------
(* What a step does to the counters, by kind *)

\* What a step of w does to the other workers.
Beside(w) == \A v \in Worker \ {w} :
  /\ Stage(v)' = Stage(v) /\ cur'[v] = cur[v] /\ exitRequested'[v] = exitRequested[v]
  /\ At(v)' = At(v) \/ At(v) = "idle"

SameGroups == \A n \in Nursery :
  /\ group'[n].open = group[n].open /\ group'[n].live = group[n].live
  /\ group'[n].enclosing = group[n].enclosing /\ group'[n].children = group[n].children

Stays(w) ==
  /\ Stage(w)' = Stage(w) /\ SameGroups /\ UNCHANGED <<cur, nursery, curOpen, freed, live>>
  /\ \/ UNCHANGED fstate
     \/ \E f \in Fiber : fstate[f] = "parked" /\ fstate' = [fstate EXCEPT ![f] = "ready"]

Parks(w) ==
  /\ Stage(w) = "runs" /\ Stage(w)' = "none"
  /\ SameGroups /\ UNCHANGED <<cur, nursery, curOpen, freed, live>>
  /\ fstate' = [fstate EXCEPT ![cur[w]] = "parked"]

Claims(w) ==
  /\ Stage(w) = "none" /\ Stage(w)' = "runs"
  /\ SameGroups /\ UNCHANGED <<nursery, curOpen, freed, live>>
  /\ \E f \in Fiber : /\ fstate[f] = "ready" /\ fstate' = [fstate EXCEPT ![f] = "running"]
                      /\ cur' = [cur EXCEPT ![w] = f]

Finishes(w) ==
  /\ Stage(w) = "runs"
  /\ Stage(w)' = IF nursery[cur[w]] = NoNursery THEN "left" ELSE "leaves"
  /\ SameGroups /\ UNCHANGED <<cur, nursery, curOpen, live>>
  /\ fstate' = [fstate EXCEPT ![cur[w]] = "done"]
  /\ freed' = IF nursery[cur[w]] = NoNursery THEN freed \cup {cur[w]} ELSE freed

Accounts(w) ==
  /\ Stage(w) = "leaves" /\ Stage(w)' = "left" /\ nursery[cur[w]] \in Nursery
  /\ UNCHANGED <<cur, nursery, curOpen, freed, live, fstate>>
  /\ \A n \in Nursery :
       /\ group'[n].open = group[n].open
       /\ group'[n].enclosing = group[n].enclosing /\ group'[n].children = group[n].children
       /\ group'[n].live = IF n = nursery[cur[w]] THEN group[n].live - 1 ELSE group[n].live

Tallies(w) ==
  /\ Stage(w) = "left" /\ Stage(w)' = "none"
  /\ SameGroups /\ UNCHANGED <<cur, nursery, curOpen, freed, fstate>>
  /\ live' = live - 1

Opens(w) ==
  /\ Stage(w) = "runs" /\ Stage(w)' = "runs"
  /\ UNCHANGED <<cur, nursery, freed, live, fstate>>
  /\ \E n \in Nursery :
       /\ ~group[n].open /\ curOpen' = [curOpen EXCEPT ![cur[w]] = n]
       /\ \A m \in Nursery : m # n => group'[m] = group[m]
       /\ group'[n].open /\ group'[n].live = 0 /\ group'[n].children = <<>>
       /\ group'[n].enclosing = curOpen[cur[w]]

Spawns(w) ==
  /\ Stage(w) = "runs" /\ Stage(w)' = "runs" /\ UNCHANGED <<cur, curOpen, freed>>
  /\ live' = live + 1
  /\ \E c \in Fiber, n \in Nursery :
       /\ n = curOpen[cur[w]] /\ fstate[c] = "unborn"
       /\ fstate' = [fstate EXCEPT ![c] = "ready"]
       /\ nursery' = [nursery EXCEPT ![c] = n]
       /\ \A m \in Nursery : /\ group'[m].open = group[m].open
                             /\ group'[m].enclosing = group[m].enclosing
                             /\ m # n => group'[m] = group[m]
       /\ group'[n].live = group[n].live + 1
       /\ group'[n].children = <<c>> \o group[n].children

Closes(w) ==
  /\ Stage(w) = "runs" /\ Stage(w)' = "runs" /\ UNCHANGED <<cur, nursery, live, fstate>>
  /\ \E n \in Nursery :
       /\ n = curOpen[cur[w]] /\ group[n].live <= 0
       /\ curOpen' = [curOpen EXCEPT ![cur[w]] = group[n].enclosing]
       /\ freed' = freed \cup {group[n].children[i] : i \in DOMAIN group[n].children}
       /\ \A m \in Nursery : m # n => group'[m] = group[m]
       /\ ~group'[n].open

Kind(w) == \/ Stays(w) \/ Parks(w) \/ Claims(w) \/ Finishes(w) \/ Accounts(w)
           \/ Tallies(w) \/ Opens(w) \/ Spawns(w) \/ Closes(w)

\* What only w's own steps change.
Apart(w) == \A v \in Worker \ {w} :
  /\ cur'[v] = cur[v] /\ then'[v] = then[v] /\ exitRequested'[v] = exitRequested[v]
  /\ wpc'[v] = wpc[v] \/ (wpc[v] = "idle" /\ wpc'[v] = "woken")

LEMMA ApartStep ==
  ASSUME Inv, NEW w \in Worker, Step(w) \/ SpuriousWakeup(w)
  PROVE  Apart(w)
<1>. WorkersOK
  BY DEF Inv, TypeOK
<1>. USE DEF Goto, GotoWaking, Idle
<1>1. CASE CheckCancel(w) \/ SendClosed(w) \/ Loop(w) \/ Return(w) \/ Exit(w)
  <2>1. /\ UNCHANGED <<cur, then>>
        /\ wpc' = wpc \/ \E l : wpc' = [wpc EXCEPT ![w] = l]
        /\ exitRequested' = exitRequested \/ \E b : exitRequested' = [exitRequested EXCEPT ![w] = b]
    BY ONLY <1>1 DEF CheckCancel, SendClosed, Loop, Return, Exit, Leave, Goto
  <2>. QED
    BY <2>1 DEF WorkersOK, Apart
<1>2. CASE SendPark(w) \/ RecvPark(w)
  BY <1>2 DEF SendPark, RecvPark, Park, WorkersOK, localVars, Apart
<1>3. CASE SendPut(w) \/ RecvValue(w) \/ PollValue(w) \/ Sweep(w) \/ Account(w)
  <2>1. /\ UNCHANGED <<cur, exitRequested>>
        /\ \E l : wpc' = [wpc EXCEPT ![w] = l]
        /\ \E l : then' = [then EXCEPT ![w] = l]
    BY ONLY <1>3 DEF SendPut, RecvValue, PollValue, TakeValue, Sweep, Account, RequeueThen, Goto
  <2>. QED
    BY <2>1 DEF WorkersOK, Apart
<1>4. CASE RecvNone(w) \/ PollNone(w) \/ CloseChannel(w) \/ Open(w) \/ JoinDone(w)
           \/ Rewind(w) \/ JoinPark(w)
  <2>1. /\ UNCHANGED <<cur, then, exitRequested>>
        /\ wpc' = wpc \/ \E l : wpc' = [wpc EXCEPT ![w] = l]
    BY ONLY <1>4 DEF RecvNone, PollNone, TakeNone, CloseChannel, Open, JoinDone, Rewind,
       JoinPark, Leave, Goto, localVars
  <2>. QED
    BY <2>1 DEF WorkersOK, Apart
<1>5. CASE WalkChain(w)
  BY <1>5 DEF WalkChain, RequeueThen, WorkersOK, Apart
<1>6. CASE Requeue(w) \/ Verdict(w) \/ Unlock(w) \/ Save(w)
  <2>1. /\ UNCHANGED <<cur, then, exitRequested>> /\ \E l : wpc' = [wpc EXCEPT ![w] = l]
    BY ONLY <1>6 DEF Requeue, Verdict, Unlock, Save, Goto, localVars
  <2>. QED
    BY <2>1 DEF WorkersOK, Apart
<1>7. CASE Push(w) \/ Spawn(w) \/ Halt(w) \/ Tally(w) \/ PopDeadlock(w)
  <2>1. /\ UNCHANGED <<cur, then, exitRequested>>
        /\ \E l, woken : /\ wpc' = [v \in Worker |-> IF v = w THEN l
                                           ELSE IF v \in woken THEN "woken" ELSE wpc[v]]
                         /\ woken \subseteq Idle
    <3>1. CASE Push(w)
      <4>1. UNCHANGED <<cur, then, exitRequested>>
        BY ONLY <3>1 DEF Push
      <4>2. PICK woken \in SUBSET Idle : GotoWaking(w, Next1(w), woken)
        BY ONLY <3>1 DEF Push, Signalled, Idle
      <4>. QED
        BY ONLY <4>1, <4>2 DEF GotoWaking
    <3>2. CASE Spawn(w)
      <4>1. PICK woken \in Signalled : GotoWaking(w, "exec", woken)
        BY <3>2 DEF Spawn
      <4>2. woken \subseteq Idle
        BY <4>1 DEF Signalled
      <4>. QED
        BY <3>2, <4>1, <4>2 DEF Spawn, localVars
    <3>3. CASE Halt(w) \/ PopDeadlock(w)
      BY <3>3 DEF Halt, PopDeadlock, localVars
    <3>4. CASE Tally(w)
      <4>1. UNCHANGED <<cur, then, exitRequested>>
        BY <3>4 DEF Tally
      <4>2. PICK l, woken : GotoWaking(w, l, woken) /\ woken \subseteq Idle
        BY <3>4 DEF Tally
      <4>. QED
        BY <4>1, <4>2
    <3>. QED
      BY <1>7, <3>1, <3>2, <3>3, <3>4
  <2>. QED
    BY <2>1 DEF WorkersOK, Apart
<1>8. CASE PopPinned(w) \/ PopReady(w)
  <2>1. UNCHANGED <<then, exitRequested>> /\ \E f : Claim(w, f)
    BY <1>8 DEF PopPinned, PopReady
  <2>. QED
    BY <2>1 DEF Claim, WorkersOK, Apart
<1>9. CASE PopShutdown(w) \/ PopWait(w) \/ SpuriousWakeup(w)
  BY <1>9 DEF PopShutdown, PopWait, SpuriousWakeup, localVars, WorkersOK, Apart
<1>10. CASE Finish(w)
  BY <1>10 DEF Finish, WorkersOK, Apart
<1>. QED
  BY <1>1, <1>2, <1>3, <1>4, <1>5, <1>6, <1>7, <1>8, <1>9, <1>10
     DEF Step, RunFiber, Schedule

LEMMA BesideStep ==
  ASSUME Inv, NEW w \in Worker, Apart(w)
  PROVE  Beside(w)
<1>1. ASSUME NEW v \in Worker \ {w}
      PROVE  At(v)' = At(v) \/ (At(v) = "idle" /\ At(v)' = "woken")
  BY DEF Apart, At
<1>2. ASSUME NEW v \in Worker \ {w} PROVE Stage(v)' = Stage(v)
  BY <1>1 DEF Stage, Uncounted
<1>. QED
  BY <1>1, <1>2 DEF Apart, Beside

\* A worker that has called exit() leaves for good, if it is not in vm_run's own run.
LEMMA QuitsStep ==
  ASSUME Inv, \A v \in Worker : Quits(v), MainStays, NEW w \in Worker,
         Step(w) \/ SpuriousWakeup(w)
  PROVE  \A v \in Worker : Quits(v)'
<1>. WorkersOK
  BY DEF Inv, TypeOK
<1>1. ASSUME NEW v \in Worker \ {w} PROVE Quits(v)'
  <2>1. /\ At(v)' = At(v) \/ At(v) = "idle"
        /\ exitRequested'[v] = exitRequested[v]
    BY ApartStep, BesideStep DEF Beside
  <2>. QED
    BY <2>1 DEF Quits
<1>2. Quits(w)'
  <2>. USE DEF Goto, GotoWaking
  <2>1. CASE At(w) \in {"pop", "woken", "idle", "exec", "enter", "chain", "rewind", "save"}
             /\ ~Exit(w)
    <3>1. ~exitRequested[w]
      BY <2>1 DEF Quits
    <3>2. exitRequested' = exitRequested
      BY <2>1 DEF Step, RunFiber, Schedule, SpuriousWakeup, CheckCancel, SendClosed, SendPark,
         SendPut, RecvPark, RecvValue, RecvNone, PollValue, PollNone, TakeValue, TakeNone,
         CloseChannel, WalkChain, Requeue, Push, Loop, Return, Open, Spawn, JoinPark, Rewind,
         JoinDone, PopPinned, PopReady, PopShutdown, PopWait, PopDeadlock, Save, Halt, Finish,
         Verdict, Sweep, Unlock, Account, Tally, localVars
    <3>. QED
      BY <3>1, <3>2 DEF Quits
  <2>2. CASE Exit(w)
    BY <2>2 DEF Exit, Quits, WorkersOK, At
  <2>3. CASE Tally(w)
    <3>1. exitRequested' = exitRequested
      BY <2>3 DEF Tally
    <3>2. CASE exitRequested[w]
      <4>1. ~(direct /\ w = Worker0)
        BY <3>2 DEF MainStays
      <4>2. wpc'[w] = "gone"
        BY <2>3, <3>2, <4>1 DEF Tally
      <4>. QED
        BY <4>2 DEF Quits, At
    <3>3. CASE ~exitRequested[w]
      BY <3>1, <3>3 DEF Quits
    <3>. QED
      BY <3>2, <3>3
  <2>4. CASE Requeue(w) \/ Push(w)
    <3>1. exitRequested' = exitRequested /\ then' = then /\ wpc[w] \in {"wake", "push"}
      BY <2>4 DEF Requeue, Push
    <3>2. wpc'[w] \in {"wake", "push", then[w]}
      BY <2>4 DEF Requeue, Push, Next1, WorkersOK
    <3>3. At(w)' = At(w)
      BY <3>1, <3>2 DEF At, Inv, ControlOK, Control
    <3>. QED
      BY <3>1, <3>3 DEF Quits
  <2>5. CASE Halt(w) \/ Finish(w) \/ Verdict(w) \/ Unlock(w)
    <3>1. wpc'[w] \in {"finish", "tally", "account", "verdict", "sweep"}
      BY <2>5 DEF Halt, Finish, Verdict, Unlock, WorkersOK, Inv, ControlOK, Control
    <3>. QED
      BY <3>1 DEF Quits, At
  <2>6. CASE Sweep(w) \/ Account(w)
    <3>1. At(w)' \in {"unlock", "tally"}
      BY <2>6 DEF Sweep, Account, RequeueThen, WorkersOK, At
    <3>. QED
      BY <3>1 DEF Quits
  <2>7. CASE At(w) \notin {"pop", "woken", "idle", "exec", "enter", "chain", "rewind", "save"}
    <3>1. wpc[w] \notin {"pop", "woken", "idle", "exec", "enter", "chain", "rewind", "save"}
      BY <2>7 DEF At
    <3>2. \/ Tally(w) \/ Requeue(w) \/ Push(w) \/ Halt(w) \/ Finish(w)
          \/ Verdict(w) \/ Sweep(w) \/ Unlock(w) \/ Account(w)
      BY <3>1 DEF Step, RunFiber, Schedule, SpuriousWakeup, CheckCancel, SendClosed, SendPark,
         SendPut, RecvPark, RecvValue, RecvNone, PollValue, PollNone, CloseChannel,
         WalkChain, Loop, Return, Exit, Open, Spawn, JoinPark, Rewind, JoinDone, PopPinned,
         PopReady, PopShutdown, PopWait, PopDeadlock, Save, Executing, Entered, InPop,
         NothingToPop
    <3>. QED
      BY <2>3, <2>4, <2>5, <2>6, <3>2
  <2>. QED
    BY <2>1, <2>2, <2>7
<1>. QED
  BY <1>1, <1>2

LEMMA GroupsAlike ==
  ASSUME Inv, NEW n \in Nursery, NEW p, NEW b, NEW r,
         \/ r = [group[n] EXCEPT !.parent = p, !.parentParked = b]
         \/ r = [group[n] EXCEPT !.cancel = b]
         \/ r = [group[n] EXCEPT !.failed = b],
         group' = group \/ group' = [group EXCEPT ![n] = r]
  PROVE  SameGroups
<1>1. group \in [Nursery -> Group] /\ group[n] \in Group
  BY DEF Inv, TypeOK, GroupsOK
<1>2. /\ r.open = group[n].open /\ r.live = group[n].live
      /\ r.enclosing = group[n].enclosing /\ r.children = group[n].children
  BY <1>1 DEF Group
<1>. QED
  BY <1>1, <1>2 DEF SameGroups

LEMMA KindStep ==
  ASSUME Inv, NEW w \in Worker, Quits(w), Step(w) \/ SpuriousWakeup(w)
  PROVE  Kind(w)
<1>. WorkersOK /\ FibersOK
  BY DEF Inv, TypeOK
<1>. USE DEF Goto, GotoWaking, Kind
<1>1. CASE \/ CheckCancel(w) \/ SendClosed(w) \/ Loop(w) \/ Return(w) \/ Exit(w)
           \/ RecvNone(w) \/ PollNone(w) \/ CloseChannel(w)
  <2>1. /\ wpc[w] \in {"exec", "enter"} /\ UNCHANGED <<cur, fstate, then>>
        /\ \/ wpc' = wpc
           \/ \E l \in {"exec", "enter", "chain", "halt", "finish"} :
                wpc' = [wpc EXCEPT ![w] = l]
    BY ONLY <1>1 DEF CheckCancel, SendClosed, Loop, Return, Exit, Leave, Goto, RecvNone,
       PollNone, TakeNone, CloseChannel, Executing, Entered, fiberVars, localVars
  <2>2. UNCHANGED <<nursery, curOpen, freed, live, group>>
    BY ONLY <1>1 DEF CheckCancel, SendClosed, Loop, Return, Exit, RecvNone, PollNone, TakeNone,
       CloseChannel, fiberVars, poolVars, groupVars
  <2>3. Stage(w) = "runs" /\ Stage(w)' = "runs"
    BY <2>1 DEF Stage, At, WorkersOK
  <2>. QED
    BY <2>1, <2>2, <2>3 DEF Stays, SameGroups
<1>2. CASE SendPark(w) \/ RecvPark(w)
  <2>1. /\ wpc[w] = "enter" /\ wpc' = [wpc EXCEPT ![w] = "save"]
        /\ fstate' = [fstate EXCEPT ![cur[w]] = "parked"]
        /\ UNCHANGED <<cur, then, nursery, curOpen, freed, live, group>>
    BY ONLY <1>2 DEF SendPark, RecvPark, Park, Goto, Entered, localVars, poolVars, groupVars
  <2>2. Stage(w) = "runs" /\ Stage(w)' = "none"
    BY <2>1 DEF Stage, At, WorkersOK, Uncounted
  <2>. QED
    BY <2>1, <2>2 DEF Parks, SameGroups
<1>3. CASE SendPut(w) \/ RecvValue(w) \/ PollValue(w) \/ WalkChain(w)
  <2>1. /\ wpc[w] \in {"exec", "enter", "chain"}
        /\ UNCHANGED <<cur, fstate, nursery, curOpen, freed, live, group>>
    BY ONLY <1>3 DEF SendPut, RecvValue, PollValue, TakeValue, WalkChain,
       Entered, Executing, fiberVars, poolVars, groupVars
  <2>2. At(w)' \in {"exec", "chain"}
    BY <1>3 DEF SendPut, RecvValue, PollValue, TakeValue, WalkChain, RequeueThen, At, WorkersOK
  <2>3. Stage(w) = "runs" /\ Stage(w)' = "runs"
    BY <2>1, <2>2 DEF Stage, At
  <2>. QED
    BY <2>1, <2>3 DEF Stays, SameGroups
<1>4. CASE Requeue(w) \/ Push(w)
  <2>1. /\ wpc[w] \in {"wake", "push"} /\ wpc'[w] \in {"wake", "push", then[w]}
        /\ UNCHANGED <<cur, then, nursery, curOpen, freed, live, group>>
    BY <1>4 DEF Requeue, Push, Next1, WorkersOK, fiberVars, poolVars, groupVars
  <2>2. Stage(w)' = Stage(w)
    <3>1. At(w)' = At(w)
      BY <2>1 DEF At, Inv, ControlOK, Control
    <3>. QED
      BY <3>1 DEF Stage
  <2>3. \/ UNCHANGED fstate
        \/ \E f \in Fiber : fstate[f] = "parked" /\ fstate' = [fstate EXCEPT ![f] = "ready"]
    <3>1. CASE Push(w)
      BY <3>1 DEF Push, fiberVars
    <3>2. CASE Requeue(w)
      <4>1. Head(todo[w]) \in Fiber
        BY <2>1 DEF Inv, ControlOK, Control, WorkersOK
      <4>. QED
        BY <3>2, <4>1 DEF Requeue, CanRequeue
    <3>. QED
      BY <1>4, <3>1, <3>2
  <2>. QED
    BY <2>1, <2>2, <2>3 DEF Stays, SameGroups
<1>5. CASE PopPinned(w) \/ PopReady(w)
  <2>1. PICK f \in Fiber : Claim(w, f)
    BY <1>5, SchedulerAssumption DEF PopPinned, PopReady, Inv, TypeOK, QueueOK,
       SchedulerAssumption
  <2>2. InPop(w) /\ UNCHANGED <<then, nursery, curOpen, freed, live, group>>
    BY <1>5 DEF PopPinned, PopReady, groupVars
  <2>3. Stage(w) = "none" /\ SameGroups
    BY <2>2 DEF InPop, Stage, At, Uncounted, SameGroups
  <2>4. CASE fstate[f] = "ready"
    <3>1. /\ fstate' = [fstate EXCEPT ![f] = "running"]
          /\ cur' = [cur EXCEPT ![w] = f]
          /\ wpc' = [wpc EXCEPT ![w] = "exec"]
      BY <2>1, <2>4 DEF Claim
    <3>2. Stage(w)' = "runs"
      BY <3>1 DEF Stage, At, WorkersOK
    <3>. QED
      BY <2>2, <2>3, <2>4, <3>1, <3>2 DEF Claims
  <2>5. CASE fstate[f] # "ready"
    <3>1. UNCHANGED <<fstate, cur>> /\ wpc' = [wpc EXCEPT ![w] = "pop"]
      BY <2>1, <2>5 DEF Claim
    <3>2. Stage(w)' = "none"
      BY <3>1 DEF Stage, At, WorkersOK, Uncounted
    <3>. QED
      BY <2>2, <2>3, <3>1, <3>2 DEF Stays
  <2>. QED
    BY <2>4, <2>5
<1>6. CASE PopShutdown(w) \/ PopWait(w) \/ PopDeadlock(w) \/ SpuriousWakeup(w) \/ Rewind(w) \/ Save(w)
  <2>1. UNCHANGED <<cur, fstate, nursery, curOpen, freed, live, group>>
    BY ONLY <1>6 DEF PopShutdown, PopWait, PopDeadlock, SpuriousWakeup, Rewind, Save,
       fiberVars, poolVars, groupVars, localVars
  <2>2. wpc[w] \in {"pop", "woken", "idle", "rewind", "save"}
    BY ONLY <1>6 DEF PopShutdown, PopWait, PopDeadlock, SpuriousWakeup, Rewind, Save,
       NothingToPop, InPop
  <2>3. wpc'[w] \in {"pop", "woken", "idle", "gone", "save"}
    <3>1. CASE Save(w)
      BY <2>2, <3>1 DEF Save, Quits, At, WorkersOK
    <3>. QED
      BY <1>6, <3>1 DEF PopShutdown, PopWait, PopDeadlock, SpuriousWakeup, Rewind, WorkersOK
  <2>4. Stage(w) = "none" /\ Stage(w)' = "none"
    BY <2>2, <2>3 DEF Stage, At, Uncounted
  <2>. QED
    BY <2>1, <2>4 DEF Stays, SameGroups
<1>7. CASE Halt(w) \/ Sweep(w) \/ Unlock(w)
  <2>1. UNCHANGED <<cur, fstate, nursery, curOpen, freed, live, group>>
    BY ONLY <1>7 DEF Halt, Sweep, Unlock, fiberVars, poolVars, groupVars, localVars
  <2>2. Stage(w)' = Stage(w)
    <3>1. CASE Halt(w)
      BY <3>1 DEF Halt, WorkersOK, Stage, At
    <3>2. CASE Sweep(w)
      <4>1. wpc[w] = "sweep" /\ At(w)' = "unlock"
        BY <3>2 DEF Sweep, RequeueThen, WorkersOK, At
      <4>. QED
        BY <4>1 DEF Stage, At, Uncounted
    <3>3. CASE Unlock(w)
      BY <3>3 DEF Unlock, WorkersOK, Stage, At, Uncounted
    <3>. QED
      BY <1>7, <3>1, <3>2, <3>3
  <2>. QED
    BY <2>1, <2>2 DEF Stays, SameGroups
<1>8. CASE Verdict(w)
  <2>1. UNCHANGED <<cur, fstate, nursery, curOpen, freed, live, then>>
    BY ONLY <1>8 DEF Verdict, fiberVars, poolVars, localVars
  <2>2. wpc[w] = "verdict" /\ wpc'[w] \in {"account", "sweep"}
    BY <1>8 DEF Verdict, WorkersOK, Inv, ControlOK, Control
  <2>3. Stage(w) = "leaves" /\ Stage(w)' = "leaves"
    BY <2>2 DEF Stage, At, Uncounted
  <2>4. nursery[cur[w]] \in Nursery
    BY <2>3 DEF Inv, ControlOK, Control, Stage, FibersOK, WorkersOK
  <2>5. SameGroups
    <3>1. group' = group \/ group' = [group EXCEPT ![nursery[cur[w]]].failed = TRUE]
      BY ONLY <1>8 DEF Verdict
    <3>. QED
      BY <2>4, <3>1, GroupsAlike
  <2>. QED
    BY <2>1, <2>3, <2>5 DEF Stays
<1>9. CASE JoinPark(w)
  <2>. DEFINE n == curOpen[cur[w]]
  <2>1. /\ wpc[w] = "exec" /\ wpc' = [wpc EXCEPT ![w] = "rewind"] /\ n \in Nursery
        /\ fstate' = [fstate EXCEPT ![cur[w]] = "parked"]
        /\ UNCHANGED <<cur, then, nursery, curOpen, freed, live>>
        /\ group' = [group EXCEPT ![n] = [@ EXCEPT !.parent = cur[w], !.parentParked = TRUE]]
    BY <1>9 DEF JoinPark, Executing, poolVars, FibersOK, WorkersOK
  <2>2. Stage(w) = "runs" /\ Stage(w)' = "none"
    BY <2>1 DEF Stage, At, WorkersOK, Uncounted
  <2>3. SameGroups
    BY <2>1, GroupsAlike
  <2>. QED
    BY <2>1, <2>2, <2>3 DEF Parks
<1>10. CASE Finish(w)
  <2>1. /\ wpc[w] = "finish" /\ UNCHANGED <<cur, nursery, curOpen, live>>
        /\ fstate' = [fstate EXCEPT ![cur[w]] = "done"]
        /\ freed' = IF nursery[cur[w]] = NoNursery THEN freed \cup {cur[w]} ELSE freed
    BY ONLY <1>10 DEF Finish, poolVars
  <2>2. /\ wpc'[w] = "tally" <=> nursery[cur[w]] = NoNursery
        /\ wpc'[w] \in {"tally", "account", "verdict"}
    BY <1>10 DEF Finish, WorkersOK
  <2>3. /\ Stage(w) = "runs"
        /\ Stage(w)' = IF nursery[cur[w]] = NoNursery THEN "left" ELSE "leaves"
    BY <2>1, <2>2 DEF Stage, At, Uncounted
  <2>4. SameGroups
    <3>1. CASE group' = group
      BY <3>1 DEF SameGroups
    <3>2. CASE group' # group
      <4>1. nursery[cur[w]] \in Nursery
        BY <1>10, <3>2 DEF Finish, FibersOK, WorkersOK
      <4>2. group' = [group EXCEPT ![nursery[cur[w]]].cancel = TRUE]
        BY <1>10, <3>2 DEF Finish
      <4>. QED
        BY <4>1, <4>2, GroupsAlike
    <3>. QED
      BY <3>1, <3>2
  <2>. QED
    BY <2>1, <2>3, <2>4 DEF Finishes
<1>11. CASE Account(w)
  <2>. DEFINE n == nursery[cur[w]]
  <2>1. /\ wpc[w] = "account" /\ UNCHANGED <<cur, fstate, nursery, curOpen, freed, live>>
        /\ At(w)' = "tally"
    BY <1>11 DEF Account, RequeueThen, WorkersOK, At, fiberVars, poolVars
  <2>2. Stage(w) = "leaves" /\ Stage(w)' = "left"
    BY <2>1 DEF Stage, At, Uncounted
  <2>3. n \in Nursery
    BY <2>2 DEF Inv, ControlOK, Control, Stage, FibersOK, WorkersOK
  <2>4. PICK b : group' = [group EXCEPT ![n] = [@ EXCEPT !.live = group[n].live - 1, !.parentParked = b]]
    BY ONLY <1>11 DEF Account
  <2>5. group \in [Nursery -> Group] /\ group[n] \in Group
    BY <2>3 DEF Inv, TypeOK, GroupsOK
  <2>6. /\ \A m \in Nursery \ {n} : group'[m] = group[m]
        /\ group'[n].live = group[n].live - 1 /\ group'[n].open = group[n].open
        /\ group'[n].enclosing = group[n].enclosing /\ group'[n].children = group[n].children
    BY <2>3, <2>4, <2>5 DEF Group
  <2>. QED
    BY <2>1, <2>2, <2>3, <2>6 DEF Accounts
<1>12. CASE Tally(w)
  <2>1. /\ wpc[w] = "tally" /\ wpc'[w] \in {"gone", "pop"} /\ live' = live - 1
        /\ UNCHANGED <<cur, fstate, nursery, curOpen, freed, group>>
    BY <1>12 DEF Tally, WorkersOK, fiberVars, groupVars
  <2>2. Stage(w) = "left" /\ Stage(w)' = "none"
    BY <2>1 DEF Stage, At, Uncounted
  <2>. QED
    BY <2>1, <2>2 DEF Tallies, SameGroups
<1>13. CASE Open(w)
  <2>. DEFINE n == Code[cur[w]][pc[cur[w]]].n
  <2>1. /\ wpc[w] = "exec" /\ wpc' = wpc /\ UNCHANGED <<cur, then, fstate, nursery, freed, live>>
        /\ ~group[n].open /\ curOpen' = [curOpen EXCEPT ![cur[w]] = n]
        /\ group' = [group EXCEPT ![n] =
                       [NewGroup EXCEPT !.open = TRUE, !.enclosing = curOpen[cur[w]]]]
    BY ONLY <1>13 DEF Open, Executing, localVars, poolVars
  <2>2. n \in Nursery
    BY <1>13, OpFields DEF Open, Executing, WorkersOK
  <2>3. /\ \A m \in Nursery \ {n} : group'[m] = group[m]
        /\ group'[n].open /\ group'[n].live = 0 /\ group'[n].children = <<>>
        /\ group'[n].enclosing = curOpen[cur[w]]
    BY <2>1, <2>2 DEF Inv, TypeOK, GroupsOK, NewGroup
  <2>4. Stage(w) = "runs" /\ Stage(w)' = "runs"
    BY <2>1 DEF Stage, At
  <2>. QED
    BY <2>1, <2>2, <2>3, <2>4 DEF Opens
<1>14. CASE Spawn(w)
  <2>. DEFINE c == Code[cur[w]][pc[cur[w]]].child  n == curOpen[cur[w]]
  <2>1. /\ wpc[w] = "exec" /\ UNCHANGED <<cur, then, curOpen, freed>> /\ live' = live + 1
        /\ fstate[c] = "unborn" /\ fstate' = [fstate EXCEPT ![c] = "ready"]
        /\ nursery' = [nursery EXCEPT ![c] = n] /\ n # NoNursery
        /\ group' = [group EXCEPT ![n] = [@ EXCEPT !.children = <<c>> \o group[n].children,
                                                   !.live = group[n].live + 1]]
    BY ONLY <1>14 DEF Spawn, Executing, localVars
  <2>2. c \in Fiber /\ n \in Nursery
    BY <1>14, <2>1, OpFields DEF Spawn, Executing, WorkersOK, FibersOK
  <2>3. wpc'[w] = "exec"
    BY <1>14 DEF Spawn, WorkersOK
  <2>4. group \in [Nursery -> Group] /\ group[n] \in Group
    BY <2>2 DEF Inv, TypeOK, GroupsOK
  <2>5. /\ \A m \in Nursery \ {n} : group'[m] = group[m]
        /\ group'[n].live = group[n].live + 1 /\ group'[n].open = group[n].open
        /\ group'[n].enclosing = group[n].enclosing
        /\ group'[n].children = <<c>> \o group[n].children
    BY <2>1, <2>2, <2>4 DEF Group
  <2>6. Stage(w) = "runs" /\ Stage(w)' = "runs"
    BY <2>1, <2>3 DEF Stage, At
  <2>. QED
    BY <2>1, <2>2, <2>5, <2>6 DEF Spawns
<1>15. CASE JoinDone(w)
  <2>. DEFINE n == curOpen[cur[w]]
  <2>1. /\ wpc[w] = "exec" /\ UNCHANGED <<cur, then, fstate, nursery, live>>
        /\ n # NoNursery /\ group[n].live <= 0
        /\ curOpen' = [curOpen EXCEPT ![cur[w]] = group[n].enclosing]
        /\ freed' = freed \cup {group[n].children[i] : i \in DOMAIN group[n].children}
        /\ group' = [group EXCEPT ![n].open = FALSE]
    BY ONLY <1>15 DEF JoinDone, Joinable, Executing, poolVars
  <2>2. n \in Nursery
    BY <2>1 DEF FibersOK, WorkersOK
  <2>3. wpc'[w] \in {"exec", "halt", "finish"}
    BY <1>15, <2>1 DEF JoinDone, Leave, WorkersOK
  <2>4. Stage(w) = "runs" /\ Stage(w)' = "runs"
    BY <2>1, <2>3 DEF Stage, At
  <2>5. /\ \A m \in Nursery \ {n} : group'[m] = group[m]
        /\ ~group'[n].open
    BY <2>1, <2>2 DEF Inv, TypeOK, GroupsOK, Group
  <2>. QED
    BY <2>1, <2>2, <2>4, <2>5 DEF Closes
<1>. QED
  BY <1>1, <1>2, <1>3, <1>4, <1>5, <1>6, <1>7, <1>8, <1>9, <1>10, <1>11, <1>12, <1>13,
     <1>14, <1>15 DEF Step, RunFiber, Schedule

Engagement == (\A v \in Worker : Engaged(v)) /\ OneWorker

\* The state of a fiber changes only at the hands of the worker that is with it,
\* or when none is.
LEMMA OthersUntouched ==
  ASSUME Inv, Engagement, NEW w \in Worker, Kind(w),
         NEW v \in Worker \ {w}, Stage(v) # "none"
  PROVE  fstate'[cur[v]] = fstate[cur[v]]
<1>1. /\ cur[v] \in Fiber /\ cur[w] \in Fiber /\ fstate[cur[v]] \in {"running", "done"}
      /\ fstate \in [Fiber -> {"unborn", "ready", "running", "parked", "done"}]
      /\ Stage(w) # "none" => cur[w] # cur[v]
  BY DEF Inv, TypeOK, WorkersOK, FibersOK, Engagement, Engaged, OneWorker, Stage
<1>. QED
  BY <1>1 DEF Kind, Stays, Parks, Claims, Finishes, Accounts, Tallies, Opens, Spawns, Closes

LEMMA EngagementStep ==
  ASSUME Inv, Engagement, NEW w \in Worker, Kind(w), Beside(w)
  PROVE  Engagement'
<1>1. /\ cur \in [Worker -> Fiber]
      /\ fstate \in [Fiber -> {"unborn", "ready", "running", "parked", "done"}]
  BY DEF Inv, TypeOK, WorkersOK, FibersOK
<1>2. ASSUME NEW v \in Worker \ {w}, Stage(v)' # "none"
      PROVE  /\ Engaged(v)' /\ Stage(v)' = Stage(v) /\ cur'[v] = cur[v] /\ Stage(v) # "none"
             /\ fstate'[cur[v]] = fstate[cur[v]]
  <2>1. Stage(v)' = Stage(v) /\ cur'[v] = cur[v]
    BY DEF Beside
  <2>2. fstate'[cur[v]] = fstate[cur[v]]
    BY <1>2, <2>1, OthersUntouched
  <2>. QED
    BY <1>2, <2>1, <2>2 DEF Engagement, Engaged
<1>3. Stage(w)' # "none" =>
        /\ Engaged(w)'
        /\ \/ cur'[w] = cur[w] /\ Stage(w) # "none"
           \/ fstate[cur'[w]] = "ready"
  <2>1. Engaged(w) /\ cur[w] \in Fiber
    BY <1>1 DEF Engagement
  <2>2. CASE Stays(w)
    BY <1>1, <2>1, <2>2 DEF Stays, Engaged
  <2>3. CASE Parks(w) \/ Tallies(w)
    BY <2>3 DEF Parks, Tallies
  <2>4. CASE Claims(w)
    BY <1>1, <2>4 DEF Claims, Engaged
  <2>5. CASE Finishes(w)
    BY <1>1, <2>1, <2>5 DEF Finishes, Engaged
  <2>6. CASE Accounts(w) \/ Opens(w) \/ Closes(w)
    BY <2>1, <2>6 DEF Accounts, Opens, Closes, Engaged
  <2>7. CASE Spawns(w)
    BY <1>1, <2>1, <2>7 DEF Spawns, Engaged
  <2>. QED
    BY <2>2, <2>3, <2>4, <2>5, <2>6, <2>7 DEF Kind
<1>4. ASSUME NEW v \in Worker PROVE Engaged(v)'
  BY <1>2, <1>3 DEF Engaged
<1>5. ASSUME NEW v \in Worker \ {w}, Stage(v)' # "none", Stage(w)' # "none"
      PROVE  cur'[v] # cur'[w]
  BY <1>2, <1>3, <1>5 DEF Engagement, OneWorker, Engaged, Stage
<1>6. ASSUME NEW u \in Worker \ {w}, NEW v \in Worker \ {w},
             Stage(u)' # "none", Stage(v)' # "none", cur'[u] = cur'[v]
      PROVE  u = v
  BY <1>2, <1>6 DEF Engagement, OneWorker
<1>7. OneWorker'
  BY <1>5, <1>6 DEF OneWorker
<1>. QED
  BY <1>4, <1>7 DEF Engagement

\* Who is counted: a spawned child comes in, its worker counts a fiber out of its group
\* and then out of the program.
LEMMA Presence ==
  ASSUME Inv, Engagement, NEW w \in Worker, Kind(w), Beside(w), NEW f \in Fiber
  PROVE  /\ nursery[f] # NoNursery \/ Spawns(w) =>
              (InGroup(f)' <=> \/ InGroup(f) /\ ~(Accounts(w) /\ f = cur[w])
                               \/ Spawns(w) /\ fstate[f] = "unborn" /\ fstate'[f] = "ready")
         /\ InProgram(f)' <=> \/ InProgram(f) /\ ~(Tallies(w) /\ f = cur[w])
                              \/ Spawns(w) /\ fstate[f] = "unborn" /\ fstate'[f] = "ready"
<1>. DEFINE A == \E v \in Worker \ {w} : cur[v] = f /\ Stage(v) = "leaves"
            B == \E v \in Worker \ {w} : cur[v] = f /\ Stage(v) \in {"leaves", "left"}
            U == fstate[f] \in Unfinished
<1>1. /\ InGroup(f) <=> U \/ A \/ (cur[w] = f /\ Stage(w) = "leaves")
      /\ InProgram(f) <=> U \/ B \/ (cur[w] = f /\ Stage(w) \in {"leaves", "left"})
  BY DEF InGroup, InProgram
<1>2. /\ InGroup(f)' <=> U' \/ A' \/ (cur'[w] = f /\ Stage(w)' = "leaves")
      /\ InProgram(f)' <=> U' \/ B' \/ (cur'[w] = f /\ Stage(w)' \in {"leaves", "left"})
  BY DEF InGroup, InProgram
<1>3. (A' <=> A) /\ (B' <=> B)
  BY DEF Beside
<1>4. Stage(w) # "none" /\ cur[w] = f => ~A /\ ~B
  BY DEF Engagement, OneWorker
<1>5. /\ Stage(w) = "runs" => fstate[cur[w]] = "running"
      /\ Stage(w) \in {"leaves", "left"} => fstate[cur[w]] = "done"
      /\ cur \in [Worker -> Fiber]
      /\ fstate \in [Fiber -> {"unborn", "ready", "running", "parked", "done"}]
  BY DEF Engagement, Engaged, Inv, TypeOK, WorkersOK, FibersOK
<1>. HIDE DEF A, B
<1>. USE DEF Unfinished
<1>6. CASE Stays(w)
  BY <1>1, <1>2, <1>3, <1>4, <1>5, <1>6 DEF Stays, Accounts, Tallies, Spawns
<1>7. CASE Parks(w)
  BY <1>1, <1>2, <1>3, <1>4, <1>5, <1>7 DEF Parks, Accounts, Tallies, Spawns
<1>8. CASE Claims(w)
  BY <1>1, <1>2, <1>3, <1>4, <1>5, <1>8 DEF Claims, Accounts, Tallies, Spawns
<1>9. CASE Finishes(w)
  <2>1. /\ Stage(w) = "runs" /\ Stage(w)' \in {"leaves", "left"} /\ cur' = cur
        /\ fstate' = [fstate EXCEPT ![cur[w]] = "done"]
    BY <1>9 DEF Finishes
  <2>2. ~Accounts(w) /\ ~Tallies(w) /\ ~Spawns(w)
    BY <2>1 DEF Accounts, Tallies, Spawns
  <2>3. CASE cur[w] = f
    <3>1. U /\ InGroup(f) /\ InProgram(f)
      BY <1>1, <1>5, <2>1, <2>3
    <3>2. InProgram(f)' /\ (nursery[f] # NoNursery => InGroup(f)')
      BY <1>2, <1>9, <2>1, <2>3 DEF Finishes
    <3>. QED
      BY <1>2, <2>1, <2>2, <2>3, <3>1, <3>2
  <2>4. CASE cur[w] # f
    BY <1>1, <1>2, <1>3, <1>5, <2>1, <2>2, <2>4
  <2>. QED
    BY <2>3, <2>4
<1>10. CASE Accounts(w)
  BY <1>1, <1>2, <1>3, <1>4, <1>5, <1>10 DEF Accounts, Tallies, Spawns
<1>11. CASE Tallies(w)
  BY <1>1, <1>2, <1>3, <1>4, <1>5, <1>11 DEF Accounts, Tallies, Spawns
<1>12. CASE Opens(w) \/ Closes(w)
  BY <1>1, <1>2, <1>3, <1>4, <1>5, <1>12 DEF Opens, Closes, Accounts, Tallies, Spawns
<1>13. CASE Spawns(w)
  BY <1>1, <1>2, <1>3, <1>4, <1>5, <1>13 DEF Accounts, Tallies, Spawns
<1>. QED
  BY <1>6, <1>7, <1>8, <1>9, <1>10, <1>11, <1>12, <1>13 DEF Kind

LEMMA NestingStep ==
  ASSUME Inv, Nesting, NEW w \in Worker, Kind(w)
  PROVE  Nesting'
<1>1. /\ curOpen \in [Fiber -> Nursery \cup {NoNursery}] /\ cur[w] \in Fiber
      /\ NoNursery \notin Nursery
      /\ \A n \in Nursery : group[n].enclosing \in Nursery \cup {NoNursery}
  BY SchedulerAssumption DEF SchedulerAssumption, Inv, TypeOK, FibersOK, WorkersOK, GroupsOK, Group
<1>2. CASE /\ UNCHANGED curOpen
           /\ \A n \in Nursery : /\ group'[n].open = group[n].open
                                 /\ group'[n].enclosing = group[n].enclosing
  BY <1>1, <1>2 DEF Nesting
<1>3. CASE Opens(w)
  <2>1. PICK n \in Nursery :
          /\ ~group[n].open /\ curOpen' = [curOpen EXCEPT ![cur[w]] = n]
          /\ \A m \in Nursery : m # n => group'[m] = group[m]
          /\ group'[n].open /\ group'[n].enclosing = curOpen[cur[w]]
    BY <1>3 DEF Opens
  <2>2. /\ \A f \in Fiber : curOpen[f] # n
        /\ \A m \in Nursery : group[m].open => group[m].enclosing # n
    BY <1>1, <2>1 DEF Nesting
  <2>3. /\ curOpen'[cur[w]] = n
        /\ \A f \in Fiber : f # cur[w] => curOpen'[f] = curOpen[f]
    BY <1>1, <2>1
  <2>4. \A f \in Fiber : curOpen'[f] # NoNursery => group'[curOpen'[f]].open
    BY <1>1, <2>1, <2>2, <2>3 DEF Nesting
  <2>5. \A f, g \in Fiber : curOpen'[f] = curOpen'[g] => f = g \/ curOpen'[f] = NoNursery
    BY <1>1, <2>2, <2>3 DEF Nesting
  <2>6. ASSUME NEW k \in Nursery, group'[k].open, group'[k].enclosing # NoNursery
        PROVE  /\ group'[group'[k].enclosing].open
               /\ \A f \in Fiber : curOpen'[f] # group'[k].enclosing
               /\ \A m \in Nursery : group'[m].open /\ group'[m].enclosing = group'[k].enclosing => m = k
    <3>1. CASE k = n
      BY <1>1, <2>1, <2>2, <2>3, <2>6, <3>1 DEF Nesting
    <3>2. CASE k # n
      BY <1>1, <2>1, <2>2, <2>3, <2>6, <3>2 DEF Nesting
    <3>. QED
      BY <3>1, <3>2
  <2>. QED
    BY ONLY <2>4, <2>5, <2>6 DEF Nesting
<1>4. CASE Closes(w)
  <2>1. PICK n \in Nursery :
          /\ n = curOpen[cur[w]] /\ curOpen' = [curOpen EXCEPT ![cur[w]] = group[n].enclosing]
          /\ \A m \in Nursery : m # n => group'[m] = group[m]
          /\ ~group'[n].open
    BY <1>4 DEF Closes
  <2>2. /\ \A f \in Fiber : f # cur[w] => curOpen[f] # n
        /\ \A m \in Nursery : group[m].open => group[m].enclosing # n
        /\ group[n].open
    BY <1>1, <2>1 DEF Nesting
  <2>3. /\ curOpen'[cur[w]] = group[n].enclosing
        /\ \A f \in Fiber : f # cur[w] => curOpen'[f] = curOpen[f]
    BY <1>1, <2>1
  <2>4. \A f \in Fiber : curOpen'[f] # NoNursery => group'[curOpen'[f]].open
    BY <1>1, <2>1, <2>2, <2>3 DEF Nesting
  <2>5. \A f, g \in Fiber : curOpen'[f] = curOpen'[g] => f = g \/ curOpen'[f] = NoNursery
    BY <1>1, <2>1, <2>2, <2>3 DEF Nesting
  <2>6. ASSUME NEW k \in Nursery, group'[k].open, group'[k].enclosing # NoNursery
        PROVE  /\ group'[group'[k].enclosing].open
               /\ \A f \in Fiber : curOpen'[f] # group'[k].enclosing
               /\ \A m \in Nursery : group'[m].open /\ group'[m].enclosing = group'[k].enclosing => m = k
    <3>1. k # n /\ group'[k] = group[k] /\ group[k].enclosing \in Nursery \ {n}
      BY <1>1, <2>1, <2>2, <2>6
    <3>. QED
      BY <1>1, <2>1, <2>2, <2>3, <2>6, <3>1 DEF Nesting
  <2>. QED
    BY ONLY <2>4, <2>5, <2>6 DEF Nesting
<1>5. CASE Spawns(w)
  <2>1. /\ UNCHANGED curOpen
        /\ \A n \in Nursery : /\ group'[n].open = group[n].open
                              /\ group'[n].enclosing = group[n].enclosing
    BY <1>5 DEF Spawns
  <2>. QED
    BY <1>2, <2>1
<1>. QED
  BY <1>2, <1>3, <1>4, <1>5 DEF Kind, Stays, Parks, Claims, Finishes, Accounts, Tallies, SameGroups

\* A nursery that its parent closes has no member left.
LEMMA ClosedEmpty ==
  ASSUME Inv, Nesting, \A n \in Nursery : Census(n), NEW w \in Worker,
         NEW n \in Nursery, n = curOpen[cur[w]], group[n].live <= 0
  PROVE  Members(n) = {} /\ group[n].open
<1>1. group[n].open
  BY SchedulerAssumption DEF SchedulerAssumption, Nesting, Inv, TypeOK, WorkersOK
<1>2. IsFiniteSet(Members(n)) /\ group[n].live = Cardinality(Members(n))
  BY <1>1 DEF Census
<1>3. Cardinality(Members(n)) \in Nat /\ (Cardinality(Members(n)) = 0 <=> Members(n) = {})
  BY <1>2, FS_CardinalityType, FS_EmptySet
<1>. QED
  BY <1>1, <1>2, <1>3

LEMMA HistoriesStep ==
  ASSUME Inv, Engagement, Nesting, \A n \in Nursery : Census(n), Histories,
         NEW w \in Worker, Kind(w), Beside(w)
  PROVE  Histories'
<1>1. /\ fstate \in [Fiber -> {"unborn", "ready", "running", "parked", "done"}]
      /\ nursery \in [Fiber -> Nursery \cup {NoNursery}] /\ freed \subseteq Fiber
      /\ cur[w] \in Fiber /\ (Stage(w) = "runs" => fstate[cur[w]] = "running")
      /\ NoNursery \notin Nursery
  BY SchedulerAssumption DEF SchedulerAssumption, Inv, TypeOK, FibersOK, WorkersOK, Engagement,
     Engaged
<1>2. \A f \in Fiber : /\ fstate'[f] = "unborn" => fstate[f] = "unborn" /\ nursery'[f] = nursery[f]
                       /\ fstate[f] = "done" => fstate'[f] = "done"
  <2>1. CASE Spawns(w)
    BY <1>1, <2>1 DEF Spawns
  <2>2. CASE ~Spawns(w)
    <3>1. nursery' = nursery
      BY <2>2 DEF Kind, Stays, Parks, Claims, Finishes, Accounts, Tallies, Opens, Closes
    <3>2. \/ fstate' = fstate
          \/ \E f \in Fiber, s \in {"ready", "running", "parked", "done"} :
               fstate[f] \in {"parked", "ready", "running"} /\ fstate' = [fstate EXCEPT ![f] = s]
      BY <1>1, <2>2 DEF Kind, Stays, Parks, Claims, Finishes, Accounts, Tallies, Opens, Closes
    <3>. QED
      BY <1>1, <3>1, <3>2
  <2>. QED
    BY <2>1, <2>2
<1>3. \A f \in Fiber : fstate'[f] = "unborn" => nursery'[f] = NoNursery
  BY <1>2 DEF Histories
<1>4. \A f \in freed' : fstate'[f] = "done"
  <2>1. CASE freed' = freed
    BY <1>1, <1>2, <2>1 DEF Histories
  <2>2. CASE Finishes(w)
    BY <1>1, <1>2, <2>2 DEF Histories, Finishes
  <2>3. CASE Closes(w)
    <3>1. PICK n \in Nursery :
            /\ n = curOpen[cur[w]] /\ group[n].live <= 0
            /\ freed' = freed \cup {group[n].children[i] : i \in DOMAIN group[n].children}
      BY <2>3 DEF Closes
    <3>2. Members(n) = {} /\ group[n].open
      BY <3>1, ClosedEmpty
    <3>3. ASSUME NEW i \in DOMAIN group[n].children PROVE fstate'[group[n].children[i]] = "done"
      <4>1. group[n].children[i] \in Fiber
        BY DEF Inv, TypeOK, GroupsOK, Group
      <4>2. nursery[group[n].children[i]] = n
        BY <3>2 DEF Census
      <4>3. fstate[group[n].children[i]] \notin Unfinished
        BY <3>2, <4>1, <4>2 DEF Members, InGroup
      <4>4. fstate[group[n].children[i]] # "unborn"
        BY <1>1, <4>1, <4>2 DEF Histories
      <4>. QED
        BY <1>1, <1>2, <4>1, <4>3, <4>4 DEF Unfinished
    <3>. QED
      BY <1>1, <1>2, <3>1, <3>3 DEF Histories
  <2>. QED
    BY <2>1, <2>2, <2>3 DEF Kind, Stays, Parks, Claims, Accounts, Tallies, Opens, Spawns
<1>5. ASSUME NEW v \in Worker, Stage(v)' = "leaves" PROVE cur'[v] \notin freed'
  <2>1. /\ cur'[v] = cur[v] /\ cur[v] \in Fiber
        /\ Stage(v) = "leaves" \/ (v = w /\ Finishes(w) /\ nursery[cur[w]] # NoNursery)
    <3>1. CASE v # w
      BY <1>5, <3>1 DEF Beside, Inv, TypeOK, WorkersOK
    <3>2. CASE v = w
      BY <1>1, <1>5, <3>2 DEF Kind, Stays, Parks, Claims, Finishes, Accounts, Tallies, Opens, Closes, Spawns
    <3>. QED
      BY <3>1, <3>2
  <2>2. cur[v] \notin freed
    BY <1>1, <2>1 DEF Histories, Finishes
  <2>3. CASE freed' = freed
    BY <2>1, <2>2, <2>3
  <2>4. CASE Finishes(w)
    <3>1. v = w => nursery[cur[w]] # NoNursery
      BY <2>1, <2>4 DEF Finishes
    <3>2. v # w => cur[v] # cur[w]
      BY <2>1, <2>4 DEF Finishes, Engagement, OneWorker
    <3>. QED
      BY <2>1, <2>2, <2>4, <3>1, <3>2 DEF Finishes
  <2>5. CASE Closes(w)
    <3>1. PICK n \in Nursery :
            /\ n = curOpen[cur[w]] /\ group[n].live <= 0
            /\ freed' = freed \cup {group[n].children[i] : i \in DOMAIN group[n].children}
      BY <2>5 DEF Closes
    <3>2. Members(n) = {} /\ group[n].open
      BY <3>1, ClosedEmpty
    <3>3. Stage(v) = "leaves"
      BY <2>1, <2>5 DEF Finishes, Closes
    <3>4. nursery[cur[v]] # n
      BY <2>1, <3>2, <3>3 DEF Members, InGroup
    <3>5. \A i \in DOMAIN group[n].children : group[n].children[i] # cur[v]
      <4>1. Census(n)
        OBVIOUS
      <4>. QED
        BY ONLY <3>2, <3>4, <4>1 DEF Census
    <3>. QED
      BY <2>1, <2>2, <3>1, <3>5
  <2>. QED
    BY <2>3, <2>4, <2>5 DEF Kind, Stays, Parks, Claims, Accounts, Tallies, Opens, Spawns
<1>. QED
  BY <1>3, <1>4, <1>5 DEF Histories

LEMMA CensusStep ==
  ASSUME Inv, Engagement, Nesting, \A n \in Nursery : Census(n), Histories,
         NEW w \in Worker, Kind(w), Beside(w), NEW n \in Nursery
  PROVE  Census(n)'
<1>1. /\ fstate \in [Fiber -> {"unborn", "ready", "running", "parked", "done"}]
      /\ nursery \in [Fiber -> Nursery \cup {NoNursery}]
      /\ cur[w] \in Fiber /\ group[n].live \in Int /\ group[n].children \in Seq(Fiber)
      /\ NoNursery \notin Nursery
  BY SchedulerAssumption DEF SchedulerAssumption, Inv, TypeOK, FibersOK, WorkersOK, GroupsOK, Group
<1>2. Census(n)
  OBVIOUS
<1>3. CASE ~Spawns(w) /\ ~(Accounts(w) /\ nursery[cur[w]] = n)
  <2>1. nursery' = nursery
    BY <1>3 DEF Kind, Stays, Parks, Claims, Finishes, Accounts, Tallies, Opens, Closes
  <2>2. Members(n)' = Members(n)
    <3>1. ASSUME NEW f \in Fiber, nursery[f] = n PROVE InGroup(f)' <=> InGroup(f)
      BY <1>1, <1>3, <3>1, Presence
    <3>. QED
      BY <2>1, <3>1 DEF Members
  <2>3. CASE /\ group'[n].open = group[n].open /\ group'[n].live = group[n].live
             /\ group'[n].children = group[n].children
    BY ONLY <1>2, <2>1, <2>2, <2>3 DEF Census
  <2>4. CASE Opens(w)
    <3>1. PICK m \in Nursery :
            /\ ~group[m].open
            /\ \A k \in Nursery : k # m => group'[k] = group[k]
            /\ group'[m].open /\ group'[m].live = 0 /\ group'[m].children = <<>>
      BY <2>4 DEF Opens
    <3>2. CASE m = n
      <4>1. Members(n)' = {} /\ IsFiniteSet(Members(n)')
        BY <1>2, <2>2, <3>1, <3>2 DEF Census
      <4>2. Cardinality(Members(n)') = 0
        BY <4>1, FS_EmptySet
      <4>. QED
        BY ONLY <3>1, <3>2, <4>1, <4>2 DEF Census
    <3>. QED
      BY <2>3, <3>1, <3>2
  <2>5. CASE Closes(w)
    <3>1. PICK m \in Nursery :
            /\ m = curOpen[cur[w]] /\ group[m].live <= 0
            /\ \A k \in Nursery : k # m => group'[k] = group[k]
            /\ ~group'[m].open
      BY <2>5 DEF Closes
    <3>2. CASE m = n
      <4>1. Members(n) = {}
        BY <3>1, <3>2, ClosedEmpty
      <4>. QED
        BY ONLY <1>2, <2>2, <3>1, <3>2, <4>1 DEF Census
    <3>. QED
      BY <2>3, <3>1, <3>2
  <2>. QED
    BY <1>3, <2>3, <2>4, <2>5 DEF Kind, Stays, Parks, Claims, Finishes, Accounts, Tallies, SameGroups
<1>4. CASE Accounts(w) /\ nursery[cur[w]] = n
  <2>1. /\ Stage(w) = "leaves" /\ nursery' = nursery
        /\ group'[n].open = group[n].open /\ group'[n].live = group[n].live - 1
        /\ group'[n].children = group[n].children /\ ~Spawns(w)
    BY <1>4 DEF Accounts, Spawns
  <2>2. cur[w] \in Members(n)
    BY <1>1, <1>4, <2>1 DEF Members, InGroup
  <2>3. Members(n)' = Members(n) \ {cur[w]}
    <3>1. ASSUME NEW f \in Fiber, nursery[f] = n PROVE InGroup(f)' <=> InGroup(f) /\ f # cur[w]
      BY <1>1, <1>4, <2>1, <3>1, Presence
    <3>. QED
      BY <2>1, <3>1 DEF Members
  <2>4. group[n].open /\ IsFiniteSet(Members(n)) /\ group[n].live = Cardinality(Members(n))
    BY <1>2, <2>2 DEF Census
  <2>5. IsFiniteSet(Members(n)') /\ Cardinality(Members(n)') = Cardinality(Members(n)) - 1
    <3>1. /\ IsFiniteSet(Members(n) \ {cur[w]})
          /\ Cardinality(Members(n) \ {cur[w]}) = Cardinality(Members(n)) - 1
      BY ONLY <2>2, <2>4, FS_RemoveElement
    <3>. QED
      BY ONLY <2>3, <3>1
  <2>. QED
    BY ONLY <1>2, <2>1, <2>4, <2>5 DEF Census
<1>5. CASE Spawns(w)
  <2>1. PICK c \in Fiber, m \in Nursery :
          /\ m = curOpen[cur[w]] /\ fstate[c] = "unborn"
          /\ fstate' = [fstate EXCEPT ![c] = "ready"]
          /\ nursery' = [nursery EXCEPT ![c] = m]
          /\ \A k \in Nursery : /\ group'[k].open = group[k].open
                                /\ k # m => group'[k] = group[k]
          /\ group'[m].live = group[m].live + 1
          /\ group'[m].children = <<c>> \o group[m].children
    BY <1>5 DEF Spawns
  <2>2. nursery[c] = NoNursery /\ group[m].open
    BY <1>1, <2>1, SchedulerAssumption DEF Histories, Nesting
  <2>3. \A f \in Fiber : f # c => nursery'[f] = nursery[f]
    BY <1>1, <2>1
  <2>4. ~Accounts(w)
    BY <1>5 DEF Spawns, Accounts
  <2>5. ASSUME NEW f \in Fiber PROVE InGroup(f)' <=> InGroup(f) \/ f = c
    <3>1. InGroup(f)' <=> InGroup(f) \/ (fstate[f] = "unborn" /\ fstate'[f] = "ready")
      BY <1>5, <2>4, Presence
    <3>. QED
      BY <1>1, <2>1, <3>1
  <2>6. CASE n = m
    <3>1. c \notin Members(n) /\ Members(n)' = Members(n) \cup {c}
      <4>1. nursery'[c] = n /\ nursery[c] # n /\ \A f \in Fiber : f # c => nursery'[f] = nursery[f]
        BY <1>1, <2>1, <2>2, <2>3, <2>6
      <4>2. c \in Fiber
        OBVIOUS
      <4>. QED
        BY ONLY <4>1, <4>2, <2>5 DEF Members
    <3>2. IsFiniteSet(Members(n)) /\ group[n].live = Cardinality(Members(n))
      BY <1>2, <2>2, <2>6 DEF Census
    <3>3. IsFiniteSet(Members(n)') /\ Cardinality(Members(n)') = Cardinality(Members(n)) + 1
      BY <3>1, <3>2, FS_AddElement
    <3>4. ASSUME NEW i \in DOMAIN group'[n].children PROVE nursery'[group'[n].children[i]] = n
      <4>1. group'[n].children = <<c>> \o group[n].children
        BY <2>1, <2>6
      <4>2. group'[n].children[i] = c \/ \E j \in DOMAIN group[n].children :
                                           group'[n].children[i] = group[n].children[j]
        BY <1>1, <3>4, <4>1
      <4>3. ASSUME NEW j \in DOMAIN group[n].children
            PROVE  nursery'[group[n].children[j]] = n
        <5>1. group[n].children[j] \in Fiber /\ nursery[group[n].children[j]] = n
          BY <1>1, <1>2, <2>2, <2>6 DEF Census
        <5>. QED
          BY <2>1, <2>3, <2>6, <5>1, <1>1
      <4>4. nursery'[c] = n
        BY <1>1, <2>1, <2>6
      <4>. QED
        BY <4>2, <4>3, <4>4
    <3>. QED
      BY ONLY <2>1, <2>2, <2>6, <3>2, <3>3, <3>4 DEF Census
  <2>7. CASE n # m
    <3>1. Members(n)' = Members(n)
      <4>1. nursery'[c] # n /\ nursery[c] # n /\ \A f \in Fiber : f # c => nursery'[f] = nursery[f]
        BY <1>1, <2>1, <2>2, <2>3, <2>7
      <4>. QED
        BY ONLY <4>1, <2>5 DEF Members
    <3>2. group'[n] = group[n]
      BY <2>1, <2>7
    <3>3. group[n].open => \A i \in DOMAIN group[n].children :
                             nursery'[group[n].children[i]] = n
      BY <1>1, <1>2, <2>2, <2>3 DEF Census
    <3>. QED
      BY ONLY <1>2, <3>1, <3>2, <3>3 DEF Census
  <2>. QED
    BY <2>6, <2>7
<1>. QED
  BY <1>3, <1>4, <1>5

LiveFibers == IsFiniteSet(Everyone) /\ live = Cardinality(Everyone)

LEMMA EveryoneStep ==
  ASSUME Inv, Engagement, LiveFibers, NEW w \in Worker, Kind(w), Beside(w)
  PROVE  LiveFibers'
<1>1. /\ fstate \in [Fiber -> {"unborn", "ready", "running", "parked", "done"}]
      /\ cur[w] \in Fiber
  BY DEF Inv, TypeOK, FibersOK, WorkersOK
<1>2. CASE ~Spawns(w) /\ ~Tallies(w)
  <2>1. Everyone' = Everyone
    BY <1>2, Presence DEF Everyone
  <2>2. live' = live
    BY <1>2 DEF Kind, Stays, Parks, Claims, Finishes, Accounts, Opens, Closes
  <2>. QED
    BY <2>1, <2>2 DEF LiveFibers
<1>3. CASE Tallies(w)
  <2>1. Stage(w) = "left" /\ live' = live - 1 /\ ~Spawns(w)
    BY <1>3 DEF Tallies, Spawns
  <2>2. cur[w] \in Everyone
    BY <1>1, <2>1 DEF Everyone, InProgram
  <2>3. Everyone' = Everyone \ {cur[w]}
    BY <1>3, <2>1, Presence DEF Everyone
  <2>. QED
    BY <2>1, <2>2, <2>3, FS_RemoveElement DEF LiveFibers
<1>4. CASE Spawns(w)
  <2>1. PICK c \in Fiber : fstate[c] = "unborn" /\ fstate' = [fstate EXCEPT ![c] = "ready"]
    BY <1>4 DEF Spawns
  <2>2. live' = live + 1 /\ ~Tallies(w)
    BY <1>4 DEF Spawns, Tallies
  <2>3. ASSUME NEW f \in Fiber PROVE InProgram(f)' <=> InProgram(f) \/ f = c
    <3>1. InProgram(f)' <=> InProgram(f) \/ (fstate[f] = "unborn" /\ fstate'[f] = "ready")
      BY <1>4, <2>2, Presence
    <3>. QED
      BY <1>1, <2>1, <3>1
  <2>4. c \notin Everyone
    BY <2>1 DEF Everyone, InProgram, Unfinished, Engagement, Engaged
  <2>5. Everyone' = Everyone \cup {c}
    BY <2>3 DEF Everyone
  <2>. QED
    BY <2>2, <2>4, <2>5, FS_AddElement DEF LiveFibers
<1>. QED
  BY <1>2, <1>3, <1>4

LiveInv == /\ Inv /\ (\A w \in Worker : Quits(w)) /\ Engagement /\ Nesting
           /\ (\A n \in Nursery : Census(n)) /\ Histories /\ LiveFibers

LEMMA LiveInit == Init => LiveInv
<1>. SUFFICES ASSUME Init PROVE LiveInv
  OBVIOUS
<1>1. Inv
  BY InitInv
<1>. Main \in Fiber /\ Worker0 \in Worker
  BY SchedulerAssumption DEF SchedulerAssumption
<1>2. /\ \A w \in Worker : /\ At(w) = IF w = Worker0 THEN "exec" ELSE IF w \in Started THEN "pop" ELSE "off"
                           /\ cur[w] = Main /\ ~exitRequested[w]
      /\ \A f \in Fiber : /\ fstate[f] = IF f = Main THEN "running" ELSE "unborn"
                          /\ nursery[f] = NoNursery /\ curOpen[f] = NoNursery
      /\ \A n \in Nursery : ~group[n].open
      /\ freed = {} /\ live = 1
  BY DEF Init, At, NewGroup
<1>3. \A w \in Worker : Stage(w) = IF w = Worker0 THEN "runs" ELSE "none"
  BY <1>2 DEF Stage, Uncounted
<1>4. \A w \in Worker : Quits(w)
  BY <1>2 DEF Quits
<1>5. Engagement
  BY <1>2, <1>3 DEF Engagement, Engaged, OneWorker
<1>6. Nesting /\ Histories
  BY <1>2 DEF Nesting, Histories
<1>7. ASSUME NEW n \in Nursery PROVE Census(n)
  <2>1. Members(n) = {}
    BY <1>2, SchedulerAssumption DEF Members, SchedulerAssumption
  <2>. QED
    BY <1>2, <2>1, FS_EmptySet DEF Census
<1>8. LiveFibers
  <2>1. Everyone = {Main}
    BY <1>2, <1>3 DEF Everyone, InProgram, Unfinished
  <2>. QED
    BY <1>2, <2>1, FS_Singleton DEF LiveFibers
<1>. QED
  BY <1>1, <1>4, <1>5, <1>6, <1>7, <1>8 DEF LiveInv

LEMMA LiveStep == LiveInv /\ MainStays /\ [Next]_vars => LiveInv'
<1>. SUFFICES ASSUME LiveInv, MainStays, [Next]_vars PROVE LiveInv'
  OBVIOUS
<1>1. Inv'
  BY StepInv DEF LiveInv
<1>2. CASE UNCHANGED vars
  <2>1. UNCHANGED <<fstate, freed, nursery, curOpen, live, group, cur, then, exitRequested, wpc>>
    BY <1>2 DEF vars, fiberVars, poolVars, groupVars, localVars
  <2>2. \A w \in Worker : At(w)' = At(w) /\ Stage(w)' = Stage(w)
    BY <2>1 DEF At, Stage
  <2>3. Everyone' = Everyone /\ \A n \in Nursery : Members(n)' = Members(n)
    BY <2>1, <2>2 DEF Everyone, Members, InProgram, InGroup
  <2>. QED
    BY <1>1, <2>1, <2>2, <2>3
       DEF LiveInv, Quits, Engagement, Engaged, OneWorker, Nesting, Census, Histories, LiveFibers
<1>3. ASSUME NEW w \in Started, Step(w) \/ SpuriousWakeup(w)
      PROVE  LiveInv'
  <2>1. w \in Worker
    BY SchedulerAssumption DEF SchedulerAssumption
  <2>2. Kind(w) /\ Beside(w)
    BY <1>3, <2>1, KindStep, ApartStep, BesideStep DEF LiveInv
  <2>3. \A v \in Worker : Quits(v)'
    BY <1>3, <2>1, QuitsStep DEF LiveInv
  <2>4. Engagement' /\ Nesting' /\ Histories' /\ LiveFibers'
    BY <2>1, <2>2, EngagementStep, NestingStep, HistoriesStep, EveryoneStep DEF LiveInv
  <2>5. ASSUME NEW n \in Nursery PROVE Census(n)'
    BY <2>1, <2>2, CensusStep DEF LiveInv
  <2>. QED
    BY <1>1, <2>3, <2>4, <2>5 DEF LiveInv
<1>. QED
  BY <1>2, <1>3 DEF Next

LEMMA LiveInvariant == Spec => ([]MainStays => []LiveInv)
  BY LiveInit, LiveStep, PTL DEF Spec

\* The live count of a nursery is the number of its fibers that finish_child has not taken
\* out of it, and that of the scheduler the number of those not taken out of the program, in
\* every program whose main fiber does not call exit() before it first parks: the last child
\* wakes the parent, and the last fiber stops the pool.
THEOREM CountsAreLive == Spec => ([]MainStays => []LiveCounts)
<1>1. LiveInv => LiveCounts
  <2>. SUFFICES ASSUME LiveInv PROVE LiveCounts
    OBVIOUS
  <2>1. \A w \in Worker : /\ Stage(w) = "leaves" <=> At(w) \in Uncounted
                          /\ Stage(w) \in {"leaves", "left"} <=> At(w) \in Uncounted \cup {"tally"}
    BY DEF Stage, Uncounted
  <2>2. ASSUME NEW n \in Nursery, group[n].open
        PROVE  group[n].live = Cardinality({f \in Fiber : nursery[f] = n /\
                 (\/ fstate[f] \in {"ready", "running", "parked"}
                  \/ \E w \in Worker : cur[w] = f /\ At(w) \in Uncounted)})
    <3>1. Members(n) = {f \in Fiber : nursery[f] = n /\
                 (\/ fstate[f] \in {"ready", "running", "parked"}
                  \/ \E w \in Worker : cur[w] = f /\ At(w) \in Uncounted)}
      BY <2>1 DEF Members, InGroup, Unfinished
    <3>. QED
      BY <2>2, <3>1 DEF LiveInv, Census
  <2>3. live = Cardinality({f \in Fiber :
                 (\/ fstate[f] \in {"ready", "running", "parked"}
                  \/ \E w \in Worker : cur[w] = f /\ At(w) \in Uncounted \cup {"tally"})})
    <3>1. Everyone = {f \in Fiber :
                 (\/ fstate[f] \in {"ready", "running", "parked"}
                  \/ \E w \in Worker : cur[w] = f /\ At(w) \in Uncounted \cup {"tally"})}
      BY <2>1 DEF Everyone, InProgram, Unfinished
    <3>. QED
      BY <3>1 DEF LiveInv, LiveFibers
  <2>. QED
    BY <2>2, <2>3 DEF LiveCounts
<1>. QED
  BY LiveInvariant, <1>1, PTL

-----------------------------------------------------------------------------
(* What is freed *)

\* What a nursery's parent frees is freed when the nursery is closed, and what a cancel sweep
\* has still to visit is in its nursery.
Among(f, q) == \E i \in DOMAIN q : q[i] = f
ChildrenKept == \A n \in Nursery : group[n].open => \A f \in freed : ~Among(f, group[n].children)
Visiting(w) == At(w) = "unlock" =>
  \A i \in DOMAIN todo[w] : Among(todo[w][i], group[nursery[cur[w]]].children)

FreeInv == LiveInv /\ ChildrenKept /\ \A w \in Worker : Visiting(w)

\* A worker that finishes its fiber is in the nursery's count: the nursery is open.
LEMMA LeaversCounted ==
  ASSUME LiveInv, NEW w \in Worker, At(w) \in Uncounted
  PROVE  /\ nursery[cur[w]] \in Nursery /\ group[nursery[cur[w]]].open
         /\ cur[w] \in Members(nursery[cur[w]])
<1>1. nursery[cur[w]] \in Nursery /\ cur[w] \in Fiber
  BY DEF LiveInv, Inv, ControlOK, Control, TypeOK, FibersOK, WorkersOK
<1>2. Stage(w) = "leaves"
  BY DEF Stage, Uncounted
<1>3. cur[w] \in Members(nursery[cur[w]])
  BY <1>1, <1>2 DEF Members, InGroup
<1>. QED
  BY <1>1, <1>3 DEF LiveInv, Census

LEMMA ChildrenKeptStep ==
  ASSUME FreeInv, NEW w \in Worker, Kind(w)
  PROVE  ChildrenKept'
<1>. SUFFICES ASSUME NEW n \in Nursery, group'[n].open, NEW f \in freed'
     PROVE  ~Among(f, group'[n].children)
  BY DEF ChildrenKept
<1>1. /\ NoNursery \notin Nursery /\ cur[w] \in Fiber /\ LiveInv /\ Nesting
      /\ \A m \in Nursery : Census(m)
      /\ group[n].children \in Seq(Fiber)
      /\ Stage(w) = "runs" => fstate[cur[w]] = "running"
      /\ \A g \in freed : fstate[g] = "done"
  BY SchedulerAssumption DEF SchedulerAssumption, FreeInv, LiveInv, Inv, TypeOK, WorkersOK,
     GroupsOK, Group, Engagement, Engaged, Histories
<1>2. CASE group'[n].open = group[n].open /\ group'[n].children = group[n].children
  <2>1. \A g : Among(g, group[n].children) => nursery[g] = n /\ g \notin freed
    BY <1>1, <1>2 DEF Among, Census, FreeInv, ChildrenKept
  <2>2. CASE Finishes(w)
    BY <1>1, <1>2, <2>1, <2>2 DEF Finishes
  <2>3. CASE Closes(w)
    <3>1. PICK m \in Nursery :
            /\ m = curOpen[cur[w]] /\ group[m].live <= 0 /\ ~group'[m].open
            /\ freed' = freed \cup {group[m].children[i] : i \in DOMAIN group[m].children}
      BY <2>3 DEF Closes
    <3>2. group[m].open /\ m # n
      BY <1>1, <3>1, ClosedEmpty DEF LiveInv
    <3>3. \A i \in DOMAIN group[m].children : nursery[group[m].children[i]] = m
      BY <1>1, <3>2 DEF Census
    <3>. QED
      BY <1>2, <2>1, <3>1, <3>2, <3>3
  <2>4. CASE freed' = freed
    BY <1>2, <2>1, <2>4
  <2>. QED
    BY <2>2, <2>3, <2>4 DEF Kind, Stays, Parks, Claims, Accounts, Tallies, Opens, Spawns
<1>3. CASE Opens(w)
  <2>1. group'[n] = group[n] \/ group'[n].children = <<>>
    BY <1>3 DEF Opens
  <2>2. CASE group'[n].children = <<>>
    BY <2>2 DEF Among
  <2>. QED
    BY <1>2, <2>1, <2>2
<1>4. CASE Spawns(w)
  <2>1. PICK c \in Fiber, m \in Nursery :
          /\ fstate[c] = "unborn" /\ freed' = freed
          /\ \A k \in Nursery : group'[k].open = group[k].open /\ (k # m => group'[k] = group[k])
          /\ group'[m].children = <<c>> \o group[m].children
    BY <1>4 DEF Spawns
  <2>2. CASE n = m
    <3>1. f # c /\ f \in freed /\ ~Among(f, group[n].children)
      BY <1>1, <2>1 DEF FreeInv, ChildrenKept
    <3>2. \A i \in DOMAIN group'[n].children : group'[n].children[i] = c \/
            \E j \in DOMAIN group[n].children : group'[n].children[i] = group[n].children[j]
      <4>1. group'[n].children = <<c>> \o group[n].children
        BY <2>1, <2>2
      <4>. QED
        BY <1>1, <4>1
    <3>. QED
      BY <3>1, <3>2 DEF Among
  <2>. QED
    BY <1>2, <2>1, <2>2
<1>. QED
  BY <1>2, <1>3, <1>4 DEF Kind, Stays, Parks, Claims, Finishes, Accounts, Tallies, Closes, SameGroups

\* A worker comes to have siblings to visit by beginning its sweep.
LEMMA SweepArrives ==
  ASSUME Inv, NEW w \in Worker, Step(w) \/ SpuriousWakeup(w), At(w)' = "unlock", ~Sweep(w)
  PROVE  /\ At(w) = "unlock" /\ UNCHANGED <<cur, nursery, group>>
         /\ todo' = todo \/ (todo[w] # <<>> /\ todo' = [todo EXCEPT ![w] = Tail(@)])
<1>. WorkersOK
  BY DEF Inv, TypeOK
<1>. USE DEF Goto, GotoWaking
<1>1. CASE Requeue(w) \/ Push(w)
  <2>1. /\ wpc[w] \in {"wake", "push"} /\ wpc'[w] \in {"wake", "push", then[w]}
        /\ UNCHANGED <<cur, then, nursery, group>>
        /\ todo' = todo \/ todo' = [todo EXCEPT ![w] = Tail(@)]
    <3>1. CASE Requeue(w)
      BY <3>1 DEF Requeue, Next1, groupVars, WorkersOK
    <3>2. CASE Push(w)
      BY <3>2 DEF Push, Next1, fiberVars, groupVars
    <3>. QED
      BY <1>1, <3>1, <3>2
  <2>2. At(w)' = At(w)
    BY <2>1 DEF At, Inv, ControlOK, Control
  <2>3. todo[w] # <<>>
    BY <2>1 DEF Inv, ControlOK, Control
  <2>. QED
    BY <2>1, <2>2, <2>3
<1>2. CASE SendPut(w) \/ RecvValue(w) \/ PollValue(w) \/ WalkChain(w) \/ Account(w)
  <2>1. At(w)' \in {"exec", "chain", "tally"}
    <3>1. \/ Goto(w, "exec")
          \/ \E fs : \E l \in {"exec", "chain", "tally"} : RequeueThen(w, fs, l)
      BY ONLY <1>2 DEF SendPut, RecvValue, PollValue, TakeValue, WalkChain, Account
    <3>2. ASSUME NEW fs, NEW l \in {"exec", "chain", "tally"}, RequeueThen(w, fs, l)
          PROVE  At(w)' = l
      BY <3>2 DEF RequeueThen, At, WorkersOK
    <3>3. CASE Goto(w, "exec")
      BY <3>3 DEF At, WorkersOK
    <3>. QED
      BY <3>1, <3>2, <3>3
  <2>. QED
    BY <2>1
<1>3. CASE \/ CheckCancel(w) \/ SendClosed(w) \/ SendPark(w) \/ RecvPark(w) \/ RecvNone(w)
           \/ PollNone(w) \/ CloseChannel(w) \/ Loop(w) \/ Return(w) \/ Exit(w) \/ Open(w)
           \/ Spawn(w) \/ JoinPark(w) \/ Rewind(w) \/ JoinDone(w)
  <2>1. wpc'[w] \in {"exec", "enter", "chain", "save", "halt", "finish", "rewind"}
    <3>1. CASE Loop(w) \/ Open(w) \/ JoinDone(w)
      <4>1. wpc[w] = "exec" /\ (wpc' = wpc \/ \E r : Leave(w, r))
        BY ONLY <3>1 DEF Loop, Open, JoinDone, Executing, localVars
      <4>. QED
        BY <4>1 DEF Leave, WorkersOK
    <3>2. CASE Spawn(w)
      BY <3>2 DEF Spawn
    <3>3. CASE ~Loop(w) /\ ~Open(w) /\ ~JoinDone(w) /\ ~Spawn(w)
      <4>1. \E l \in {"exec", "enter", "chain", "save", "halt", "finish", "rewind"} : Goto(w, l)
        BY ONLY <1>3, <3>3 DEF CheckCancel, SendClosed, SendPark, RecvPark, Park, RecvNone,
           PollNone, TakeNone, CloseChannel, Return, Exit, JoinPark, Rewind, Leave
      <4>. QED
        BY <4>1 DEF WorkersOK
    <3>. QED
      BY <3>1, <3>2, <3>3
  <2>. QED
    BY <2>1 DEF At
<1>4. CASE \/ PopPinned(w) \/ PopReady(w) \/ PopShutdown(w) \/ PopWait(w) \/ PopDeadlock(w)
           \/ Save(w) \/ Halt(w) \/ Finish(w) \/ Verdict(w) \/ Unlock(w) \/ Tally(w)
           \/ SpuriousWakeup(w)
  <2>1. wpc'[w] \in {"exec", "pop", "gone", "idle", "woken", "halt", "finish", "tally", "account",
                     "verdict", "sweep"}
    <3>1. CASE PopPinned(w) \/ PopReady(w)
      <4>1. \E f : Claim(w, f)
        BY ONLY <3>1 DEF PopPinned, PopReady
      <4>. QED
        BY <4>1 DEF Claim, WorkersOK
    <3>2. CASE PopDeadlock(w) \/ Halt(w) \/ Tally(w)
      BY <3>2 DEF PopDeadlock, Halt, Tally
    <3>3. CASE PopShutdown(w) \/ PopWait(w) \/ Save(w) \/ Unlock(w) \/ SpuriousWakeup(w)
      <4>1. \E l \in {"gone", "idle", "halt", "pop", "account", "woken"} : Goto(w, l)
        BY ONLY <3>3 DEF PopShutdown, PopWait, Save, Unlock, SpuriousWakeup
      <4>. QED
        BY <4>1 DEF WorkersOK
    <3>4. CASE Finish(w)
      BY <3>4 DEF Finish, WorkersOK
    <3>5. CASE Verdict(w)
      BY <3>5 DEF Verdict, Inv, ControlOK, Control
    <3>. QED
      BY <1>4, <3>1, <3>2, <3>3, <3>4, <3>5
  <2>. QED
    BY <2>1 DEF At
<1>. QED
  BY <1>1, <1>2, <1>3, <1>4 DEF Step, RunFiber, Schedule

\* A nursery with a member neither opens nor closes; its children stay.
LEMMA ChildrenStay ==
  ASSUME LiveInv, NEW w \in Worker, Kind(w), NEW n \in Nursery, NEW g, g \in Members(n),
         NEW f, Among(f, group[n].children)
  PROVE  Among(f, group'[n].children)
<1>1. group[n].open /\ group[n].children \in Seq(Fiber)
  BY DEF LiveInv, Census, Inv, TypeOK, GroupsOK, Group
<1>2. CASE Opens(w) \/ Closes(w)
  <2>1. CASE Opens(w)
    BY <1>1, <2>1 DEF Opens
  <2>2. CASE Closes(w)
    <3>1. PICK m \in Nursery :
            /\ m = curOpen[cur[w]] /\ group[m].live <= 0
            /\ \A k \in Nursery : k # m => group'[k] = group[k]
      BY <2>2 DEF Closes
    <3>2. m # n
      BY <3>1, ClosedEmpty DEF LiveInv
    <3>. QED
      BY <3>1, <3>2
  <2>. QED
    BY <1>2, <2>1, <2>2
<1>3. CASE Spawns(w)
  <2>1. PICK c \in Fiber, m \in Nursery :
          /\ \A k \in Nursery : k # m => group'[k] = group[k]
          /\ group'[m].children = <<c>> \o group[m].children
    BY <1>3 DEF Spawns
  <2>2. CASE m = n
    <3>1. PICK i \in DOMAIN group[n].children : group[n].children[i] = f
      BY DEF Among
    <3>2. i + 1 \in DOMAIN group'[n].children /\ group'[n].children[i + 1] = f
      <4>1. group'[n].children = <<c>> \o group[n].children
        BY <2>1, <2>2
      <4>2. ASSUME NEW q \in Seq(Fiber), i \in DOMAIN q
            PROVE  i + 1 \in DOMAIN (<<c>> \o q) /\ (<<c>> \o q)[i + 1] = q[i]
        BY ONLY <4>2
      <4>. QED
        BY <1>1, <3>1, <4>1, <4>2
    <3>. QED
      BY <3>2 DEF Among
  <2>. QED
    BY <2>1, <2>2
<1>4. CASE group'[n].children = group[n].children
  BY <1>4
<1>. QED
  BY <1>2, <1>3, <1>4 DEF Kind, Stays, Parks, Claims, Finishes, Accounts, Tallies, SameGroups

LEMMA VisitingStep ==
  ASSUME FreeInv, NEW w \in Worker, Step(w) \/ SpuriousWakeup(w), Kind(w), Beside(w), Apart(w),
         NEW v \in Worker
  PROVE  Visiting(v)'
<1>. SUFFICES ASSUME At(v)' = "unlock", NEW i \in DOMAIN todo'[v]
     PROVE  Among(todo'[v][i], group'[nursery'[cur'[v]]].children)
  BY DEF Visiting
<1>1. LiveInv /\ Inv /\ WorkersOK /\ FibersOK /\ Visiting(v)
  BY DEF FreeInv, LiveInv, Inv, TypeOK
<1>2. CASE v # w
  <2>1. todo'[v] = todo[v]
    <3>1. todo' = todo \/ \E t : todo' = [todo EXCEPT ![w] = t]
      <4>1. CASE RunFiber(w)
        BY ONLY <4>1 DEF RunFiber, CheckCancel, SendClosed, SendPark, SendPut, RecvPark, RecvValue,
           RecvNone, PollValue, PollNone, TakeValue, TakeNone, CloseChannel, WalkChain, Requeue,
           Push, Loop, Return, Exit, Open, Spawn, JoinPark, Rewind, JoinDone, RequeueThen, localVars
      <4>2. CASE Schedule(w) \/ SpuriousWakeup(w)
        BY ONLY <4>2 DEF Schedule, PopPinned, PopReady, PopShutdown, PopWait, PopDeadlock, Save,
           Halt, Finish, Verdict, Sweep, Unlock, Account, Tally, SpuriousWakeup, RequeueThen,
           localVars
      <4>. QED
        BY <4>1, <4>2 DEF Step
    <3>. QED
      BY <1>1, <1>2, <3>1 DEF WorkersOK
  <2>2. At(v) = "unlock" /\ cur'[v] = cur[v]
    BY <1>2 DEF Beside, Stage, Uncounted
  <2>3. /\ nursery[cur[v]] \in Nursery /\ cur[v] \in Members(nursery[cur[v]])
        /\ fstate[cur[v]] = "done" /\ cur[v] \in Fiber
    BY <1>1, <2>2, LeaversCounted DEF Uncounted, LiveInv, Engagement, Engaged, Stage, WorkersOK
  <2>4. nursery'[cur[v]] = nursery[cur[v]]
    BY <1>1, <2>3 DEF Kind, Stays, Parks, Claims, Finishes, Accounts, Tallies, Opens, Spawns,
       Closes, FibersOK
  <2>5. Among(todo[v][i], group[nursery[cur[v]]].children)
    BY <1>1, <2>1, <2>2 DEF Visiting
  <2>. QED
    BY <1>1, <2>1, <2>2, <2>3, <2>4, <2>5, ChildrenStay
<1>3. CASE v = w /\ Sweep(w)
  <2>1. /\ todo' = [todo EXCEPT ![w] = group[nursery[cur[w]]].children]
        /\ UNCHANGED <<cur, nursery, group>>
    BY <1>3 DEF Sweep, RequeueThen, fiberVars
  <2>. QED
    BY <1>1, <1>3, <2>1 DEF Among, WorkersOK
<1>4. CASE v = w /\ ~Sweep(w)
  <2>1. /\ At(w) = "unlock" /\ UNCHANGED <<cur, nursery, group>>
        /\ todo' = todo \/ (todo[w] # <<>> /\ todo' = [todo EXCEPT ![w] = Tail(@)])
    BY <1>1, <1>4, SweepArrives
  <2>2. todo[w] \in Seq(Fiber)
    BY <1>1 DEF WorkersOK
  <2>3. \E j \in DOMAIN todo[w] : todo'[v][i] = todo[w][j]
    <3>1. CASE todo' = todo
      BY <1>4, <3>1
    <3>2. CASE todo[w] # <<>> /\ todo'[w] = Tail(todo[w])
      BY <1>4, <2>2, <3>2
    <3>. QED
      BY <1>1, <2>1, <3>1, <3>2 DEF WorkersOK
  <2>. QED
    BY <1>1, <1>4, <2>1, <2>3 DEF Visiting
<1>. QED
  BY <1>2, <1>3, <1>4

LEMMA FreeInvariant == Spec => ([]MainStays => []FreeInv)
<1>1. Init => FreeInv
  <2>. SUFFICES ASSUME Init PROVE FreeInv
    OBVIOUS
  <2>1. freed = {} /\ \A w \in Worker : At(w) \in {"exec", "pop", "off"}
    BY DEF Init, At
  <2>. QED
    BY <2>1, LiveInit DEF FreeInv, ChildrenKept, Visiting
<1>2. FreeInv /\ MainStays /\ [Next]_vars => FreeInv'
  <2>. SUFFICES ASSUME FreeInv, MainStays, [Next]_vars PROVE FreeInv'
    OBVIOUS
  <2>1. LiveInv'
    BY LiveStep DEF FreeInv
  <2>2. CASE UNCHANGED vars
    BY <2>1, <2>2 DEF FreeInv, ChildrenKept, Visiting, At, vars, fiberVars, groupVars, localVars
  <2>3. ASSUME NEW w \in Started, Step(w) \/ SpuriousWakeup(w)
        PROVE  FreeInv'
    <3>1. w \in Worker
      BY SchedulerAssumption DEF SchedulerAssumption
    <3>2. Kind(w) /\ Beside(w) /\ Apart(w)
      BY <2>3, <3>1, KindStep, ApartStep, BesideStep DEF FreeInv, LiveInv
    <3>. QED
      BY <2>1, <2>3, <3>1, <3>2, ChildrenKeptStep, VisitingStep DEF FreeInv
  <2>. QED
    BY <2>2, <2>3 DEF Next
<1>. QED
  BY <1>1, <1>2, PTL DEF Spec

\* A nursery's children and the nursery itself are freed only after each child is out of
\* finish_child, and never while a cancel sweep has one of them still to visit, for any pool and
\* any scripts, failures and cancels included, in the same programs.
THEOREM FreedAfterLastFinish == Spec => ([]MainStays => []FreedAfterFinish)
<1>1. FreeInv => FreedAfterFinish
  <2>. SUFFICES ASSUME FreeInv, NEW w \in Worker
       PROVE  /\ At(w) \in {"exec", "enter", "chain", "halt", "finish"} \cup Uncounted =>
                   cur[w] \notin freed
              /\ At(w) \in Uncounted => group[nursery[cur[w]]].open
              /\ At(w) = "unlock" => \A i \in DOMAIN todo[w] : todo[w][i] \notin freed
    BY DEF FreedAfterFinish
  <2>1. CASE At(w) \in {"exec", "enter", "chain", "halt", "finish"}
    BY <2>1 DEF FreeInv, LiveInv, Histories, Engagement, Engaged, Stage, Uncounted
  <2>2. CASE At(w) \in Uncounted
    <3>1. group[nursery[cur[w]]].open /\ nursery[cur[w]] \in Nursery
      BY <2>2, LeaversCounted DEF FreeInv
    <3>2. cur[w] \notin freed
      BY <2>2 DEF FreeInv, LiveInv, Histories, Stage, Uncounted
    <3>3. At(w) = "unlock" => \A i \in DOMAIN todo[w] : todo[w][i] \notin freed
      BY <3>1 DEF FreeInv, ChildrenKept, Visiting
    <3>. QED
      BY <3>1, <3>2, <3>3
  <2>. QED
    BY <2>1, <2>2 DEF Uncounted
<1>. QED
  BY FreeInvariant, <1>1, PTL

\* No fiber is run by one worker while another has not yet saved its last run.
SavedFirst == \A v, w \in Worker :
  wpc[v] \in {"rewind", "save"} /\ Stage(w) = "runs" => cur[v] # cur[w]

\* A fiber whose last run is not saved is parked, or woken and not yet claimed.
Unsaved == \A w \in Worker :
  wpc[w] \in {"rewind", "save"} => fstate[cur[w]] \in {"parked", "ready"}

\* Who comes to be within an operation, to go back to a brace, or to finish.
LEMMA Arrivals ==
  ASSUME Inv, NEW w \in Worker, Step(w) \/ SpuriousWakeup(w),
         wpc'[w] \in {"enter", "rewind", "halt", "finish"}
  PROVE  \/ CheckCancel(w) \/ SendClosed(w) \/ Loop(w) \/ Return(w) \/ Exit(w) \/ JoinDone(w)
         \/ Save(w) \/ Halt(w) \/ JoinPark(w)
<1>. WorkersOK
  BY DEF Inv, TypeOK
<1>. USE DEF Goto
<1>1. CASE \/ SendPark(w) \/ RecvPark(w) \/ RecvNone(w) \/ PollNone(w) \/ CloseChannel(w)
           \/ Rewind(w) \/ PopShutdown(w) \/ PopWait(w) \/ SpuriousWakeup(w) \/ Unlock(w)
  <2>1. \E l \in {"save", "exec", "chain", "gone", "idle", "woken", "account"} :
          wpc' = [wpc EXCEPT ![w] = l]
    BY ONLY <1>1 DEF SendPark, RecvPark, Park, RecvNone, PollNone, TakeNone, CloseChannel, Rewind,
       PopShutdown, PopWait, SpuriousWakeup, Unlock, Goto
  <2>. QED
    BY <2>1 DEF WorkersOK
<1>2. CASE Open(w)
  <2>1. wpc'[w] = "exec"
    BY <1>2 DEF Open, Executing
  <2>. QED
    BY <2>1
<1>3. CASE SendPut(w) \/ RecvValue(w) \/ PollValue(w) \/ WalkChain(w) \/ Sweep(w) \/ Account(w)
  <2>1. \E l \in {"exec", "wake", "chain", "unlock", "tally"} : wpc' = [wpc EXCEPT ![w] = l]
    BY ONLY <1>3 DEF SendPut, RecvValue, PollValue, TakeValue, WalkChain, Sweep, Account,
       RequeueThen, Goto
  <2>. QED
    BY <2>1 DEF WorkersOK
<1>4. CASE Requeue(w) \/ Push(w)
  <2>1. wpc'[w] \in {"push", "wake", then[w]}
    <3>1. CASE Requeue(w)
      BY <3>1 DEF Requeue, Next1, WorkersOK
    <3>2. CASE Push(w)
      <4>1. PICK s : GotoWaking(w, Next1(w), s)
        BY <3>2 DEF Push
      <4>. QED
        BY <4>1 DEF GotoWaking, Next1
    <3>. QED
      BY <1>4, <3>1, <3>2
  <2>. QED
    BY <2>1 DEF WorkersOK
<1>5. CASE Spawn(w)
  <2>1. PICK s : GotoWaking(w, "exec", s)
    BY <1>5 DEF Spawn
  <2>. QED
    BY <2>1 DEF GotoWaking
<1>6. CASE Tally(w) \/ PopDeadlock(w)
  <2>1. \E s : \E l \in {"gone", "pop"} : GotoWaking(w, l, s)
    BY ONLY <1>6 DEF Tally, PopDeadlock
  <2>. QED
    BY <2>1 DEF GotoWaking
<1>7. CASE PopPinned(w) \/ PopReady(w)
  <2>1. \E l \in {"exec", "pop"} : wpc' = [wpc EXCEPT ![w] = l]
    BY ONLY <1>7 DEF PopPinned, PopReady, Claim, Goto
  <2>. QED
    BY <2>1 DEF WorkersOK
<1>8. CASE Finish(w)
  <2>1. \E l \in {"tally", "account", "verdict"} : wpc' = [wpc EXCEPT ![w] = l]
    BY ONLY <1>8 DEF Finish, Goto
  <2>. QED
    BY <2>1 DEF WorkersOK
<1>9. CASE Verdict(w)
  <2>1. wpc' = [wpc EXCEPT ![w] = then[w]]
    BY <1>9 DEF Verdict
  <2>. QED
    BY <2>1 DEF WorkersOK
<1>. QED
  BY ONLY <1>1, <1>2, <1>3, <1>4, <1>5, <1>6, <1>7, <1>8, <1>9, Step(w) \/ SpuriousWakeup(w)
     DEF Step, RunFiber, Schedule

LEMMA RewindArrives ==
  ASSUME Inv, NEW w \in Worker, Step(w) \/ SpuriousWakeup(w), wpc'[w] = "rewind"
  PROVE  JoinPark(w)
<1>. WorkersOK
  BY DEF Inv, TypeOK
<1>1. ~(\/ CheckCancel(w) \/ SendClosed(w) \/ Loop(w) \/ Return(w) \/ Exit(w) \/ JoinDone(w)
        \/ Save(w) \/ Halt(w))
  <2>1. CASE \/ CheckCancel(w) \/ SendClosed(w) \/ Return(w) \/ Exit(w) \/ Save(w)
    <3>1. \E l \in {"enter", "halt", "finish", "pop"} : Goto(w, l)
      BY ONLY <2>1 DEF CheckCancel, SendClosed, Return, Exit, Save, Leave
    <3>. QED
      BY <3>1 DEF Goto, WorkersOK
  <2>2. CASE Loop(w) \/ JoinDone(w)
    <3>1. wpc[w] = "exec" /\ (wpc' = wpc \/ \E r : Leave(w, r))
      BY ONLY <2>2 DEF Loop, JoinDone, Executing
    <3>. QED
      BY <3>1 DEF Leave, Goto, WorkersOK
  <2>3. CASE Halt(w)
    BY <2>3 DEF Halt, GotoWaking
  <2>. QED
    BY <2>1, <2>2, <2>3
<1>. QED
  BY <1>1, Arrivals

\* A worker comes to rewind or to save by parking its fiber.
LEMMA SaveArrives ==
  ASSUME Inv, NEW w \in Worker, Step(w) \/ SpuriousWakeup(w),
         wpc'[w] \in {"rewind", "save"}, wpc[w] \notin {"rewind", "save"}
  PROVE  SendPark(w) \/ RecvPark(w) \/ JoinPark(w)
<1>. WorkersOK
  BY DEF Inv, TypeOK
<1>. USE DEF Goto
<1>1. CASE wpc'[w] = "rewind"
  BY <1>1, RewindArrives
<1>2. CASE wpc'[w] = "save"
  <2>1. ~(\/ CheckCancel(w) \/ SendClosed(w) \/ Return(w) \/ Exit(w) \/ Save(w) \/ RecvNone(w)
          \/ PollNone(w) \/ CloseChannel(w) \/ PopShutdown(w) \/ PopWait(w) \/ SpuriousWakeup(w)
          \/ Unlock(w) \/ Finish(w))
    <3>1. CASE \/ CheckCancel(w) \/ SendClosed(w) \/ Return(w) \/ Exit(w) \/ Save(w) \/ RecvNone(w)
               \/ PollNone(w) \/ CloseChannel(w) \/ PopShutdown(w) \/ PopWait(w)
               \/ SpuriousWakeup(w) \/ Unlock(w) \/ Finish(w)
      <4>1. \E l \in {"enter", "halt", "finish", "pop", "exec", "chain", "gone", "idle", "woken",
                      "account", "tally", "verdict"} : wpc' = [wpc EXCEPT ![w] = l]
        BY ONLY <3>1 DEF CheckCancel, SendClosed, Return, Exit, Save, RecvNone, PollNone, TakeNone,
           CloseChannel, PopShutdown, PopWait, SpuriousWakeup, Unlock, Finish, Leave, Goto
      <4>. QED
        BY <1>2, <4>1 DEF WorkersOK
    <3>. QED
      BY <3>1
  <2>2. ~(Loop(w) \/ Open(w) \/ JoinDone(w) \/ Rewind(w))
    <3>1. CASE Loop(w) \/ Open(w) \/ JoinDone(w)
      <4>1. wpc[w] = "exec" /\ (wpc' = wpc \/ \E r : Leave(w, r))
        BY ONLY <3>1 DEF Loop, Open, JoinDone, Executing, localVars
      <4>. QED
        BY <1>2, <4>1 DEF Leave, WorkersOK
    <3>2. CASE Rewind(w)
      BY <3>2 DEF Rewind
    <3>. QED
      BY <3>1, <3>2
  <2>3. ~(SendPut(w) \/ RecvValue(w) \/ PollValue(w) \/ WalkChain(w) \/ Sweep(w) \/ Account(w))
    <3>1. CASE SendPut(w) \/ RecvValue(w) \/ PollValue(w) \/ WalkChain(w) \/ Sweep(w) \/ Account(w)
      <4>1. \E l \in {"exec", "wake", "chain", "unlock", "tally"} : wpc' = [wpc EXCEPT ![w] = l]
        BY ONLY <3>1 DEF SendPut, RecvValue, PollValue, TakeValue, WalkChain, Sweep, Account,
           RequeueThen, Goto
      <4>. QED
        BY <1>2, <4>1 DEF WorkersOK
    <3>. QED
      BY <3>1
  <2>4. ~(Requeue(w) \/ Push(w) \/ Verdict(w))
    <3>1. then[w] # "save"
      BY DEF WorkersOK
    <3>2. Requeue(w) => wpc'[w] \in {"push", "wake", then[w]}
      BY DEF Requeue, Next1, WorkersOK, Goto
    <3>3. Push(w) => wpc'[w] \in {"wake", then[w]}
      <4>1. ASSUME NEW s, GotoWaking(w, Next1(w), s) PROVE wpc'[w] \in {"wake", then[w]}
        BY <4>1 DEF GotoWaking, Next1
      <4>. QED
        BY <4>1 DEF Push
    <3>4. Verdict(w) => wpc'[w] = then[w]
      BY DEF Verdict, WorkersOK
    <3>. QED
      BY <1>2, <3>1, <3>2, <3>3, <3>4
  <2>5. ~(Spawn(w) \/ Tally(w) \/ PopDeadlock(w) \/ Halt(w) \/ PopPinned(w) \/ PopReady(w))
    <3>1. CASE Spawn(w) \/ Tally(w) \/ PopDeadlock(w) \/ Halt(w)
      <4>1. \E s : \E l \in {"exec", "gone", "pop", "finish"} : GotoWaking(w, l, s)
        BY ONLY <3>1 DEF Spawn, Tally, PopDeadlock, Halt
      <4>. QED
        BY <1>2, <4>1 DEF GotoWaking
    <3>2. CASE PopPinned(w) \/ PopReady(w)
      <4>1. \E l \in {"exec", "pop"} : wpc' = [wpc EXCEPT ![w] = l]
        BY ONLY <3>2 DEF PopPinned, PopReady, Claim, Goto
      <4>. QED
        BY <1>2, <4>1 DEF WorkersOK
    <3>. QED
      BY <3>1, <3>2
  <2>. QED
    BY ONLY <2>1, <2>2, <2>3, <2>4, <2>5, Step(w) \/ SpuriousWakeup(w) DEF Step, RunFiber, Schedule
<1>. QED
  BY <1>1, <1>2

LEMMA UnsavedStep ==
  ASSUME LiveInv, Unsaved, SavedFirst', NEW w \in Worker, Step(w) \/ SpuriousWakeup(w), Kind(w),
         Apart(w)
  PROVE  Unsaved'
<1>1. WorkersOK /\ FibersOK /\ Inv /\ (Stage(w) = "runs" => fstate[cur[w]] = "running")
  BY DEF LiveInv, Inv, TypeOK, Engagement, Engaged
<1>2. ASSUME NEW v \in Worker, wpc[v] \in {"rewind", "save"}, wpc'[v] \in {"rewind", "save"},
             cur'[v] = cur[v]
      PROVE  fstate'[cur'[v]] \in {"parked", "ready"}
  <2>1. fstate[cur[v]] \in {"parked", "ready"} /\ cur[v] \in Fiber
    BY <1>1, <1>2 DEF Unsaved, WorkersOK
  <2>2. CASE Claims(w)
    <3>1. cur'[w] # cur[v]
      BY <1>2, <2>2 DEF Claims, SavedFirst
    <3>. QED
      BY <1>1, <1>2, <2>1, <2>2, <3>1 DEF Claims, FibersOK, WorkersOK
  <2>3. CASE Finishes(w) \/ Parks(w)
    BY <1>1, <1>2, <2>1, <2>3 DEF Finishes, Parks, FibersOK
  <2>4. CASE Stays(w) \/ Accounts(w) \/ Tallies(w) \/ Opens(w) \/ Spawns(w) \/ Closes(w)
    <3>1. fstate' = fstate \/ \E c \in Fiber : fstate' = [fstate EXCEPT ![c] = "ready"]
      BY ONLY <2>4 DEF Stays, Accounts, Tallies, Opens, Spawns, Closes
    <3>. QED
      BY <1>1, <1>2, <2>1, <3>1 DEF FibersOK
  <2>. QED
    BY <2>2, <2>3, <2>4 DEF Kind
<1>3. ASSUME wpc'[w] \in {"rewind", "save"}, wpc[w] \notin {"rewind", "save"}
      PROVE  fstate'[cur'[w]] \in {"parked", "ready"}
  <2>1. SendPark(w) \/ RecvPark(w) \/ JoinPark(w)
    BY <1>1, <1>3, SaveArrives
  <2>2. cur' = cur /\ fstate' = [fstate EXCEPT ![cur[w]] = "parked"]
    BY <2>1 DEF SendPark, RecvPark, Park, JoinPark, localVars
  <2>. QED
    BY <1>1, <2>2 DEF FibersOK, WorkersOK
<1>4. ASSUME wpc'[w] \in {"rewind", "save"}, wpc[w] \in {"rewind", "save"}
      PROVE  cur'[w] = cur[w]
  BY <1>4 DEF Step, RunFiber, Schedule, SpuriousWakeup, CheckCancel, SendClosed, SendPark,
     SendPut, RecvPark, RecvValue, RecvNone, PollValue, PollNone, CloseChannel, WalkChain, Requeue,
     Push, Loop, Return, Exit, Open, Spawn, JoinPark, Rewind, JoinDone, PopPinned, PopReady,
     PopShutdown, PopWait, PopDeadlock, Save, Halt, Finish, Verdict, Sweep, Unlock, Account, Tally,
     Executing, Entered, InPop, NothingToPop, localVars
<1>. QED
  BY <1>2, <1>3, <1>4 DEF Unsaved, Apart

\* Where no fiber is run before its last run is saved, none is freed before its worker's last
\* access to it, its rewind and its save included.
THEOREM FreedAfterLastUse == Spec => ([]MainStays /\ []SavedFirst => []FreedAfterUse)
<1>1. LiveInv /\ Unsaved => FreedAfterUse
  <2>. SUFFICES ASSUME LiveInv, Unsaved, NEW w \in Worker,
                       At(w) \in {"exec", "enter", "chain", "rewind", "save", "halt", "finish"}
                                   \cup Uncounted
       PROVE  cur[w] \notin freed
    BY DEF FreedAfterUse
  <2>1. CASE At(w) \in {"rewind", "save"}
    <3>1. wpc[w] \in {"rewind", "save"}
      BY <2>1 DEF At, LiveInv, Inv, ControlOK, Control
    <3>. QED
      BY <3>1 DEF Unsaved, LiveInv, Histories
  <2>2. CASE At(w) \notin {"rewind", "save"}
    BY <2>2 DEF LiveInv, Histories, Engagement, Engaged, Stage, Uncounted
  <2>. QED
    BY <2>1, <2>2
<1>2. Init => Unsaved
  BY DEF Init, Unsaved
<1>3. LiveInv /\ Unsaved /\ SavedFirst' /\ [Next]_vars => Unsaved'
  <2>. SUFFICES ASSUME LiveInv, Unsaved, SavedFirst', [Next]_vars PROVE Unsaved'
    OBVIOUS
  <2>1. CASE UNCHANGED vars
    BY <2>1 DEF Unsaved, vars, fiberVars, localVars
  <2>2. ASSUME NEW w \in Started, Step(w) \/ SpuriousWakeup(w)
        PROVE  Unsaved'
    <3>1. w \in Worker
      BY SchedulerAssumption DEF SchedulerAssumption
    <3>2. Kind(w) /\ Apart(w)
      BY <2>2, <3>1, KindStep, ApartStep DEF LiveInv
    <3>. QED
      BY <2>2, <3>1, <3>2, UnsavedStep
  <2>. QED
    BY <2>1, <2>2 DEF Next
<1>. QED
  BY LiveInvariant, <1>1, <1>2, <1>3, PTL DEF Spec

-----------------------------------------------------------------------------
(* Where a fiber waits *)

\* No group is cancelled: no task has failed.
NoCancel == \A n \in Nursery : ~group[n].cancel

\* A fiber that is parked is on a channel's FIFO, in the chain of a close, in the hands of
\* a waker, or the parent of a nursery that is to wake it; one that is ready is in the
\* hands of a waker, in the ready-queue or in the pinned slot.  The model's variables do
\* not name the place of a fiber: at[f] does, with the channel, worker or nursery that
\* place belongs to, and the rank of f in its list.
Asleep == {"recv", "send", "chain", "wake", "join"}
Awake  == {"push", "queue", "pinned"}
Hands  == {"wake", "push"}

Map == [Fiber -> [spot : Asleep \cup Awake \cup {"none"},
                  own : Channel \cup Worker \cup Nursery \cup {NoFiber}, pos : Int]]

\* How a fiber's place goes with its state; the main fiber is never in the ready-queue.
Standing(at) == \A f \in Fiber :
  /\ fstate[f] = "parked" <=> at[f].spot \in Asleep
  /\ fstate[f] = "ready" <=> at[f].spot \in Awake
  /\ at[f].spot = "queue" => f # Main

\* The FIFOs hold the fibers whose place they are, each once.
Fifo(q, c, s, at) ==
  /\ \A i \in DOMAIN q : at[q[i]].spot = s /\ at[q[i]].own = c
  /\ \A i, j \in DOMAIN q : q[i] = q[j] => i = j
  /\ \A f \in Fiber : at[f].spot = s /\ at[f].own = c => \E i \in DOMAIN q : q[i] = f
Waiting(at) ==
  /\ \A c \in Channel : Fifo(recvq[c], c, "recv", at) /\ Fifo(sendq[c], c, "send", at)
  /\ \A f \in Fiber : at[f].spot \in {"recv", "send"} => at[f].own \in Channel

\* A waker has one fiber in its hands.
Handled(at) ==
  /\ \A w \in Worker : wpc[w] \in Hands =>
       Len(todo[w]) = 1 /\ at[todo[w][1]].spot = wpc[w] /\ at[todo[w][1]].own = w
  /\ \A f \in Fiber : at[f].spot \in Hands =>
       /\ at[f].own \in Worker /\ wpc[at[f].own] = at[f].spot
       /\ todo[at[f].own][1] = f

\* A nursery with a parked parent is open, has children to wait for, and is the parent's.
Joining(at) ==
  /\ \A n \in Nursery : group[n].parentParked =>
       /\ group[n].open /\ group[n].live >= 1
       /\ at[group[n].parent].spot = "join" /\ at[group[n].parent].own = n
  /\ \A f \in Fiber : at[f].spot = "join" =>
       /\ at[f].own \in Nursery /\ curOpen[f] = at[f].own
       /\ group[at[f].own].parentParked /\ group[at[f].own].parent = f

\* The fibers of M are those linked from h on, in the order of their ranks.
List(h, M, at) ==
  /\ h = NoFiber => M = {}
  /\ h # NoFiber => h \in M /\ \A f \in M : at[h].pos <= at[f].pos
  /\ \A f \in M : \/ qnext[f] \in M /\ at[qnext[f]].pos = at[f].pos + 1
                  \/ qnext[f] = NoFiber /\ \A g \in M : at[g].pos <= at[f].pos
  /\ \A f, g \in M : at[f].pos = at[g].pos => f = g

InChain(w, at) == {f \in Fiber : at[f].spot = "chain" /\ at[f].own = w}
InQueue(at) == {f \in Fiber : at[f].spot = "queue"}

Chained(at) ==
  /\ \A w \in Worker : /\ List(chain[w], InChain(w, at), at)
                       /\ At(w) # "chain" => chain[w] = NoFiber
  /\ \A f \in Fiber : at[f].spot = "chain" => at[f].own \in Worker

Queued(at) ==
  /\ List(head, InQueue(at), at)
  /\ head = NoFiber => tail = NoFiber
  /\ head # NoFiber => tail \in InQueue(at) /\ qnext[tail] = NoFiber
  /\ IsFiniteSet(InQueue(at)) /\ nready = Cardinality(InQueue(at))

Slot(at) == \A f \in Fiber : at[f].spot = "pinned" <=> pinned = f

PlacesOK(at) == /\ Standing(at) /\ Waiting(at) /\ Handled(at) /\ Joining(at)
                /\ Chained(at) /\ Queued(at) /\ Slot(at)
Placed == \E at \in Map : PlacesOK(at)

\* Nobody sweeps, as no group has been cancelled.
Calm == \A w \in Worker : At(w) \notin {"verdict", "sweep", "unlock"}

-----------------------------------------------------------------------------
(* What leaves the places of a part of the fibers alone *)

\* at and new have the same fibers at the places of S, in the same order.
Agree(S, at, new) == \A f \in Fiber : at[f].spot \in S \/ new[f].spot \in S => new[f] = at[f]

SameStates == \A f \in Fiber : fstate'[f] = fstate[f]
                               \/ {fstate[f], fstate'[f]} \cap {"parked", "ready"} = {}
SameHands == \A w \in Worker : wpc[w] \in Hands \/ wpc'[w] \in Hands =>
                                 wpc'[w] = wpc[w] /\ todo'[w] = todo[w]
SameParents ==
  /\ \A n \in Nursery : /\ group'[n].parentParked = group[n].parentParked
                        /\ group[n].parentParked =>
                             /\ group'[n].parent = group[n].parent
                             /\ group'[n].live >= 1 /\ group'[n].open
  /\ \A f \in Fiber : fstate[f] = "parked" => curOpen'[f] = curOpen[f]
SameChains == \A w \in Worker : /\ chain'[w] = chain[w]
                                /\ At(w)' = "chain" \/ At(w) # "chain" \/ chain[w] = NoFiber

LEMMA WaitingFrame ==
  ASSUME Inv, NEW at \in Map, NEW new \in Map, Waiting(at), Agree({"recv", "send"}, at, new),
         UNCHANGED <<recvq, sendq>>
  PROVE  Waiting(new)'
<1>1. \A c \in Channel : recvq[c] \in Seq(Fiber) /\ sendq[c] \in Seq(Fiber)
  BY DEF Inv, TypeOK, ChannelsOK
<1>2. ASSUME NEW s \in {"recv", "send"}, NEW c \in Channel, NEW q \in Seq(Fiber), Fifo(q, c, s, at)
      PROVE  Fifo(q, c, s, new)
  <2>1. \A i \in DOMAIN q : q[i] \in Fiber
    OBVIOUS
  <2>. QED
    BY <1>2, <2>1 DEF Fifo, Agree
<1>3. ASSUME NEW c \in Channel
      PROVE  Fifo(recvq[c], c, "recv", new)' /\ Fifo(sendq[c], c, "send", new)'
  <2>1. Fifo(recvq[c], c, "recv", new) /\ Fifo(sendq[c], c, "send", new)
    BY <1>1, <1>2 DEF Waiting
  <2>. QED
    BY <2>1 DEF Fifo
<1>4. \A f \in Fiber : new[f].spot \in {"recv", "send"} => new[f].own \in Channel
  BY DEF Waiting, Agree
<1>. QED
  BY <1>3, <1>4 DEF Waiting

LEMMA HandledFrame ==
  ASSUME Inv, NEW at \in Map, NEW new \in Map, Handled(at), Agree(Hands, at, new), SameHands
  PROVE  Handled(new)'
<1>1. ASSUME NEW w \in Worker, wpc'[w] \in Hands
      PROVE  Len(todo'[w]) = 1 /\ new[todo'[w][1]].spot = wpc'[w] /\ new[todo'[w][1]].own = w
  <2>1. wpc[w] \in Hands /\ wpc'[w] = wpc[w] /\ todo'[w] = todo[w]
    BY <1>1 DEF SameHands
  <2>2. Len(todo[w]) = 1 /\ at[todo[w][1]].spot = wpc[w] /\ at[todo[w][1]].own = w
    BY <2>1 DEF Handled
  <2>3. todo[w] \in Seq(Fiber)
    BY DEF Inv, TypeOK, WorkersOK
  <2>4. todo[w][1] \in Fiber
    BY <2>2, <2>3
  <2>. QED
    BY <2>1, <2>2, <2>4 DEF Agree
<1>2. ASSUME NEW f \in Fiber, new[f].spot \in Hands
      PROVE  /\ new[f].own \in Worker /\ wpc'[new[f].own] = new[f].spot
             /\ todo'[new[f].own][1] = f
  <2>1. new[f] = at[f]
    BY <1>2 DEF Agree
  <2>2. at[f].own \in Worker /\ wpc[at[f].own] = at[f].spot /\ todo[at[f].own][1] = f
    BY <1>2, <2>1 DEF Handled
  <2>. QED
    BY <1>2, <2>1, <2>2 DEF SameHands
<1>. QED
  BY <1>1, <1>2 DEF Handled

LEMMA JoiningFrame ==
  ASSUME Inv, NEW at \in Map, NEW new \in Map, Standing(at), Joining(at),
         Agree({"join"}, at, new), SameParents
  PROVE  Joining(new)'
<1>1. ASSUME NEW n \in Nursery, group'[n].parentParked
      PROVE  /\ group'[n].open /\ group'[n].live >= 1
             /\ new[group'[n].parent].spot = "join" /\ new[group'[n].parent].own = n
  <2>1. group[n].parentParked /\ group'[n].parent = group[n].parent
        /\ group'[n].live >= 1 /\ group'[n].open
    BY <1>1 DEF SameParents
  <2>2. at[group[n].parent].spot = "join" /\ at[group[n].parent].own = n
    BY <2>1 DEF Joining
  <2>3. group[n].parent \in Fiber
    BY <2>1 DEF Inv, TypeOK, GroupsOK, Group, ControlOK
  <2>. QED
    BY <2>1, <2>2, <2>3 DEF Agree
<1>2. ASSUME NEW f \in Fiber, new[f].spot = "join"
      PROVE  /\ new[f].own \in Nursery /\ curOpen'[f] = new[f].own
             /\ group'[new[f].own].parentParked /\ group'[new[f].own].parent = f
  <2>1. new[f] = at[f]
    BY <1>2 DEF Agree
  <2>2. /\ at[f].own \in Nursery /\ curOpen[f] = at[f].own /\ fstate[f] = "parked"
        /\ group[at[f].own].parentParked /\ group[at[f].own].parent = f
    BY <1>2, <2>1 DEF Joining, Standing, Asleep
  <2>. QED
    BY <2>1, <2>2 DEF SameParents
<1>. QED
  BY <1>1, <1>2 DEF Joining

LEMMA ListFrame ==
  ASSUME NEW at, NEW new, NEW h, NEW M, List(h, M, at),
         \A f \in M : new[f] = at[f] /\ qnext'[f] = qnext[f]
  PROVE  /\ h = NoFiber => M = {}
         /\ h # NoFiber => h \in M /\ \A f \in M : new[h].pos <= new[f].pos
         /\ \A f \in M : \/ qnext'[f] \in M /\ new[qnext'[f]].pos = new[f].pos + 1
                         \/ qnext'[f] = NoFiber /\ \A g \in M : new[g].pos <= new[f].pos
         /\ \A f, g \in M : new[f].pos = new[g].pos => f = g
  BY DEF List

LEMMA ChainedFrame ==
  ASSUME Inv, NEW at \in Map, NEW new \in Map, Standing(at), Chained(at),
         Agree({"chain"}, at, new), SameChains,
         \A f \in Fiber : at[f].spot = "chain" => qnext'[f] = qnext[f]
  PROVE  Chained(new)'
<1>1. ASSUME NEW w \in Worker
      PROVE  List(chain[w], InChain(w, new), new)' /\ (At(w)' # "chain" => chain'[w] = NoFiber)
  <2>1. InChain(w, new) = InChain(w, at)
    BY DEF InChain, Agree
  <2>2. \A f \in InChain(w, at) : new[f] = at[f] /\ qnext'[f] = qnext[f]
    BY DEF InChain, Agree
  <2>3. chain'[w] = chain[w]
    BY DEF SameChains
  <2>4. List(chain[w], InChain(w, at), at)
    BY DEF Chained
  <2>5. PICK h, M : h = chain[w] /\ M = InChain(w, at)
    OBVIOUS
  <2>6. List(h, M, new)'
    BY ONLY <2>2, <2>4, <2>5, ListFrame DEF List
  <2>7. chain'[w] = h /\ InChain(w, new)' = M
    BY <2>1, <2>3, <2>5 DEF InChain
  <2>8. List(chain[w], InChain(w, new), new)'
    BY ONLY <2>6, <2>7 DEF List
  <2>9. At(w)' # "chain" => chain'[w] = NoFiber
    BY DEF Chained, SameChains
  <2>. QED
    BY <2>8, <2>9
<1>2. \A f \in Fiber : new[f].spot = "chain" => new[f].own \in Worker
  BY DEF Chained, Agree
<1>. QED
  BY <1>1, <1>2 DEF Chained

LEMMA QueuedFrame ==
  ASSUME Inv, NEW at \in Map, NEW new \in Map, Standing(at), Queued(at),
         Agree({"queue"}, at, new), UNCHANGED <<head, tail, nready>>,
         \A f \in Fiber : at[f].spot = "queue" => qnext'[f] = qnext[f]
  PROVE  Queued(new)'
<1>1. InQueue(new) = InQueue(at)
  BY DEF InQueue, Agree
<1>2. \A f \in InQueue(at) : new[f] = at[f] /\ qnext'[f] = qnext[f]
  BY DEF InQueue, Agree
<1>3. List(head, InQueue(at), at)
  BY DEF Queued
<1>4. PICK h, M : h = head /\ M = InQueue(at)
  OBVIOUS
<1>5. List(h, M, new)'
  BY ONLY <1>2, <1>3, <1>4, ListFrame DEF List
<1>6. head' = h /\ InQueue(new)' = M
  BY <1>1, <1>4 DEF InQueue
<1>7. List(head, InQueue(new), new)'
  BY ONLY <1>5, <1>6 DEF List
<1>8. head' # NoFiber => tail' \in InQueue(at) /\ qnext'[tail'] = NoFiber
  BY <1>2 DEF Queued
<1>. QED
  BY <1>4, <1>6, <1>7, <1>8 DEF Queued

LEMMA SlotFrame ==
  ASSUME NEW at \in Map, NEW new \in Map, Slot(at), Agree({"pinned"}, at, new), pinned' = pinned
  PROVE  Slot(new)'
  BY DEF Slot, Agree

-----------------------------------------------------------------------------
(* What moves one fiber from a place to another *)

\* Only f has another place.
Moves(f, at, new) == \A g \in Fiber \ {f} : new[g] = at[g]

LEMMA MoveMap ==
  ASSUME NEW at \in Map, NEW f \in Fiber, NEW s \in Asleep \cup Awake \cup {"none"},
         NEW o \in Channel \cup Worker \cup Nursery \cup {NoFiber}, NEW p \in Int
  PROVE  \E new \in Map : new[f] = [spot |-> s, own |-> o, pos |-> p] /\ Moves(f, at, new)
<1>1. PICK new : new = [at EXCEPT ![f] = [spot |-> s, own |-> o, pos |-> p]]
  OBVIOUS
<1>2. new \in Map /\ new[f] = [spot |-> s, own |-> o, pos |-> p]
  BY <1>1 DEF Map
<1>3. \A g \in Fiber \ {f} : new[g] = at[g]
  BY <1>1 DEF Map
<1>. QED
  BY <1>2, <1>3 DEF Moves

\* The rank after the tail's.
LEMMA NextRank ==
  ASSUME Inv, NEW at \in Map
  PROVE  (IF tail = NoFiber THEN 0 ELSE at[tail].pos + 1) \in Int
<1>1. tail # NoFiber => tail \in Fiber
  BY DEF Inv, TypeOK, QueueOK
<1>2. \A f \in Fiber : at[f].pos \in Int
  BY DEF Map
<1>. QED
  BY ONLY <1>1, <1>2

LEMMA OneItem ==
  ASSUME NEW s \in Seq(Fiber), Len(s) = 1
  PROVE  s[1] \in Fiber /\ Head(s) = s[1] /\ Tail(s) = <<>>
<1>1. s # <<>> /\ s[1] \in Fiber
  OBVIOUS
<1>2. Head(s) = s[1]
  OBVIOUS
<1>3. Tail(s) \in Seq(Fiber) /\ Len(Tail(s)) = 0
  BY <1>1
<1>4. \A t \in Seq(Fiber) : Len(t) = 0 => t = <<>>
  OBVIOUS
<1>. QED
  BY ONLY <1>1, <1>2, <1>3, <1>4

LEMMA MoveAgree ==
  ASSUME NEW f \in Fiber, NEW at \in Map, NEW new \in Map, Moves(f, at, new), NEW S,
         at[f].spot \notin S, new[f].spot \notin S
  PROVE  Agree(S, at, new)
  BY DEF Moves, Agree

LEMMA MoveStanding ==
  ASSUME NEW f \in Fiber, NEW at \in Map, NEW new \in Map, Moves(f, at, new), Standing(at),
         \A g \in Fiber \ {f} : fstate'[g] = fstate[g],
         fstate'[f] = "parked" <=> new[f].spot \in Asleep,
         fstate'[f] = "ready" <=> new[f].spot \in Awake,
         new[f].spot = "queue" => f # Main
  PROVE  Standing(new)'
  BY DEF Moves, Standing

LEMMA FifoFrame ==
  ASSUME NEW f \in Fiber, NEW at \in Map, NEW new \in Map, Moves(f, at, new),
         NEW q \in Seq(Fiber), NEW c, NEW s, Fifo(q, c, s, at),
         at[f].spot # s \/ at[f].own # c, new[f].spot # s \/ new[f].own # c
  PROVE  Fifo(q, c, s, new)
<1>1. \A i \in DOMAIN q : q[i] \in Fiber /\ q[i] # f
  BY DEF Fifo
<1>. QED
  BY <1>1 DEF Fifo, Moves

LEMMA FifoAppend ==
  ASSUME NEW f \in Fiber, NEW at \in Map, NEW new \in Map, Moves(f, at, new),
         NEW q \in Seq(Fiber), NEW c, NEW s, Fifo(q, c, s, at),
         at[f].spot # s, new[f].spot = s, new[f].own = c
  PROVE  Fifo(Append(q, f), c, s, new)
<1>1. /\ DOMAIN Append(q, f) = DOMAIN q \cup {Len(q) + 1}
      /\ \A i \in DOMAIN q : Append(q, f)[i] = q[i] /\ i # Len(q) + 1
      /\ Append(q, f)[Len(q) + 1] = f
  OBVIOUS
<1>2. \A i \in DOMAIN q : q[i] \in Fiber /\ q[i] # f
  BY DEF Fifo
<1>3. PICK r : r = Append(q, f)
  OBVIOUS
<1>4. \A i \in DOMAIN r : new[r[i]].spot = s /\ new[r[i]].own = c
  BY <1>1, <1>2, <1>3 DEF Fifo, Moves
<1>5. \A i, j \in DOMAIN r : r[i] = r[j] => i = j
  BY <1>1, <1>2, <1>3 DEF Fifo
<1>6. ASSUME NEW g \in Fiber, new[g].spot = s, new[g].own = c
      PROVE  \E i \in DOMAIN r : r[i] = g
  BY <1>1, <1>3, <1>6 DEF Fifo, Moves
<1>. QED
  BY <1>3, <1>4, <1>5, <1>6 DEF Fifo

LEMMA FifoTail ==
  ASSUME NEW f \in Fiber, NEW at \in Map, NEW new \in Map, Moves(f, at, new),
         NEW q \in Seq(Fiber), NEW c, NEW s, Fifo(q, c, s, at), q # <<>>,
         f = Head(q), new[f].spot # s
  PROVE  Fifo(Tail(q), c, s, new)
<1>1. /\ Tail(q) \in Seq(Fiber) /\ DOMAIN q = 1 .. Len(q) /\ DOMAIN Tail(q) = 1 .. Len(q) - 1
      /\ \A i \in DOMAIN Tail(q) : Tail(q)[i] = q[i + 1] /\ i + 1 \in DOMAIN q
      /\ Len(q) \in Nat \ {0} /\ q[1] = f
  OBVIOUS
<1>2. PICK r : r = Tail(q)
  OBVIOUS
<1>3. \A i \in DOMAIN r : r[i] \in Fiber /\ r[i] # f
  <2>1. \A i \in DOMAIN r : i + 1 # 1 /\ 1 \in DOMAIN q
    BY <1>1, <1>2
  <2>. QED
    BY <1>1, <1>2, <2>1 DEF Fifo
<1>4. \A i \in DOMAIN r : new[r[i]].spot = s /\ new[r[i]].own = c
  BY <1>1, <1>2, <1>3 DEF Fifo, Moves
<1>5. \A i, j \in DOMAIN r : r[i] = r[j] => i = j
  <2>1. ASSUME NEW i \in DOMAIN r, NEW j \in DOMAIN r, r[i] = r[j] PROVE i = j
    <3>1. i + 1 \in DOMAIN q /\ j + 1 \in DOMAIN q /\ q[i + 1] = q[j + 1]
      BY <1>1, <1>2, <2>1
    <3>2. i + 1 = j + 1
      BY <3>1 DEF Fifo
    <3>. QED
      BY <1>1, <1>2, <3>2
  <2>. QED
    BY <2>1
<1>6. ASSUME NEW g \in Fiber, new[g].spot = s, new[g].own = c
      PROVE  \E i \in DOMAIN r : r[i] = g
  <2>1. g # f /\ at[g] = new[g]
    BY <1>6 DEF Moves
  <2>2. PICK i \in DOMAIN q : q[i] = g
    BY <1>6, <2>1 DEF Fifo
  <2>3. i # 1 /\ i - 1 \in DOMAIN r
    BY <1>1, <1>2, <2>1, <2>2
  <2>4. r[i - 1] = q[i]
    BY <1>1, <1>2, <2>3
  <2>. QED
    BY <2>2, <2>3, <2>4
<1>. QED
  BY <1>2, <1>4, <1>5, <1>6 DEF Fifo

\* Take the first of a list.
LEMMA ListRest ==
  ASSUME NEW at \in Map, NEW M \in SUBSET Fiber, NEW h, List(h, M, at), h # NoFiber
  PROVE  List(qnext[h], M \ {h}, at)
<1>. \A f \in M : at[f].pos \in Int
  BY DEF Map
<1>1. h \in M /\ \A f \in M : f # h => at[f].pos >= at[h].pos + 1
  BY DEF List
<1>2. CASE qnext[h] = NoFiber
  <2>1. NoFiber \notin M
    BY SchedulerAssumption DEF SchedulerAssumption
  <2>2. \A f \in M : at[f].pos <= at[h].pos
    BY <1>1, <1>2, <2>1 DEF List
  <2>3. M \ {h} = {}
    BY <1>1, <2>2
  <2>. QED
    BY <1>2, <2>3 DEF List
<1>3. CASE qnext[h] # NoFiber
  <2>1. qnext[h] \in M /\ at[qnext[h]].pos = at[h].pos + 1
    BY <1>1, <1>3 DEF List
  <2>2. qnext[h] \in M \ {h}
    BY <1>1, <2>1
  <2>3. \A f \in M \ {h} : at[qnext[h]].pos <= at[f].pos
    BY <1>1, <2>1
  <2>4. ASSUME NEW f \in M \ {h}
        PROVE \/ qnext[f] \in M \ {h} /\ at[qnext[f]].pos = at[f].pos + 1
              \/ qnext[f] = NoFiber /\ \A g \in M \ {h} : at[g].pos <= at[f].pos
    <3>1. CASE qnext[f] \in M /\ at[qnext[f]].pos = at[f].pos + 1
      <4>1. at[f].pos >= at[h].pos + 1
        BY <1>1
      <4>2. qnext[f] # h
        BY <1>1, <3>1, <4>1
      <4>. QED
        BY <3>1, <4>2
    <3>. QED
      BY <3>1 DEF List
  <2>. QED
    BY <1>3, <2>2, <2>3, <2>4 DEF List
<1>. QED
  BY <1>2, <1>3

\* Link f after the last of the list.
LEMMA ListAdd ==
  ASSUME NEW at \in Map, NEW new \in Map, NEW M \in SUBSET Fiber, NEW h, NEW t, List(h, M, at),
         t = NoFiber => h = NoFiber, h = NoFiber => t = NoFiber,
         h # NoFiber => t \in M /\ qnext[t] = NoFiber,
         NEW f \in Fiber, f \notin M, Moves(f, at, new),
         h # NoFiber => new[f].pos = at[t].pos + 1,
         qnext' = [g \in Fiber |-> IF g = t THEN f ELSE IF g = f THEN NoFiber ELSE qnext[g]]
  PROVE  List(IF t = NoFiber THEN f ELSE h, M \cup {f}, new)'
<1>. NoFiber \notin Fiber
  BY SchedulerAssumption DEF SchedulerAssumption
<1>1. /\ \A g \in M : new[g] = at[g] /\ at[g].pos \in Int /\ g \in Fiber
      /\ new[f].pos \in Int
  BY DEF Moves, Map
<1>2. CASE t = NoFiber
  <2>1. M = {} /\ qnext'[f] = NoFiber
    BY <1>2 DEF List
  <2>. QED
    BY <1>1, <1>2, <2>1 DEF List
<1>3. CASE t # NoFiber
  <2>1. /\ t \in M /\ h \in M /\ f # t /\ qnext'[t] = f /\ qnext'[f] = NoFiber
        /\ \A g \in M \ {t} : qnext'[g] = qnext[g]
    BY <1>1, <1>3 DEF List
  <2>2. \A g \in M : at[g].pos <= at[t].pos /\ at[h].pos <= at[g].pos
    BY <1>3, <2>1 DEF List
  <2>3. new[f].pos = at[t].pos + 1 /\ new[h] = at[h]
    BY <1>1, <1>3, <2>1
  <2>4. \A g \in M \cup {f} : new[h].pos <= new[g].pos /\ new[g].pos <= new[f].pos
    BY <1>1, <2>1, <2>2, <2>3
  <2>5. ASSUME NEW g \in M \cup {f}
        PROVE  \/ qnext'[g] \in M \cup {f} /\ new[qnext'[g]].pos = new[g].pos + 1
               \/ qnext'[g] = NoFiber /\ \A k \in M \cup {f} : new[k].pos <= new[g].pos
    <3>1. CASE g = f
      BY <2>1, <2>4, <3>1
    <3>2. CASE g = t
      BY <1>1, <2>1, <2>3, <3>2
    <3>3. CASE g \in M \ {t}
      <4>1. qnext'[g] = qnext[g]
        BY <2>1, <3>3
      <4>2. CASE qnext[g] \in M /\ at[qnext[g]].pos = at[g].pos + 1
        BY <1>1, <3>3, <4>1, <4>2
      <4>3. CASE qnext[g] = NoFiber /\ \A k \in M : at[k].pos <= at[g].pos
        <5>1. at[t].pos = at[g].pos
          BY <1>1, <2>1, <2>2, <3>3, <4>3
        <5>. QED
          BY <2>1, <3>3, <5>1 DEF List
      <4>. QED
        BY <3>3, <4>2, <4>3 DEF List
    <3>. QED
      BY <3>1, <3>2, <3>3
  <2>6. ASSUME NEW g \in M \cup {f}, NEW k \in M \cup {f}, new[g].pos = new[k].pos
        PROVE  g = k
    <3>1. \A j \in M : new[j].pos < new[f].pos
      BY <1>1, <2>1, <2>2, <2>3
    <3>2. CASE g \in M /\ k \in M
      BY <1>1, <2>6, <3>2 DEF List
    <3>. QED
      BY <1>1, <2>6, <3>1, <3>2
  <2>7. h # NoFiber /\ h \in M \cup {f}
    BY <1>3, <2>1
  <2>. QED
    BY ONLY <1>3, <2>4, <2>5, <2>6, <2>7 DEF List
<1>. QED
  BY <1>2, <1>3

-----------------------------------------------------------------------------
(* What each action does to the places *)

\* What a step of w leaves alone in the other workers.
Elsewhere(w) == \A v \in Worker \ {w} :
  /\ wpc[v] \in Hands \/ wpc'[v] \in Hands => wpc'[v] = wpc[v] /\ todo'[v] = todo[v]
  /\ chain'[v] = chain[v]
  /\ At(v)' = "chain" \/ At(v) # "chain"

LEMMA ElsewhereStep ==
  ASSUME Inv, NEW w \in Worker, Step(w) \/ SpuriousWakeup(w), Apart(w)
  PROVE  Elsewhere(w)
<1>. WorkersOK
  BY DEF Inv, TypeOK
<1>1. \A v \in Worker \ {w} : todo'[v] = todo[v]
  <2>1. todo' = todo \/ \E t : todo' = [todo EXCEPT ![w] = t]
    <3>1. CASE RunFiber(w)
      BY ONLY <3>1 DEF RunFiber, CheckCancel, SendClosed, SendPark, SendPut, RecvPark, RecvValue,
         RecvNone, PollValue, PollNone, CloseChannel, WalkChain, Requeue, Push, Loop, Return, Exit,
         Open, Spawn, JoinPark, Rewind, JoinDone, TakeValue, TakeNone, RequeueThen, Leave, localVars
    <3>2. CASE Schedule(w) \/ SpuriousWakeup(w)
      BY ONLY <3>2 DEF Schedule, PopPinned, PopReady, PopShutdown, PopWait, PopDeadlock, Save, Halt,
         Finish, Verdict, Sweep, Unlock, Account, Tally, SpuriousWakeup, RequeueThen, localVars
    <3>. QED
      BY <3>1, <3>2 DEF Step
  <2>. QED
    BY <2>1 DEF WorkersOK
<1>2. \A v \in Worker \ {w} : chain'[v] = chain[v]
  <2>1. chain' = chain \/ \E t : chain' = [chain EXCEPT ![w] = t]
    <3>1. CASE RunFiber(w)
      BY ONLY <3>1 DEF RunFiber, CheckCancel, SendClosed, SendPark, SendPut, RecvPark, RecvValue,
         RecvNone, PollValue, PollNone, CloseChannel, WalkChain, Requeue, Push, Loop, Return, Exit,
         Open, Spawn, JoinPark, Rewind, JoinDone, TakeValue, TakeNone, RequeueThen, Leave, localVars
    <3>2. CASE Schedule(w) \/ SpuriousWakeup(w)
      BY ONLY <3>2 DEF Schedule, PopPinned, PopReady, PopShutdown, PopWait, PopDeadlock, Save, Halt,
         Finish, Verdict, Sweep, Unlock, Account, Tally, SpuriousWakeup, RequeueThen, localVars
    <3>. QED
      BY <3>1, <3>2 DEF Step
  <2>. QED
    BY <2>1 DEF WorkersOK
<1>. QED
  BY <1>1, <1>2 DEF Apart, Elsewhere, At, Hands

Still == /\ SameStates /\ SameHands /\ SameParents /\ SameChains
         /\ UNCHANGED <<recvq, sendq, qnext, head, tail, nready, pinned>>

LEMMA StillPlaced ==
  ASSUME Inv, NEW at \in Map, PlacesOK(at), Still
  PROVE  PlacesOK(at)'
<1>1. \A S : Agree(S, at, at)
  BY DEF Agree
<1>2. Standing(at)'
  BY DEF PlacesOK, Standing, Still, SameStates
<1>3. Waiting(at)'
  BY <1>1, WaitingFrame DEF PlacesOK, Still
<1>4. Handled(at)'
  BY <1>1, HandledFrame DEF PlacesOK, Still
<1>5. Joining(at)'
  BY <1>1, JoiningFrame DEF PlacesOK, Still
<1>6. Chained(at)'
  BY <1>1, ChainedFrame DEF PlacesOK, Still
<1>7. Queued(at)'
  BY <1>1, QueuedFrame DEF PlacesOK, Still
<1>8. Slot(at)'
  BY <1>1, SlotFrame DEF PlacesOK, Still
<1>. QED
  BY <1>2, <1>3, <1>4, <1>5, <1>6, <1>7, <1>8 DEF PlacesOK

\* The parts of Still, from what w does.
LEMMA StillHands ==
  ASSUME Inv, NEW w \in Worker, Elsewhere(w), {wpc[w], wpc'[w]} \cap Hands = {}
  PROVE  SameHands
  BY DEF Elsewhere, SameHands

LEMMA StillChains ==
  ASSUME Inv, NEW w \in Worker, Elsewhere(w), chain'[w] = chain[w],
         At(w)' = "chain" \/ At(w) # "chain" \/ chain[w] = NoFiber
  PROVE  SameChains
  BY DEF Elsewhere, SameChains

LEMMA StillParents ==
  ASSUME Inv, NEW at \in Map, PlacesOK(at), curOpen' = curOpen, group' = group
  PROVE  SameParents
  BY DEF PlacesOK, Joining, SameParents

\* The actions that leave every place alone.
Resting(w) ==
  \/ CheckCancel(w) \/ SendClosed(w) \/ RecvNone(w) \/ PollNone(w) \/ Loop(w) \/ Return(w)
  \/ Exit(w) \/ Rewind(w) \/ PopShutdown(w) \/ PopWait(w) \/ PopDeadlock(w) \/ SpuriousWakeup(w)
  \/ Save(w) \/ Halt(w) \/ Tally(w)

LEMMA RestingStill ==
  ASSUME Inv, NEW w \in Worker, NEW at \in Map, PlacesOK(at), Elsewhere(w), Resting(w)
  PROVE  Still /\ wpc'[w] \notin Hands \cup {"verdict", "sweep", "unlock"}
<1>. WorkersOK
  BY DEF Inv, TypeOK
<1>1. UNCHANGED <<fstate, curOpen, group, recvq, sendq, qnext, head, tail, nready, pinned, chain>>
  <2>1. CASE CheckCancel(w) \/ SendClosed(w) \/ RecvNone(w) \/ PollNone(w) \/ Loop(w) \/ Return(w)
             \/ Exit(w) \/ Rewind(w)
    BY ONLY <2>1 DEF CheckCancel, SendClosed, RecvNone, PollNone, TakeNone, Loop, Return, Exit,
       Rewind, fiberVars, queueVars, groupVars, chanVars, localVars
  <2>2. CASE PopShutdown(w) \/ PopWait(w) \/ PopDeadlock(w) \/ SpuriousWakeup(w)
             \/ Save(w) \/ Halt(w) \/ Tally(w)
    BY ONLY <2>2 DEF PopShutdown, PopWait, PopDeadlock, SpuriousWakeup, Save, Halt, Tally,
       fiberVars, queueVars, groupVars, chanVars, localVars
  <2>. QED
    BY <2>1, <2>2 DEF Resting
<1>2. /\ wpc[w] \notin Hands \cup {"chain"}
      /\ wpc'[w] \notin Hands \cup {"verdict", "sweep", "unlock"}
  <2>1. CASE Loop(w)
    BY <2>1 DEF Loop, Executing, Leave, Goto, Hands, WorkersOK
  <2>2. CASE \/ CheckCancel(w) \/ SendClosed(w) \/ RecvNone(w) \/ PollNone(w) \/ Return(w)
             \/ Exit(w) \/ Rewind(w)
    <3>1. /\ wpc[w] \in {"exec", "enter", "rewind"}
          /\ \E l \in {"enter", "halt", "finish", "exec", "save"} : wpc' = [wpc EXCEPT ![w] = l]
      BY ONLY <2>2 DEF CheckCancel, SendClosed, RecvNone, PollNone, TakeNone, Return, Exit, Rewind,
         Executing, Entered, Leave, Goto
    <3>. QED
      BY <3>1 DEF Hands, WorkersOK
  <2>3. CASE PopShutdown(w) \/ PopWait(w) \/ SpuriousWakeup(w) \/ Save(w)
    <3>1. /\ wpc[w] \in {"pop", "woken", "idle", "save"}
          /\ \E l \in {"gone", "idle", "woken", "halt", "pop"} : wpc' = [wpc EXCEPT ![w] = l]
      BY ONLY <2>3 DEF PopShutdown, PopWait, SpuriousWakeup, Save, NothingToPop, InPop, Goto
    <3>. QED
      BY <3>1 DEF Hands, WorkersOK
  <2>4. CASE PopDeadlock(w) \/ Halt(w) \/ Tally(w)
    <3>1. /\ wpc[w] \in {"pop", "woken", "halt", "tally"}
          /\ \E s : \E l \in {"gone", "finish", "pop"} : GotoWaking(w, l, s)
      BY ONLY <2>4 DEF PopDeadlock, Halt, Tally, NothingToPop, InPop
    <3>. QED
      BY <3>1 DEF Hands, GotoWaking
  <2>. QED
    BY <2>1, <2>2, <2>3, <2>4 DEF Resting
<1>3. At(w) # "chain"
  BY <1>2 DEF At, Hands
<1>4. SameHands
  BY <1>2, StillHands
<1>5. SameChains
  BY <1>1, <1>3, StillChains
<1>6. SameParents
  BY <1>1, StillParents
<1>. QED
  BY <1>1, <1>2, <1>4, <1>5, <1>6 DEF Still, SameStates

LEMMA FinishStill ==
  ASSUME Inv, Engagement, NEW w \in Worker, NEW at \in Map, PlacesOK(at), Elsewhere(w), Finish(w),
         NoCancel'
  PROVE  Still /\ wpc'[w] \in {"tally", "account"}
<1>. WorkersOK /\ FibersOK /\ GroupsOK
  BY DEF Inv, TypeOK
<1>1. /\ UNCHANGED <<curOpen, recvq, sendq, qnext, head, tail, nready, pinned, chain>>
      /\ wpc[w] = "finish" /\ fstate' = [fstate EXCEPT ![cur[w]] = "done"]
  BY DEF Finish, queueVars, chanVars
<1>2. group' = group /\ \E l \in {"tally", "account"} : wpc' = [wpc EXCEPT ![w] = l]
  <2>1. CASE nursery[cur[w]] = NoNursery \/ result[w] = "ok"
    BY <2>1 DEF Finish, Goto
  <2>2. CASE ~(nursery[cur[w]] = NoNursery \/ result[w] = "ok")
    <3>1. PICK n \in Nursery : n = nursery[cur[w]]
      BY <2>2 DEF FibersOK, WorkersOK
    <3>2. group' = [group EXCEPT ![n].cancel = TRUE]
      BY <2>2, <3>1 DEF Finish
    <3>3. group'[n].cancel
      BY <3>2 DEF GroupsOK, Group
    <3>. QED
      BY <3>3 DEF NoCancel
  <2>. QED
    BY <2>1, <2>2
<1>3. fstate[cur[w]] = "running" /\ cur[w] \in Fiber
  BY <1>1 DEF Engagement, Engaged, Stage, At, WorkersOK
<1>4. SameStates
  BY <1>1, <1>3 DEF SameStates, FibersOK
<1>5. wpc'[w] \in {"tally", "account"}
  BY <1>2 DEF WorkersOK
<1>6. SameHands
  BY <1>1, <1>5, StillHands DEF Hands
<1>7. SameChains
  BY <1>1, StillChains DEF At
<1>8. SameParents
  BY <1>1, <1>2, StillParents
<1>. QED
  BY <1>1, <1>4, <1>5, <1>6, <1>7, <1>8 DEF Still

\* A nursery that is opened, or whose parent passes its brace, has no parked parent.
LEMMA OpenStill ==
  ASSUME Inv, Engagement, NEW w \in Worker, NEW at \in Map, PlacesOK(at), Elsewhere(w), Open(w)
  PROVE  Still
<1>. WorkersOK /\ FibersOK /\ GroupsOK
  BY DEF Inv, TypeOK
<1>1. /\ UNCHANGED <<fstate, wpc, recvq, sendq, qnext, head, tail, nready, pinned, chain>>
      /\ wpc[w] = "exec"
  BY DEF Open, Executing, queueVars, chanVars, localVars
<1>2. PICK n : /\ n = Code[cur[w]][pc[cur[w]]].n /\ ~group[n].open
               /\ group' = [group EXCEPT ![n] =
                    [NewGroup EXCEPT !.open = TRUE, !.enclosing = curOpen[cur[w]]]]
               /\ curOpen' = [curOpen EXCEPT ![cur[w]] = n]
  BY DEF Open
<1>3. n \in Nursery
  BY <1>2, OpFields DEF Open, Executing, WorkersOK
<1>4. fstate[cur[w]] = "running" /\ cur[w] \in Fiber
  BY <1>1 DEF Engagement, Engaged, Stage, At, WorkersOK
<1>5. group[n].parentParked = FALSE /\ group'[n].parentParked = FALSE
  <2>1. group[n].parentParked = FALSE
    <3>1. Joining(at)
      BY DEF PlacesOK
    <3>2. ~group[n].parentParked
      BY ONLY <1>2, <1>3, <3>1 DEF Joining
    <3>3. group[n].parentParked \in BOOLEAN
      BY <1>3 DEF GroupsOK, Group
    <3>. QED
      BY ONLY <3>2, <3>3
  <2>2. group'[n] = [NewGroup EXCEPT !.open = TRUE, !.enclosing = curOpen[cur[w]]]
    BY <1>2, <1>3 DEF GroupsOK
  <2>. QED
    BY <2>1, <2>2 DEF NewGroup
<1>6. \A m \in Nursery \ {n} : group'[m] = group[m]
  BY <1>2 DEF GroupsOK
<1>7. SameParents
  <2>1. \A f \in Fiber : fstate[f] = "parked" => curOpen'[f] = curOpen[f]
    BY <1>2, <1>4 DEF FibersOK
  <2>2. \A m \in Nursery : group[m].parentParked => group[m].live >= 1 /\ group[m].open
    BY DEF PlacesOK, Joining
  <2>. QED
    BY ONLY <1>5, <1>6, <2>1, <2>2 DEF SameParents
<1>8. SameHands
  BY <1>1, StillHands DEF Hands
<1>9. SameChains
  BY <1>1, StillChains DEF At
<1>. QED
  BY <1>1, <1>7, <1>8, <1>9 DEF Still, SameStates

LEMMA JoinDoneStill ==
  ASSUME Inv, Engagement, NEW w \in Worker, NEW at \in Map, PlacesOK(at), Elsewhere(w), JoinDone(w)
  PROVE  Still
<1>. WorkersOK /\ FibersOK /\ GroupsOK
  BY DEF Inv, TypeOK
<1>1. /\ UNCHANGED <<fstate, recvq, sendq, qnext, head, tail, nready, pinned, chain>>
      /\ wpc[w] = "exec" /\ \/ wpc' = wpc
                            \/ \E l \in {"halt", "finish"} : wpc' = [wpc EXCEPT ![w] = l]
  BY DEF JoinDone, Executing, Leave, Goto, queueVars, chanVars, localVars
<1>2. PICK n : /\ n = curOpen[cur[w]] /\ n # NoNursery /\ group[n].live <= 0
               /\ group' = [group EXCEPT ![n].open = FALSE]
               /\ curOpen' = [curOpen EXCEPT ![cur[w]] = group[n].enclosing]
  BY DEF JoinDone, Joinable
<1>3. fstate[cur[w]] = "running" /\ cur[w] \in Fiber
  BY <1>1 DEF Engagement, Engaged, Stage, At, WorkersOK
<1>4. n \in Nursery
  BY <1>2, <1>3 DEF FibersOK
<1>5. group[n].parentParked = FALSE /\ group'[n].parentParked = FALSE
  <2>1. group[n] \in Group
    BY <1>4 DEF GroupsOK
  <2>2. group[n].live \in Int /\ group[n].parentParked = FALSE
    BY <1>2, <1>4, <2>1 DEF PlacesOK, Joining, Group
  <2>3. group'[n] = [group[n] EXCEPT !.open = FALSE]
    BY <1>2, <1>4 DEF GroupsOK
  <2>. QED
    BY <2>1, <2>2, <2>3 DEF Group
<1>6. \A m \in Nursery \ {n} : group'[m] = group[m]
  BY <1>2 DEF GroupsOK
<1>7. SameParents
  <2>1. \A f \in Fiber : fstate[f] = "parked" => curOpen'[f] = curOpen[f]
    BY <1>2, <1>3 DEF FibersOK
  <2>2. \A m \in Nursery : group[m].parentParked => group[m].live >= 1 /\ group[m].open
    BY DEF PlacesOK, Joining
  <2>. QED
    BY ONLY <1>5, <1>6, <2>1, <2>2 DEF SameParents
<1>8. wpc'[w] \in {"exec", "halt", "finish"}
  BY <1>1 DEF WorkersOK
<1>9. SameHands
  BY <1>1, <1>8, StillHands DEF Hands
<1>10. SameChains
  BY <1>1, StillChains DEF At
<1>. QED
  BY <1>1, <1>7, <1>9, <1>10 DEF Still, SameStates

\* A running fiber has no place.
LEMMA RunnerPlaceless ==
  ASSUME Inv, Engagement, NEW w \in Worker, NEW at \in Map, PlacesOK(at), Stage(w) = "runs"
  PROVE  fstate[cur[w]] = "running" /\ cur[w] \in Fiber /\ at[cur[w]].spot = "none"
<1>1. fstate[cur[w]] = "running" /\ cur[w] \in Fiber
  BY DEF Engagement, Engaged, Inv, TypeOK, WorkersOK
<1>2. at[cur[w]].spot \notin Asleep \cup Awake
  BY <1>1 DEF PlacesOK, Standing
<1>. QED
  BY <1>1, <1>2 DEF Map

\* ch_park.
LEMMA ParkPlaced ==
  ASSUME Inv, Engagement, NEW w \in Worker, NEW at \in Map, PlacesOK(at), Elsewhere(w),
         SendPark(w) \/ RecvPark(w)
  PROVE  Placed'
<1>. WorkersOK /\ FibersOK /\ ChannelsOK
  BY DEF Inv, TypeOK
<1>1. PICK f, c : f = cur[w] /\ c = Ch(w)
  OBVIOUS
<1>2. /\ wpc[w] = "enter" /\ wpc' = [wpc EXCEPT ![w] = "save"]
      /\ fstate' = [fstate EXCEPT ![f] = "parked"]
      /\ UNCHANGED <<curOpen, group, qnext, head, tail, nready, pinned, chain>>
      /\ \/ recvq' = [recvq EXCEPT ![c] = Append(@, f)] /\ sendq' = sendq
         \/ sendq' = [sendq EXCEPT ![c] = Append(@, f)] /\ recvq' = recvq
  BY <1>1 DEF SendPark, RecvPark, Park, Entered, Goto, queueVars, groupVars, localVars
<1>3. c \in Channel /\ f \in Fiber /\ fstate[f] = "running" /\ at[f].spot = "none"
  <2>1. c \in Channel
    BY <1>1, ChType DEF SendPark, RecvPark
  <2>2. Stage(w) = "runs"
    BY <1>2 DEF Stage, At
  <2>. QED
    BY <1>1, <2>1, <2>2, RunnerPlaceless
<1>4. PICK s \in {"recv", "send"} :
        /\ s = "recv" => recvq' = [recvq EXCEPT ![c] = Append(@, f)] /\ sendq' = sendq
        /\ s = "send" => sendq' = [sendq EXCEPT ![c] = Append(@, f)] /\ recvq' = recvq
  BY <1>2
<1>5. PICK new \in Map : /\ new[f] = [spot |-> s, own |-> c, pos |-> 0]
                         /\ Moves(f, at, new)
  BY <1>3, MoveMap DEF Asleep
<1>. new[f].spot = s /\ new[f].own = c
  BY <1>5
<1>6. Standing(new)'
  <2>1. fstate'[f] = "parked" /\ \A g \in Fiber \ {f} : fstate'[g] = fstate[g]
    BY <1>2, <1>3 DEF FibersOK
  <2>. QED
    BY <1>3, <1>5, <2>1, MoveStanding DEF PlacesOK, Asleep, Awake
<1>7. Waiting(new)'
  <2>1. ASSUME NEW d \in Channel
        PROVE  Fifo(recvq'[d], d, "recv", new) /\ Fifo(sendq'[d], d, "send", new)
    <3>1. /\ recvq[d] \in Seq(Fiber) /\ sendq[d] \in Seq(Fiber)
          /\ Fifo(recvq[d], d, "recv", at) /\ Fifo(sendq[d], d, "send", at)
      BY DEF PlacesOK, Waiting, ChannelsOK
    <3>2. /\ s # "recv" \/ d # c => Fifo(recvq[d], d, "recv", new)
          /\ s # "send" \/ d # c => Fifo(sendq[d], d, "send", new)
      BY <1>3, <1>5, <3>1, FifoFrame
    <3>3. d = c => /\ s = "recv" => Fifo(Append(recvq[d], f), d, "recv", new)
                   /\ s = "send" => Fifo(Append(sendq[d], f), d, "send", new)
      BY <1>3, <1>5, <3>1, FifoAppend
    <3>4. /\ recvq'[d] = IF s = "recv" /\ d = c THEN Append(recvq[d], f) ELSE recvq[d]
          /\ sendq'[d] = IF s = "send" /\ d = c THEN Append(sendq[d], f) ELSE sendq[d]
      BY <1>3, <1>4 DEF ChannelsOK
    <3>. QED
      BY <3>2, <3>3, <3>4
  <2>2. \A g \in Fiber : new[g].spot \in {"recv", "send"} => new[g].own \in Channel
    BY <1>3, <1>5 DEF PlacesOK, Waiting, Moves
  <2>3. \A d \in Channel : Fifo(recvq[d], d, "recv", new)' /\ Fifo(sendq[d], d, "send", new)'
    BY <2>1 DEF Fifo
  <2>. QED
    BY <2>2, <2>3 DEF Waiting
<1>8. \A S \in {Hands, {"join"}, {"chain"}, {"queue"}, {"pinned"}} : Agree(S, at, new)
  BY <1>3, <1>5, MoveAgree DEF Hands
<1>9. wpc'[w] = "save"
  BY <1>2 DEF WorkersOK
<1>10. SameHands
  BY <1>2, <1>9, StillHands DEF Hands
<1>11. SameChains
  BY <1>2, StillChains DEF At
<1>12. SameParents
  BY <1>2, StillParents
<1>13. Handled(new)' /\ Joining(new)'
  BY <1>8, <1>10, <1>12, HandledFrame, JoiningFrame DEF PlacesOK
<1>14. Chained(new)' /\ Queued(new)' /\ Slot(new)'
  BY <1>2, <1>8, <1>11, ChainedFrame, QueuedFrame, SlotFrame DEF PlacesOK
<1>. QED
  BY <1>6, <1>7, <1>13, <1>14 DEF Placed, PlacesOK

\* w takes f into its hands, from a place that is not a list of w's.
LEMMA TakeInHand ==
  ASSUME Inv, NEW w \in Worker, NEW at \in Map, NEW new \in Map, NEW f \in Fiber, Handled(at),
         Moves(f, at, new), new[f].spot = "wake", new[f].own = w,
         at[f].spot \notin Hands, Elsewhere(w), wpc[w] \notin Hands,
         wpc'[w] = "wake", todo'[w] = <<f>>
  PROVE  Handled(new)'
<1>1. ASSUME NEW v \in Worker, wpc'[v] \in Hands
      PROVE  Len(todo'[v]) = 1 /\ new[todo'[v][1]].spot = wpc'[v] /\ new[todo'[v][1]].own = v
  <2>1. CASE v = w
    BY <2>1
  <2>2. CASE v # w
    <3>1. wpc[v] \in Hands /\ wpc'[v] = wpc[v] /\ todo'[v] = todo[v]
      BY <1>1, <2>2 DEF Elsewhere
    <3>2. Len(todo[v]) = 1 /\ at[todo[v][1]].spot = wpc[v] /\ at[todo[v][1]].own = v
      BY <3>1 DEF Handled
    <3>3. todo[v] \in Seq(Fiber)
      BY DEF Inv, TypeOK, WorkersOK
    <3>4. todo[v][1] \in Fiber
      BY <3>2, <3>3
    <3>. QED
      BY <3>1, <3>2, <3>4 DEF Moves
  <2>. QED
    BY <2>1, <2>2
<1>2. ASSUME NEW g \in Fiber, new[g].spot \in Hands
      PROVE  /\ new[g].own \in Worker /\ wpc'[new[g].own] = new[g].spot
             /\ todo'[new[g].own][1] = g
  <2>1. CASE g = f
    BY <2>1
  <2>2. CASE g # f
    <3>1. new[g] = at[g]
      BY <2>2 DEF Moves
    <3>2. /\ at[g].own \in Worker /\ wpc[at[g].own] = at[g].spot
          /\ todo[at[g].own][1] = g
      BY <1>2, <3>1 DEF Handled
    <3>. QED
      BY <1>2, <3>1, <3>2 DEF Elsewhere
  <2>. QED
    BY <2>1, <2>2
<1>. QED
  BY <1>1, <1>2 DEF Handled

\* A value put or taken: the first of the other FIFO goes into the worker's hands.
LEMMA WakePlaced ==
  ASSUME Inv, NEW w \in Worker, NEW at \in Map, PlacesOK(at), Elsewhere(w),
         SendPut(w) \/ RecvValue(w) \/ PollValue(w)
  PROVE  Placed'
<1>. WorkersOK /\ FibersOK /\ ChannelsOK
  BY DEF Inv, TypeOK
<1>1. PICK c : c = Ch(w)
  OBVIOUS
<1>2. c \in Channel
  BY <1>1, ChType DEF SendPut, RecvValue, PollValue
<1>3. PICK s \in {"recv", "send"}, q \in Seq(Fiber) :
        /\ q = IF s = "recv" THEN recvq[c] ELSE sendq[c]
        /\ s = "recv" => recvq' = [recvq EXCEPT ![c] = RestOf(@)] /\ sendq' = sendq
        /\ s = "send" => sendq' = [sendq EXCEPT ![c] = RestOf(@)] /\ recvq' = recvq
        /\ RequeueThen(w, FirstOf(q), "exec")
  <2>1. recvq[c] \in Seq(Fiber) /\ sendq[c] \in Seq(Fiber)
    BY <1>2 DEF ChannelsOK
  <2>2. CASE SendPut(w)
    BY <1>1, <2>1, <2>2 DEF SendPut
  <2>3. CASE RecvValue(w) \/ PollValue(w)
    <3>1. TakeValue(w)
      BY <2>3 DEF RecvValue, PollValue
    <3>. QED
      BY <1>1, <2>1, <3>1 DEF TakeValue
  <2>. QED
    BY <2>2, <2>3
<1>4. /\ wpc[w] \in {"enter", "exec"}
      /\ UNCHANGED <<fstate, curOpen, group, qnext, head, tail, nready, pinned, chain>>
  BY DEF SendPut, RecvValue, PollValue, TakeValue, Entered, Executing, queueVars, groupVars
<1>5. SameParents
  BY <1>4, StillParents
<1>6. CASE q = <<>>
  <2>1. recvq' = recvq /\ sendq' = sendq
    BY <1>2, <1>3, <1>6 DEF RestOf, ChannelsOK
  <2>2. wpc'[w] = "exec"
    BY <1>3, <1>6 DEF RequeueThen, FirstOf, Goto, WorkersOK
  <2>3. SameHands
    BY <1>4, <2>2, StillHands DEF Hands
  <2>4. SameChains
    BY <1>4, StillChains DEF At
  <2>5. Still
    BY <1>4, <1>5, <2>1, <2>3, <2>4 DEF Still, SameStates
  <2>. QED
    BY <2>5, StillPlaced DEF Placed
<1>7. CASE q # <<>>
  <2>1. PICK f \in Fiber : f = Head(q)
    BY <1>7
  <2>2. wpc'[w] = "wake" /\ todo'[w] = <<f>> /\ then'[w] = "exec"
    BY <1>3, <1>7, <2>1 DEF RequeueThen, FirstOf, Goto, WorkersOK
  <2>3. Fifo(q, c, s, at)
    BY <1>2, <1>3 DEF PlacesOK, Waiting
  <2>4. at[f].spot = s /\ at[f].own = c /\ fstate[f] = "parked"
    <3>1. 1 \in DOMAIN q /\ q[1] = f
      BY <1>7, <2>1
    <3>2. at[f].spot = s /\ at[f].own = c
      BY <2>3, <3>1 DEF Fifo
    <3>. QED
      BY <3>2 DEF PlacesOK, Standing, Asleep
  <2>5. PICK new \in Map : /\ new[f] = [spot |-> "wake", own |-> w, pos |-> 0]
                           /\ Moves(f, at, new)
    <3>1. "wake" \in Asleep \cup Awake \cup {"none"}
      BY DEF Asleep
    <3>. QED
      BY ONLY <3>1, at \in Map, f \in Fiber, w \in Worker, MoveMap
  <2>. new[f].spot = "wake" /\ new[f].own = w
    BY <2>5
  <2>6. Standing(new)'
    BY <1>4, <2>4, <2>5, MoveStanding DEF PlacesOK, Asleep, Awake
  <2>7. Waiting(new)'
    <3>1. ASSUME NEW d \in Channel
          PROVE  Fifo(recvq'[d], d, "recv", new) /\ Fifo(sendq'[d], d, "send", new)
      <4>1. /\ recvq[d] \in Seq(Fiber) /\ sendq[d] \in Seq(Fiber)
            /\ Fifo(recvq[d], d, "recv", at) /\ Fifo(sendq[d], d, "send", at)
        BY DEF PlacesOK, Waiting, ChannelsOK
      <4>2. /\ s # "recv" \/ d # c => Fifo(recvq[d], d, "recv", new)
            /\ s # "send" \/ d # c => Fifo(sendq[d], d, "send", new)
        BY <2>4, <2>5, <4>1, FifoFrame
      <4>3. Fifo(Tail(q), c, s, new)
        BY <1>7, <2>1, <2>3, <2>5, FifoTail
      <4>4. /\ recvq'[d] = IF s = "recv" /\ d = c THEN Tail(q) ELSE recvq[d]
            /\ sendq'[d] = IF s = "send" /\ d = c THEN Tail(q) ELSE sendq[d]
        BY <1>2, <1>3, <1>7 DEF ChannelsOK, RestOf
      <4>. QED
        BY <4>2, <4>3, <4>4
    <3>2. \A g \in Fiber : new[g].spot \in {"recv", "send"} => new[g].own \in Channel
      BY <2>5 DEF PlacesOK, Waiting, Moves
    <3>3. \A d \in Channel : Fifo(recvq[d], d, "recv", new)' /\ Fifo(sendq[d], d, "send", new)'
      BY <3>1 DEF Fifo
    <3>. QED
      BY <3>2, <3>3 DEF Waiting
  <2>8. \A S \in {{"join"}, {"chain"}, {"queue"}, {"pinned"}} : Agree(S, at, new)
    BY <2>4, <2>5, MoveAgree
  <2>9. Handled(new)'
    BY <1>4, <2>2, <2>4, <2>5, TakeInHand DEF PlacesOK, Hands
  <2>10. SameChains
    <3>1. At(w) # "chain"
      BY <1>4 DEF At
    <3>. QED
      BY <1>4, <3>1, StillChains
  <2>11. Joining(new)' /\ Chained(new)' /\ Queued(new)' /\ Slot(new)'
    BY <1>4, <1>5, <2>8, <2>10, JoiningFrame, ChainedFrame, QueuedFrame, SlotFrame DEF PlacesOK
  <2>. QED
    BY <2>6, <2>7, <2>9, <2>11 DEF Placed, PlacesOK
<1>. QED
  BY <1>6, <1>7

\* q lists the waiters of channel c.
Waiters(q, c, at) ==
  /\ \A i \in DOMAIN q : at[q[i]].spot \in {"recv", "send"} /\ at[q[i]].own = c
  /\ \A i, j \in DOMAIN q : q[i] = q[j] => i = j
  /\ \A f \in Fiber : at[f].spot \in {"recv", "send"} /\ at[f].own = c =>
                        \E i \in DOMAIN q : q[i] = f
\* w links those of q, from the last to the first.
Links(q, w) ==
  /\ \A i \in DOMAIN q : qnext'[q[i]] = IF i = 1 THEN NoFiber ELSE q[i - 1]
  /\ \A f \in Fiber : (\A i \in DOMAIN q : q[i] # f) => qnext'[f] = qnext[f]
  /\ chain' = [chain EXCEPT ![w] = IF q = <<>> THEN NoFiber ELSE q[Len(q)]]

\* The two FIFOs of a channel together.
LEMMA FifosTogether ==
  ASSUME Inv, NEW at \in Map, PlacesOK(at), NEW c \in Channel
  PROVE  \E q \in Seq(Fiber) : q = recvq[c] \o sendq[c] /\ Waiters(q, c, at)
<1>1. PICK a \in Seq(Fiber), b \in Seq(Fiber) : a = recvq[c] /\ b = sendq[c]
  BY DEF Inv, TypeOK, ChannelsOK
<1>2. Fifo(a, c, "recv", at) /\ Fifo(b, c, "send", at)
  BY <1>1 DEF PlacesOK, Waiting
<1>3. PICK q \in Seq(Fiber) : q = a \o b
  <2>1. a \o b \in Seq(Fiber)
    OBVIOUS
  <2>. QED
    BY ONLY <2>1
<1>4. /\ \A i \in DOMAIN q : \/ i \in DOMAIN a /\ q[i] = a[i]
                             \/ i - Len(a) \in DOMAIN b /\ q[i] = b[i - Len(a)]
      /\ \A i \in DOMAIN a : i \in DOMAIN q /\ q[i] = a[i]
      /\ \A i \in DOMAIN b : i + Len(a) \in DOMAIN q /\ q[i + Len(a)] = b[i]
  BY <1>3
<1>5. \A i \in DOMAIN q : at[q[i]].spot \in {"recv", "send"} /\ at[q[i]].own = c
  BY <1>2, <1>4 DEF Fifo
<1>6. ASSUME NEW i \in DOMAIN q, NEW j \in DOMAIN q, q[i] = q[j] PROVE i = j
  <2>1. CASE i \in DOMAIN a /\ q[i] = a[i]
    <3>1. at[q[j]].spot = "recv"
      BY <1>2, <1>6, <2>1 DEF Fifo
    <3>2. j \in DOMAIN a /\ q[j] = a[j]
      BY <1>2, <1>4, <3>1 DEF Fifo
    <3>. QED
      BY <1>2, <1>6, <2>1, <3>2 DEF Fifo
  <2>2. CASE i - Len(a) \in DOMAIN b /\ q[i] = b[i - Len(a)]
    <3>1. at[q[j]].spot = "send"
      BY <1>2, <1>6, <2>2 DEF Fifo
    <3>2. j - Len(a) \in DOMAIN b /\ q[j] = b[j - Len(a)]
      BY <1>2, <1>4, <3>1 DEF Fifo
    <3>3. i - Len(a) = j - Len(a)
      BY <1>2, <1>6, <2>2, <3>2 DEF Fifo
    <3>. QED
      BY <3>3
  <2>. QED
    BY <1>4, <2>1, <2>2
<1>7. ASSUME NEW f \in Fiber, at[f].spot \in {"recv", "send"}, at[f].own = c
      PROVE  \E i \in DOMAIN q : q[i] = f
  <2>1. (\E i \in DOMAIN a : a[i] = f) \/ (\E i \in DOMAIN b : b[i] = f)
    BY <1>2, <1>7 DEF Fifo
  <2>. QED
    BY <1>4, <2>1
<1>8. Waiters(q, c, at)
  BY <1>5, <1>6, <1>7 DEF Waiters
<1>. QED
  BY <1>1, <1>3, <1>8

\* close() puts the waiters of both FIFOs, receivers first, in the worker's chain.
LEMMA CloseLinks ==
  ASSUME Inv, NEW w \in Worker, NEW at \in Map, PlacesOK(at), CloseChannel(w),
         NEW c \in Channel, c = Ch(w)
  PROVE  \E q \in Seq(Fiber) : Waiters(q, c, at) /\ Links(q, w)
<1>1. PICK q \in Seq(Fiber) : q = recvq[c] \o sendq[c] /\ Waiters(q, c, at)
  BY FifosTogether
<1>8. /\ qnext' = [f \in Fiber |->
                     IF \E i \in DOMAIN q : q[i] = f
                     THEN IF (CHOOSE i \in DOMAIN q : q[i] = f) = 1 THEN NoFiber
                          ELSE q[(CHOOSE i \in DOMAIN q : q[i] = f) - 1]
                     ELSE qnext[f]]
      /\ chain' = [chain EXCEPT ![w] = IF q = <<>> THEN NoFiber ELSE q[Len(q)]]
  BY <1>1 DEF CloseChannel
<1>9. ASSUME NEW i \in DOMAIN q
      PROVE  qnext'[q[i]] = IF i = 1 THEN NoFiber ELSE q[i - 1]
  <2>1. q[i] \in Fiber
    OBVIOUS
  <2>2. (CHOOSE j \in DOMAIN q : q[j] = q[i]) = i
    BY <1>1 DEF Waiters
  <2>. QED
    BY <1>8, <2>1, <2>2
<1>10. \A f \in Fiber : (\A i \in DOMAIN q : q[i] # f) => qnext'[f] = qnext[f]
  BY <1>8
<1>11. Links(q, w)
  BY ONLY <1>8, <1>9, <1>10 DEF Links
<1>. QED
  BY <1>1, <1>11

LEMMA ClosePlaced ==
  ASSUME Inv, NEW w \in Worker, NEW at \in Map, PlacesOK(at), Elsewhere(w), CloseChannel(w)
  PROVE  Placed'
<1>. WorkersOK /\ FibersOK /\ ChannelsOK
  BY DEF Inv, TypeOK
<1>1. PICK c \in Channel : c = Ch(w)
  BY ChType DEF CloseChannel
<1>2. /\ wpc[w] = "exec" /\ wpc' = [wpc EXCEPT ![w] = "chain"]
      /\ recvq' = [recvq EXCEPT ![c] = <<>>] /\ sendq' = [sendq EXCEPT ![c] = <<>>]
      /\ UNCHANGED <<fstate, curOpen, group, head, tail, nready, pinned>>
  BY <1>1 DEF CloseChannel, Executing, Goto, groupVars
<1>q. PICK q \in Seq(Fiber) : Waiters(q, c, at) /\ Links(q, w)
  BY <1>1, CloseLinks
<1>3. /\ \A i \in DOMAIN q : at[q[i]].spot \in {"recv", "send"} /\ at[q[i]].own = c
      /\ \A i, j \in DOMAIN q : q[i] = q[j] => i = j
      /\ \A f \in Fiber : at[f].spot \in {"recv", "send"} /\ at[f].own = c =>
                            \E i \in DOMAIN q : q[i] = f
      /\ \A i \in DOMAIN q : qnext'[q[i]] = IF i = 1 THEN NoFiber ELSE q[i - 1]
      /\ \A f \in Fiber : (\A i \in DOMAIN q : q[i] # f) => qnext'[f] = qnext[f]
      /\ chain' = [chain EXCEPT ![w] = IF q = <<>> THEN NoFiber ELSE q[Len(q)]]
  BY <1>q DEF Waiters, Links
<1>4. PICK M : M = {f \in Fiber : \E i \in DOMAIN q : q[i] = f}
  OBVIOUS
<1>5. \A i \in DOMAIN q : q[i] \in M /\ i \in 1 .. Len(q)
  BY <1>4
<1>6. PICK idx : idx = [f \in M |-> CHOOSE i \in DOMAIN q : q[i] = f]
  OBVIOUS
<1>7. \A f \in M : idx[f] \in DOMAIN q /\ q[idx[f]] = f
  BY <1>4, <1>6
<1>8. PICK new : new = [f \in Fiber |->
                         IF f \in M THEN [spot |-> "chain", own |-> w, pos |-> Len(q) - idx[f]]
                                    ELSE at[f]]
  OBVIOUS
<1>9. /\ \A f \in M : /\ f \in Fiber /\ new[f].spot = "chain" /\ new[f].own = w
                      /\ new[f].pos = Len(q) - idx[f]
                      /\ new[f] \in [spot : Asleep \cup Awake \cup {"none"},
                            own : Channel \cup Worker \cup Nursery \cup {NoFiber}, pos : Int]
      /\ \A f \in Fiber \ M : new[f] = at[f]
  <2>1. \A f \in M : f \in Fiber /\ Len(q) - idx[f] \in Int
    BY <1>4, <1>7
  <2>. QED
    BY <1>8, <2>1 DEF Asleep
<1>10. new \in Map
  BY <1>8, <1>9 DEF Map
<1>11. \A f \in M : at[f].spot \in {"recv", "send"} /\ at[f].own = c /\ fstate[f] = "parked"
  <2>1. \A f \in M : at[f].spot \in {"recv", "send"} /\ at[f].own = c /\ f \in Fiber
    BY <1>3, <1>4
  <2>. QED
    BY <2>1 DEF PlacesOK, Standing, Asleep
<1>12. Standing(new)'
  BY <1>2, <1>9, <1>11 DEF PlacesOK, Standing, Asleep, Awake
<1>13. Waiting(new)'
  <2>1. \A f \in Fiber : new[f].spot \in {"recv", "send"} => f \notin M /\ new[f] = at[f] /\ new[f].own # c
    <3>1. ASSUME NEW f \in Fiber, new[f].spot \in {"recv", "send"} PROVE f \notin M
      BY <1>9, <3>1
    <3>. QED
      BY <1>3, <1>4, <1>9, <3>1
  <2>2. ASSUME NEW d \in Channel, NEW s \in {"recv", "send"}, NEW r \in Seq(Fiber), Fifo(r, d, s, at),
               d # c
        PROVE  Fifo(r, d, s, new)
    <3>1. \A i \in DOMAIN r : r[i] \in Fiber /\ r[i] \notin M
      BY <1>11, <2>2 DEF Fifo
    <3>. QED
      BY <1>9, <2>1, <2>2, <3>1 DEF Fifo
  <2>3. ASSUME NEW d \in Channel
        PROVE  Fifo(recvq'[d], d, "recv", new) /\ Fifo(sendq'[d], d, "send", new)
    <3>1. CASE d = c
      <4>1. recvq'[d] = <<>> /\ sendq'[d] = <<>>
        BY <1>2, <3>1 DEF ChannelsOK
      <4>. QED
        BY <2>1, <3>1, <4>1 DEF Fifo
    <3>2. CASE d # c
      <4>1. recvq'[d] = recvq[d] /\ sendq'[d] = sendq[d]
        BY <1>2, <3>2 DEF ChannelsOK
      <4>2. /\ recvq[d] \in Seq(Fiber) /\ sendq[d] \in Seq(Fiber)
            /\ Fifo(recvq[d], d, "recv", at) /\ Fifo(sendq[d], d, "send", at)
        BY DEF PlacesOK, Waiting, ChannelsOK
      <4>. QED
        BY <2>2, <3>2, <4>1, <4>2
    <3>. QED
      BY <3>1, <3>2
  <2>4. \A g \in Fiber : new[g].spot \in {"recv", "send"} => new[g].own \in Channel
    BY <2>1 DEF PlacesOK, Waiting
  <2>5. \A d \in Channel : Fifo(recvq[d], d, "recv", new)' /\ Fifo(sendq[d], d, "send", new)'
    BY <2>3 DEF Fifo
  <2>. QED
    BY <2>4, <2>5 DEF Waiting
<1>14. \A S \in {Hands, {"join"}, {"queue"}, {"pinned"}} : Agree(S, at, new)
  BY <1>9, <1>11 DEF Agree, Hands
<1>15. wpc'[w] = "chain" /\ At(w)' = "chain" /\ At(w) = "exec"
  BY <1>2 DEF WorkersOK, At
<1>16. SameHands
  BY <1>2, <1>15, StillHands DEF Hands
<1>17. Handled(new)'
  BY <1>10, <1>14, <1>16, HandledFrame DEF PlacesOK
<1>18. Joining(new)'
  <2>1. SameParents
    BY <1>2, StillParents
  <2>. QED
    BY <1>10, <1>14, <2>1, JoiningFrame DEF PlacesOK
<1>19. Queued(new)'
  <2>1. \A f \in Fiber : at[f].spot = "queue" => f \notin M
    BY <1>11
  <2>2. \A f \in Fiber : at[f].spot = "queue" => qnext'[f] = qnext[f]
    BY <1>3, <1>4, <2>1
  <2>. QED
    BY <1>2, <1>10, <1>14, <2>2, QueuedFrame DEF PlacesOK
<1>20. Slot(new)'
  BY <1>2, <1>10, <1>14, SlotFrame DEF PlacesOK
<1>21. Chained(new)'
  <2>1. InChain(w, at) = {} /\ chain[w] = NoFiber
    BY <1>15 DEF PlacesOK, Chained, List
  <2>2. InChain(w, new) = M
    BY <1>9, <2>1 DEF InChain
  <2>3. List(chain[w], InChain(w, new), new)'
    <3>1. PICK h : h = IF q = <<>> THEN NoFiber ELSE q[Len(q)]
      OBVIOUS
    <3>2. CASE q = <<>>
      <4>1. M = {}
        BY <1>4, <3>2
      <4>2. List(h, M, new)'
        BY <3>1, <3>2, <4>1 DEF List
      <4>3. chain'[w] = h
        BY <1>3, <3>1 DEF WorkersOK
      <4>. QED
        BY ONLY <2>2, <4>2, <4>3 DEF List, InChain
    <3>3. CASE q # <<>>
      <4>1. /\ h \in M /\ Len(q) \in DOMAIN q /\ h = q[Len(q)]
            /\ \A i \in DOMAIN q : i \in Int /\ 1 <= i /\ i <= Len(q)
            /\ Len(q) \in Int
        BY <1>5, <3>1, <3>3
      <4>2. \A f \in M : idx[f] \in DOMAIN q /\ q[idx[f]] = f /\ new[f].pos = Len(q) - idx[f]
        BY <1>7, <1>9
      <4>3. \A i \in DOMAIN q : idx[q[i]] = i
        BY <1>3, <1>5, <1>7
      <4>4. \A f \in M : new[h].pos <= new[f].pos
        BY <4>1, <4>2, <4>3
      <4>5. ASSUME NEW f \in M
            PROVE  \/ qnext'[f] \in M /\ new[qnext'[f]].pos = new[f].pos + 1
                   \/ qnext'[f] = NoFiber /\ \A g \in M : new[g].pos <= new[f].pos
        <5>1. PICK i \in DOMAIN q : i = idx[f] /\ q[i] = f
          BY <4>2
        <5>2. qnext'[f] = IF i = 1 THEN NoFiber ELSE q[i - 1]
          BY <1>3, <5>1
        <5>3. CASE i = 1
          <6>1. \A g \in M : idx[g] \in Int /\ 1 <= idx[g] /\ new[g].pos = Len(q) - idx[g]
            BY ONLY <4>1, <4>2
          <6>2. new[f].pos = Len(q) - 1 /\ Len(q) \in Int
            BY ONLY <4>1, <4>2, <5>1, <5>3, f \in M
          <6>3. \A g \in M : new[g].pos <= new[f].pos
            BY ONLY <6>1, <6>2
          <6>. QED
            BY ONLY <5>2, <5>3, <6>3
        <5>4. CASE i # 1
          <6>1. i - 1 \in DOMAIN q
            BY <5>4
          <6>2. q[i - 1] \in M /\ idx[q[i - 1]] = i - 1
            BY <1>5, <4>3, <6>1
          <6>3. new[q[i - 1]].pos = Len(q) - (i - 1) /\ new[f].pos = Len(q) - i
            BY ONLY <4>2, <5>1, <6>2
          <6>. QED
            BY ONLY <4>1, <5>1, <5>2, <5>4, <6>2, <6>3
        <5>. QED
          BY <5>3, <5>4
      <4>6. ASSUME NEW f \in M, NEW g \in M, new[f].pos = new[g].pos PROVE f = g
        <5>1. idx[f] = idx[g]
          BY <4>1, <4>2, <4>6
        <5>. QED
          BY <4>2, <5>1
      <4>7. h # NoFiber
        BY <1>9, <4>1, SchedulerAssumption DEF SchedulerAssumption
      <4>8. List(h, M, new)'
        BY ONLY <4>1, <4>4, <4>5, <4>6, <4>7 DEF List
      <4>9. chain'[w] = h
        BY <1>3, <3>1 DEF WorkersOK
      <4>. QED
        BY ONLY <2>2, <4>8, <4>9 DEF List, InChain
    <3>. QED
      BY <3>2, <3>3
  <2>4. ASSUME NEW v \in Worker \ {w}
        PROVE  List(chain[v], InChain(v, new), new)' /\ (At(v)' # "chain" => chain'[v] = NoFiber)
    <3>1. InChain(v, new) = InChain(v, at)
      BY <1>9, <1>11 DEF InChain
    <3>2. \A f \in InChain(v, at) : new[f] = at[f] /\ qnext'[f] = qnext[f]
      <4>1. \A f \in InChain(v, at) : f \in Fiber /\ f \notin M
        BY <1>11 DEF InChain
      <4>. QED
        BY <1>3, <1>4, <1>9, <4>1
    <3>3. List(chain[v], InChain(v, at), at) /\ chain'[v] = chain[v]
      BY DEF PlacesOK, Chained, Elsewhere
    <3>4. PICK h, N : h = chain[v] /\ N = InChain(v, at)
      OBVIOUS
    <3>5. List(h, N, new)'
      BY ONLY <3>2, <3>3, <3>4, ListFrame DEF List
    <3>6. chain'[v] = h /\ InChain(v, new)' = N
      BY <3>1, <3>3, <3>4 DEF InChain
    <3>7. List(chain[v], InChain(v, new), new)'
      BY ONLY <3>5, <3>6 DEF List
    <3>8. At(v)' # "chain" => chain'[v] = NoFiber
      BY DEF PlacesOK, Chained, Elsewhere
    <3>. QED
      BY <3>7, <3>8
  <2>5. \A f \in Fiber : new[f].spot = "chain" => new[f].own \in Worker
    BY <1>9 DEF PlacesOK, Chained
  <2>. QED
    BY <1>15, <2>3, <2>4, <2>5 DEF Chained
<1>. QED
  BY <1>10, <1>12, <1>13, <1>17, <1>18, <1>19, <1>20, <1>21 DEF Placed, PlacesOK

\* The next of the chain goes into the worker's hands.
LEMMA WalkPlaced ==
  ASSUME Inv, NEW w \in Worker, NEW at \in Map, PlacesOK(at), Elsewhere(w), WalkChain(w)
  PROVE  Placed'
<1>. WorkersOK /\ FibersOK
  BY DEF Inv, TypeOK
<1>1. /\ wpc[w] = "chain"
      /\ UNCHANGED <<fstate, curOpen, group, recvq, sendq, qnext, head, tail, nready, pinned>>
  BY DEF WalkChain, fiberVars, queueVars, groupVars, chanVars
<1>2. SameParents
  BY <1>1, StillParents
<1>3. CASE chain[w] = NoFiber
  <2>1. chain' = chain /\ wpc'[w] = "exec"
    BY <1>3 DEF WalkChain, Goto, WorkersOK
  <2>2. SameHands
    BY <1>1, <2>1, StillHands DEF Hands
  <2>3. SameChains
    BY <1>3, <2>1, StillChains
  <2>4. Still
    BY <1>1, <1>2, <2>2, <2>3 DEF Still, SameStates
  <2>. QED
    BY <2>4, StillPlaced DEF Placed
<1>4. CASE chain[w] # NoFiber
  <2>1. PICK f \in Fiber : f = chain[w]
    BY <1>4 DEF WorkersOK
  <2>2. /\ wpc'[w] = "wake" /\ todo'[w] = <<f>> /\ then'[w] = "chain"
        /\ chain' = [chain EXCEPT ![w] = qnext[f]]
    BY <1>4, <2>1 DEF WalkChain, RequeueThen, Goto, WorkersOK
  <2>3. List(f, InChain(w, at), at)
    BY <2>1 DEF PlacesOK, Chained
  <2>4. at[f].spot = "chain" /\ at[f].own = w /\ fstate[f] = "parked"
    <3>1. f \in InChain(w, at)
      BY <1>4, <2>1, <2>3 DEF List
    <3>. QED
      BY <3>1 DEF InChain, PlacesOK, Standing, Asleep
  <2>5. PICK new \in Map : /\ new[f] = [spot |-> "wake", own |-> w, pos |-> 0]
                           /\ Moves(f, at, new)
    <3>1. "wake" \in Asleep \cup Awake \cup {"none"}
      BY DEF Asleep
    <3>. QED
      BY ONLY <3>1, at \in Map, f \in Fiber, w \in Worker, MoveMap
  <2>. new[f].spot = "wake" /\ new[f].own = w
    BY <2>5
  <2>6. Standing(new)'
    BY <1>1, <2>4, <2>5, MoveStanding DEF PlacesOK, Asleep, Awake
  <2>7. \A S \in {{"recv", "send"}, {"join"}, {"queue"}, {"pinned"}} : Agree(S, at, new)
    BY <2>4, <2>5, MoveAgree
  <2>8. Handled(new)'
    BY <1>1, <2>2, <2>4, <2>5, TakeInHand DEF PlacesOK, Hands
  <2>9. Waiting(new)' /\ Joining(new)' /\ Queued(new)' /\ Slot(new)'
    BY <1>1, <1>2, <2>7, WaitingFrame, JoiningFrame, QueuedFrame, SlotFrame DEF PlacesOK
  <2>10. Chained(new)'
    <3>1. InChain(w, new) = InChain(w, at) \ {f}
      BY <2>5 DEF InChain, Moves
    <3>2. List(qnext[f], InChain(w, at) \ {f}, at)
      <4>1. InChain(w, at) \in SUBSET Fiber /\ f # NoFiber
        BY <1>4, <2>1 DEF InChain
      <4>. QED
        BY <2>3, <4>1, ListRest
    <3>3. PICK h, M : h = qnext[f] /\ M = InChain(w, at) \ {f}
      OBVIOUS
    <3>4. List(h, M, at)
      BY <3>2, <3>3
    <3>5. \A g \in M : new[g] = at[g] /\ qnext'[g] = qnext[g]
      BY <1>1, <2>5, <3>3 DEF InChain, Moves
    <3>6. List(h, M, new)'
      BY ONLY <3>4, <3>5, ListFrame DEF List
    <3>7. chain'[w] = h /\ InChain(w, new)' = M
      BY <2>2, <3>1, <3>3 DEF InChain, WorkersOK
    <3>8. List(chain[w], InChain(w, new), new)'
      BY ONLY <3>6, <3>7 DEF List
    <3>9. At(w)' = "chain"
      BY <2>2 DEF At
    <3>10. ASSUME NEW v \in Worker \ {w}
           PROVE  /\ List(chain[v], InChain(v, new), new)'
                  /\ At(v)' # "chain" => chain'[v] = NoFiber
      <4>1. InChain(v, new) = InChain(v, at)
        BY <2>4, <2>5 DEF InChain, Moves
      <4>2. \A g \in InChain(v, at) : new[g] = at[g] /\ qnext'[g] = qnext[g]
        BY <1>1, <2>4, <2>5 DEF InChain, Moves
      <4>3. List(chain[v], InChain(v, at), at) /\ chain'[v] = chain[v]
        BY DEF PlacesOK, Chained, Elsewhere
      <4>4. PICK k, N : k = chain[v] /\ N = InChain(v, at)
        OBVIOUS
      <4>5. List(k, N, new)'
        BY ONLY <4>2, <4>3, <4>4, ListFrame DEF List
      <4>6. chain'[v] = k /\ InChain(v, new)' = N
        BY <4>1, <4>3, <4>4 DEF InChain
      <4>7. List(chain[v], InChain(v, new), new)'
        BY ONLY <4>5, <4>6 DEF List
      <4>8. At(v)' # "chain" => chain'[v] = NoFiber
        BY DEF PlacesOK, Chained, Elsewhere
      <4>. QED
        BY <4>7, <4>8
    <3>11. \A g \in Fiber : new[g].spot = "chain" => new[g].own \in Worker
      BY <2>5 DEF PlacesOK, Chained, Moves
    <3>. QED
      BY <3>8, <3>9, <3>10, <3>11 DEF Chained
  <2>. QED
    BY <2>6, <2>8, <2>9, <2>10 DEF Placed, PlacesOK
<1>. QED
  BY <1>3, <1>4

\* The compare-and-swap: it finds the fiber parked.
LEMMA RequeuePlaced ==
  ASSUME Inv, NEW w \in Worker, NEW at \in Map, PlacesOK(at), Elsewhere(w), Requeue(w)
  PROVE  Placed'
<1>. WorkersOK /\ FibersOK
  BY DEF Inv, TypeOK
<1>1. /\ wpc[w] = "wake"
      /\ UNCHANGED <<curOpen, group, recvq, sendq, qnext, head, tail, nready, pinned, chain, then>>
  BY DEF Requeue, queueVars, groupVars, chanVars
<1>2. PICK f \in Fiber : f = Head(todo[w]) /\ f = todo[w][1] /\ Len(todo[w]) = 1
  <2>1. Len(todo[w]) = 1 /\ todo[w] \in Seq(Fiber)
    BY <1>1 DEF PlacesOK, Handled, Hands, WorkersOK
  <2>. QED
    BY ONLY <2>1, OneItem
<1>3. at[f].spot = "wake" /\ at[f].own = w /\ fstate[f] = "parked"
  BY <1>1, <1>2 DEF PlacesOK, Handled, Standing, Asleep, Hands
<1>4. /\ fstate' = [fstate EXCEPT ![f] = "ready"]
      /\ wpc' = [wpc EXCEPT ![w] = "push"] /\ todo' = todo
  BY <1>2, <1>3 DEF Requeue, CanRequeue, Goto
<1>5. PICK new \in Map : /\ new[f] = [spot |-> "push", own |-> w, pos |-> 0]
                         /\ Moves(f, at, new)
  <2>1. "push" \in Asleep \cup Awake \cup {"none"}
    BY DEF Awake
  <2>. QED
    BY ONLY <2>1, at \in Map, f \in Fiber, w \in Worker, MoveMap
<1>. new[f].spot = "push" /\ new[f].own = w
  BY <1>5
<1>6. Standing(new)'
  <2>1. fstate'[f] = "ready" /\ \A g \in Fiber \ {f} : fstate'[g] = fstate[g]
    BY <1>4 DEF FibersOK
  <2>. QED
    BY <1>5, <2>1, MoveStanding DEF PlacesOK, Asleep, Awake
<1>7. \A S \in {{"recv", "send"}, {"join"}, {"chain"}, {"queue"}, {"pinned"}} : Agree(S, at, new)
  BY <1>3, <1>5, MoveAgree
<1>8. SameParents
  BY <1>1, StillParents
<1>9. SameChains
  <2>1. At(w)' = At(w)
    BY <1>1, <1>4 DEF At, WorkersOK
  <2>. QED
    BY <1>1, <2>1, StillChains
<1>10. Waiting(new)' /\ Joining(new)' /\ Queued(new)' /\ Slot(new)' /\ Chained(new)'
  BY <1>1, <1>7, <1>8, <1>9, WaitingFrame, JoiningFrame, QueuedFrame, SlotFrame, ChainedFrame
     DEF PlacesOK
<1>11. Handled(new)'
  <2>1. ASSUME NEW v \in Worker, wpc'[v] \in Hands
        PROVE  Len(todo'[v]) = 1 /\ new[todo'[v][1]].spot = wpc'[v] /\ new[todo'[v][1]].own = v
    <3>1. CASE v = w
      BY <1>2, <1>4, <3>1 DEF WorkersOK
    <3>2. CASE v # w
      <4>1. wpc[v] \in Hands /\ wpc'[v] = wpc[v] /\ todo'[v] = todo[v]
        BY <2>1, <3>2 DEF Elsewhere
      <4>2. Len(todo[v]) = 1 /\ at[todo[v][1]].spot = wpc[v] /\ at[todo[v][1]].own = v
        BY <4>1 DEF PlacesOK, Handled
      <4>3. todo[v] \in Seq(Fiber)
        BY DEF WorkersOK
      <4>4. todo[v][1] \in Fiber /\ todo[v][1] # f
        BY <1>3, <3>2, <4>2, <4>3
      <4>. QED
        BY <1>5, <4>1, <4>2, <4>4 DEF Moves
    <3>. QED
      BY <3>1, <3>2
  <2>2. ASSUME NEW g \in Fiber, new[g].spot \in Hands
        PROVE  /\ new[g].own \in Worker /\ wpc'[new[g].own] = new[g].spot
               /\ todo'[new[g].own][1] = g
    <3>1. CASE g = f
      BY <1>2, <1>4, <3>1 DEF WorkersOK
    <3>2. CASE g # f
      <4>1. new[g] = at[g]
        BY <1>5, <3>2 DEF Moves
      <4>2. /\ at[g].own \in Worker /\ wpc[at[g].own] = at[g].spot
            /\ todo[at[g].own][1] = g
        BY <2>2, <4>1 DEF PlacesOK, Handled
      <4>3. at[g].own # w
        BY <1>2, <3>2, <4>2
      <4>. QED
        BY <2>2, <4>1, <4>2, <4>3 DEF Elsewhere
    <3>. QED
      BY <3>1, <3>2
  <2>. QED
    BY <2>1, <2>2 DEF Handled
<1>. QED
  BY <1>6, <1>10, <1>11 DEF Placed, PlacesOK

\* w has f in its hands no more.
LEMMA LetGo ==
  ASSUME Inv, NEW w \in Worker, NEW at \in Map, NEW new \in Map, NEW f \in Fiber, Handled(at),
         Moves(f, at, new), new[f].spot \notin Hands, at[f].spot \in Hands, at[f].own = w,
         Elsewhere(w), wpc'[w] \notin Hands
  PROVE  Handled(new)'
<1>1. ASSUME NEW v \in Worker, wpc'[v] \in Hands
      PROVE  Len(todo'[v]) = 1 /\ new[todo'[v][1]].spot = wpc'[v] /\ new[todo'[v][1]].own = v
  <2>1. v # w /\ wpc[v] \in Hands /\ wpc'[v] = wpc[v] /\ todo'[v] = todo[v]
    BY <1>1 DEF Elsewhere
  <2>2. Len(todo[v]) = 1 /\ at[todo[v][1]].spot = wpc[v] /\ at[todo[v][1]].own = v
    BY <2>1 DEF Handled
  <2>3. todo[v] \in Seq(Fiber)
    BY DEF Inv, TypeOK, WorkersOK
  <2>4. todo[v][1] \in Fiber /\ todo[v][1] # f
    BY <2>1, <2>2, <2>3
  <2>. QED
    BY <2>1, <2>2, <2>4 DEF Moves
<1>2. ASSUME NEW g \in Fiber, new[g].spot \in Hands
      PROVE  /\ new[g].own \in Worker /\ wpc'[new[g].own] = new[g].spot
             /\ todo'[new[g].own][1] = g
  <2>1. g # f /\ new[g] = at[g]
    BY <1>2 DEF Moves
  <2>2. /\ at[g].own \in Worker /\ wpc[at[g].own] = at[g].spot
        /\ todo[at[g].own][1] = g
    BY <1>2, <2>1 DEF Handled
  <2>3. at[g].own # w
    <3>1. /\ at[f].own \in Worker /\ wpc[at[f].own] = at[f].spot
          /\ todo[at[f].own][1] = f
      BY DEF Handled
    <3>. QED
      BY <2>1, <2>2, <3>1
  <2>. QED
    BY <1>2, <2>1, <2>2, <2>3 DEF Elsewhere
<1>. QED
  BY <1>1, <1>2 DEF Handled

\* f is linked at the tail of the ready-queue.
LEMMA EnqueueQueued ==
  ASSUME Inv, NEW at \in Map, NEW new \in Map, NEW f \in Fiber, PlacesOK(at), Moves(f, at, new),
         at[f].spot # "queue", new[f].spot = "queue",
         tail # NoFiber => new[f].pos = at[tail].pos + 1, Enqueue(f)
  PROVE  /\ Queued(new)'
         /\ \A g \in Fiber : at[g].spot = "chain" /\ g # f => qnext'[g] = qnext[g]
<1>. QueueOK /\ NoFiber \notin Fiber
  BY SchedulerAssumption DEF SchedulerAssumption, Inv, TypeOK
<1>1. InQueue(new) = InQueue(at) \cup {f} /\ f \notin InQueue(at) /\ InQueue(at) \in SUBSET Fiber
  BY DEF InQueue, Moves
<1>2. PICK M, h, t : M = InQueue(at) /\ h = head /\ t = tail
  OBVIOUS
<1>3. /\ List(h, M, at) /\ (h = NoFiber => t = NoFiber)
      /\ h # NoFiber => t \in M /\ qnext[t] = NoFiber
      /\ IsFiniteSet(M) /\ nready = Cardinality(M)
  BY <1>2 DEF PlacesOK, Queued
<1>4. M \in SUBSET Fiber /\ f \notin M
  BY <1>1, <1>2
<1>5. t = NoFiber => h = NoFiber
  BY <1>3, <1>4
<1>6. qnext' = [g \in Fiber |-> IF g = t THEN f ELSE IF g = f THEN NoFiber ELSE qnext[g]]
  BY <1>2 DEF Enqueue
<1>7. h # NoFiber => new[f].pos = at[t].pos + 1
  BY <1>2, <1>3, <1>4
<1>8. List(IF t = NoFiber THEN f ELSE h, M \cup {f}, new)'
  BY ONLY <1>3, <1>4, <1>5, <1>6, <1>7, ListAdd, Moves(f, at, new), at \in Map, new \in Map,
     f \in Fiber
<1>9. InQueue(new)' = M \cup {f}
  BY <1>1, <1>2 DEF InQueue
<1>10. head' = (IF t = NoFiber THEN f ELSE h) /\ tail' = f /\ nready' = nready + 1
  BY <1>2 DEF Enqueue
<1>11. List(head, InQueue(new), new)'
  BY ONLY <1>8, <1>9, <1>10 DEF List
<1>12. qnext'[f] = NoFiber
  <2>1. f # t
    BY <1>3, <1>4, <1>5
  <2>. QED
    BY <1>6, <2>1
<1>13. head' # NoFiber /\ tail' \in M \cup {f}
  BY <1>3, <1>5, <1>10
<1>14. IsFiniteSet(M \cup {f}) /\ nready' = Cardinality(M \cup {f})
  BY ONLY <1>3, <1>4, <1>10, FS_AddElement
<1>15. Queued(new)'
  BY ONLY <1>9, <1>10, <1>11, <1>12, <1>13, <1>14 DEF Queued
<1>16. \A g \in Fiber : at[g].spot = "chain" /\ g # f => qnext'[g] = qnext[g]
  <2>1. ASSUME NEW g \in Fiber, at[g].spot = "chain" PROVE g # t
    BY <1>2, <1>3, <1>5, <2>1 DEF InQueue
  <2>. QED
    BY <1>6, <2>1
<1>. QED
  BY <1>15, <1>16

\* rq_push: the pinned slot for the main fiber, the ready-queue for any other.
LEMMA PushPlaced ==
  ASSUME Inv, NEW w \in Worker, NEW at \in Map, PlacesOK(at), Elsewhere(w), Push(w)
  PROVE  Placed'
<1>. WorkersOK /\ FibersOK /\ QueueOK
  BY DEF Inv, TypeOK
<1>1. /\ wpc[w] = "push"
      /\ UNCHANGED <<fstate, curOpen, group, recvq, sendq, chain, then>>
  BY DEF Push, fiberVars, groupVars, chanVars
<1>2. PICK f \in Fiber : f = Head(todo[w]) /\ f = todo[w][1] /\ Tail(todo[w]) = <<>>
  <2>1. Len(todo[w]) = 1 /\ todo[w] \in Seq(Fiber)
    BY <1>1 DEF PlacesOK, Handled, Hands, WorkersOK
  <2>. QED
    BY ONLY <2>1, OneItem
<1>3. at[f].spot = "push" /\ at[f].own = w /\ fstate[f] = "ready"
  BY <1>1, <1>2 DEF PlacesOK, Handled, Standing, Awake, Hands
<1>4. wpc'[w] = then[w]
  <2>1. PICK s : GotoWaking(w, Next1(w), s)
    BY DEF Push
  <2>. QED
    BY <1>2, <2>1 DEF GotoWaking, Next1
<1>5. then[w] \notin Hands
  BY DEF WorkersOK, Hands
<1>6. SameParents
  BY <1>1, StillParents
<1>7. SameChains
  <2>1. At(w)' = At(w)
    BY <1>1, <1>4, <1>5 DEF At, Hands
  <2>. QED
    BY <1>1, <2>1, StillChains
<1>8. CASE f = Main
  <2>1. pinned' = f /\ UNCHANGED <<qnext, head, tail, nready>>
    BY <1>2, <1>8 DEF Push, Pinned
  <2>2. PICK new \in Map : /\ new[f] = [spot |-> "pinned", own |-> NoFiber, pos |-> 0]
                           /\ Moves(f, at, new)
    <3>1. "pinned" \in Asleep \cup Awake \cup {"none"}
      BY DEF Awake
    <3>. QED
      BY ONLY <3>1, at \in Map, f \in Fiber, w \in Worker, MoveMap
  <2>. new[f].spot = "pinned"
    BY <2>2
  <2>3. Standing(new)'
    BY <1>1, <1>3, <2>2, MoveStanding DEF PlacesOK, Asleep, Awake
  <2>4. \A S \in {{"recv", "send"}, {"join"}, {"chain"}, {"queue"}} : Agree(S, at, new)
    BY <1>3, <2>2, MoveAgree
  <2>5. Waiting(new)' /\ Joining(new)' /\ Queued(new)' /\ Chained(new)'
    BY <1>1, <1>6, <1>7, <2>1, <2>4, WaitingFrame, JoiningFrame, QueuedFrame, ChainedFrame
       DEF PlacesOK
  <2>6. Handled(new)'
    BY <1>3, <1>4, <1>5, <2>2, LetGo DEF PlacesOK, Hands
  <2>7. Slot(new)'
    <3>1. pinned # f /\ pinned \in {NoFiber, Main}
      BY <1>3 DEF PlacesOK, Slot, QueueOK
    <3>2. \A g \in Fiber \ {f} : at[g].spot # "pinned"
      BY <1>8, <3>1, SchedulerAssumption DEF PlacesOK, Slot, SchedulerAssumption
    <3>. QED
      BY <2>1, <2>2, <3>2 DEF Slot, Moves
  <2>. QED
    BY <2>3, <2>5, <2>6, <2>7 DEF Placed, PlacesOK
<1>9. CASE f # Main
  <2>1. pinned' = pinned /\ Enqueue(f)
    BY <1>2, <1>9 DEF Push, Pinned
  <2>2. PICK new \in Map :
          /\ new[f] = [spot |-> "queue", own |-> NoFiber,
                       pos |-> IF tail = NoFiber THEN 0 ELSE at[tail].pos + 1]
          /\ Moves(f, at, new)
    <3>1. "queue" \in Asleep \cup Awake \cup {"none"}
      BY DEF Awake
    <3>2. PICK p \in Int : p = IF tail = NoFiber THEN 0 ELSE at[tail].pos + 1
      BY NextRank
    <3>. QED
      BY ONLY <3>1, <3>2, at \in Map, f \in Fiber, MoveMap
  <2>. new[f].spot = "queue" /\ (tail # NoFiber => new[f].pos = at[tail].pos + 1)
    BY <2>2
  <2>3. Standing(new)'
    BY <1>1, <1>3, <1>9, <2>2, MoveStanding DEF PlacesOK, Asleep, Awake
  <2>4. \A S \in {{"recv", "send"}, {"join"}, {"chain"}, {"pinned"}} : Agree(S, at, new)
    BY <1>3, <2>2, MoveAgree
  <2>5. Queued(new)' /\ \A g \in Fiber : at[g].spot = "chain" => qnext'[g] = qnext[g]
    BY <1>3, <2>1, <2>2, EnqueueQueued
  <2>6. Waiting(new)' /\ Joining(new)' /\ Chained(new)' /\ Slot(new)'
    BY <1>1, <1>6, <1>7, <2>1, <2>4, <2>5, WaitingFrame, JoiningFrame, ChainedFrame, SlotFrame
       DEF PlacesOK
  <2>7. Handled(new)'
    BY <1>3, <1>4, <1>5, <2>2, LetGo DEF PlacesOK, Hands
  <2>. QED
    BY <2>3, <2>5, <2>6, <2>7 DEF Placed, PlacesOK
<1>. QED
  BY <1>8, <1>9

\* A spawned fiber goes into the ready-queue.
LEMMA SpawnPlaced ==
  ASSUME Inv, NEW w \in Worker, NEW at \in Map, PlacesOK(at), Elsewhere(w), Spawn(w),
         fstate[Main] # "unborn"
  PROVE  Placed'
<1>. WorkersOK /\ FibersOK /\ QueueOK /\ GroupsOK
  BY DEF Inv, TypeOK
<1>1. /\ wpc[w] = "exec" /\ wpc'[w] = "exec"
      /\ UNCHANGED <<curOpen, recvq, sendq, chain, pinned>>
  <2>1. PICK s : GotoWaking(w, "exec", s)
    BY DEF Spawn
  <2>. QED
    BY <2>1 DEF Spawn, Executing, GotoWaking, chanVars, localVars
<1>2. PICK f, n : /\ f = Code[cur[w]][pc[cur[w]]].child /\ n = curOpen[cur[w]] /\ n # NoNursery
                  /\ fstate[f] = "unborn" /\ fstate' = [fstate EXCEPT ![f] = "ready"]
                  /\ group' = [group EXCEPT ![n] =
                                 [@ EXCEPT !.children = <<f>> \o group[n].children,
                                           !.live = group[n].live + 1]]
                  /\ Enqueue(f)
  BY DEF Spawn
<1>3. f \in Fiber /\ n \in Nursery /\ f # Main
  BY <1>2, OpFields DEF Spawn, Executing, WorkersOK, FibersOK
<1>4. at[f].spot = "none"
  BY <1>2, <1>3 DEF PlacesOK, Standing, Map
<1>5. SameParents
  <2>1. group[n] \in Group /\ \A m \in Nursery \ {n} : group'[m] = group[m]
    BY <1>2, <1>3 DEF GroupsOK
  <2>2. group'[n] = [group[n] EXCEPT !.children = <<f>> \o group[n].children,
                                     !.live = group[n].live + 1]
    BY <1>2, <1>3 DEF GroupsOK
  <2>3. /\ group'[n].parentParked = group[n].parentParked /\ group'[n].parent = group[n].parent
        /\ group'[n].open = group[n].open /\ group'[n].live = group[n].live + 1
        /\ group[n].live \in Int
    BY <2>1, <2>2 DEF Group
  <2>4. \A m \in Nursery : group[m].parentParked => group[m].live >= 1 /\ group[m].open
    BY DEF PlacesOK, Joining
  <2>5. group[n].live >= 1 => group'[n].live >= 1
    BY ONLY <2>3
  <2>. QED
    BY ONLY <1>1, <2>1, <2>3, <2>4, <2>5 DEF SameParents
<1>6. SameHands
  BY <1>1, StillHands DEF Hands
<1>7. SameChains
  BY <1>1, StillChains DEF At
<1>8. PICK new \in Map :
        /\ new[f] = [spot |-> "queue", own |-> NoFiber,
                     pos |-> IF tail = NoFiber THEN 0 ELSE at[tail].pos + 1]
        /\ Moves(f, at, new)
  <2>1. "queue" \in Asleep \cup Awake \cup {"none"}
    BY DEF Awake
  <2>2. PICK p \in Int : p = IF tail = NoFiber THEN 0 ELSE at[tail].pos + 1
    BY NextRank
  <2>. QED
    BY ONLY <1>3, <2>1, <2>2, at \in Map, MoveMap
<1>. new[f].spot = "queue" /\ (tail # NoFiber => new[f].pos = at[tail].pos + 1)
  BY <1>8
<1>9. Standing(new)'
  <2>1. fstate'[f] = "ready" /\ \A g \in Fiber \ {f} : fstate'[g] = fstate[g]
    BY <1>2, <1>3 DEF FibersOK
  <2>. QED
    BY <1>3, <1>8, <2>1, MoveStanding DEF PlacesOK, Asleep, Awake
<1>10. \A S \in {{"recv", "send"}, Hands, {"join"}, {"chain"}, {"pinned"}} : Agree(S, at, new)
  BY <1>3, <1>4, <1>8, MoveAgree DEF Hands
<1>11. Queued(new)' /\ \A g \in Fiber : at[g].spot = "chain" => qnext'[g] = qnext[g]
  BY <1>2, <1>3, <1>4, <1>8, EnqueueQueued
<1>12. Waiting(new)' /\ Joining(new)' /\ Chained(new)' /\ Slot(new)' /\ Handled(new)'
  BY <1>1, <1>5, <1>6, <1>7, <1>10, <1>11, WaitingFrame, JoiningFrame, ChainedFrame, SlotFrame,
     HandledFrame DEF PlacesOK
<1>. QED
  BY <1>9, <1>11, <1>12 DEF Placed, PlacesOK

\* The parent of a nursery parks at its brace.
LEMMA JoinParkPlaced ==
  ASSUME Inv, Engagement, Nesting, NEW w \in Worker, NEW at \in Map, PlacesOK(at), Elsewhere(w),
         JoinPark(w)
  PROVE  Placed'
<1>. WorkersOK /\ FibersOK /\ GroupsOK
  BY DEF Inv, TypeOK
<1>1. /\ wpc[w] = "exec" /\ wpc' = [wpc EXCEPT ![w] = "rewind"]
      /\ UNCHANGED <<curOpen, recvq, sendq, qnext, head, tail, nready, pinned, chain>>
  BY DEF JoinPark, Executing, Goto, queueVars, chanVars
<1>2. PICK f, n : /\ f = cur[w] /\ n = curOpen[f] /\ n # NoNursery /\ ~(group[n].live <= 0)
                  /\ group' = [group EXCEPT ![n] = [@ EXCEPT !.parent = f, !.parentParked = TRUE]]
                  /\ fstate' = [fstate EXCEPT ![f] = "parked"]
  BY DEF JoinPark, Joinable
<1>3. f \in Fiber /\ fstate[f] = "running" /\ at[f].spot = "none"
  BY <1>1, <1>2, RunnerPlaceless DEF Stage, At
<1>4. n \in Nursery /\ group[n].open /\ group[n].live >= 1 /\ group[n] \in Group
  <2>1. n \in Nursery /\ group[n].open /\ group[n] \in Group
    BY <1>2, <1>3 DEF FibersOK, GroupsOK, Nesting
  <2>2. group[n].live \in Int
    BY <2>1 DEF Group
  <2>. QED
    BY <1>2, <2>1, <2>2
<1>5. \A g \in Fiber : at[g].spot = "join" => at[g].own # n
  BY <1>2, <1>3 DEF PlacesOK, Joining, Nesting
<1>6. PICK new \in Map : /\ new[f] = [spot |-> "join", own |-> n, pos |-> 0]
                         /\ Moves(f, at, new)
  <2>1. "join" \in Asleep \cup Awake \cup {"none"}
    BY DEF Asleep
  <2>. QED
    BY ONLY <1>3, <1>4, <2>1, at \in Map, MoveMap
<1>. new[f].spot = "join" /\ new[f].own = n
  BY <1>6
<1>7. Standing(new)'
  <2>1. fstate'[f] = "parked" /\ \A g \in Fiber \ {f} : fstate'[g] = fstate[g]
    BY <1>2, <1>3 DEF FibersOK
  <2>. QED
    BY <1>3, <1>6, <2>1, MoveStanding DEF PlacesOK, Asleep, Awake
<1>8. \A S \in {{"recv", "send"}, Hands, {"queue"}, {"chain"}, {"pinned"}} : Agree(S, at, new)
  BY <1>3, <1>6, MoveAgree DEF Hands
<1>9. SameHands
  <2>1. wpc'[w] = "rewind"
    BY <1>1 DEF WorkersOK
  <2>. QED
    BY <1>1, <2>1, StillHands DEF Hands
<1>10. SameChains
  BY <1>1, StillChains DEF At
<1>11. Waiting(new)' /\ Queued(new)' /\ Chained(new)' /\ Slot(new)' /\ Handled(new)'
  BY <1>1, <1>8, <1>9, <1>10, WaitingFrame, QueuedFrame, ChainedFrame, SlotFrame, HandledFrame
     DEF PlacesOK
<1>12. Joining(new)'
  <2>1. \A m \in Nursery \ {n} : group'[m] = group[m]
    BY <1>2 DEF GroupsOK
  <2>2. /\ group'[n].parentParked /\ group'[n].parent = f
        /\ group'[n].open = group[n].open /\ group'[n].live = group[n].live
    <3>1. group'[n] = [group[n] EXCEPT !.parent = f, !.parentParked = TRUE]
      BY <1>2, <1>4 DEF GroupsOK
    <3>. QED
      BY <1>4, <3>1 DEF Group
  <2>3. ASSUME NEW m \in Nursery, group'[m].parentParked
        PROVE  /\ group'[m].open /\ group'[m].live >= 1
               /\ new[group'[m].parent].spot = "join" /\ new[group'[m].parent].own = m
    <3>1. CASE m = n
      BY <1>4, <2>2, <3>1
    <3>2. CASE m # n
      <4>1. group'[m] = group[m]
        BY <2>1, <3>2
      <4>2. /\ group[m].open /\ group[m].live >= 1
            /\ at[group[m].parent].spot = "join" /\ at[group[m].parent].own = m
        BY <2>3, <4>1 DEF PlacesOK, Joining
      <4>3. group[m].parent \in Fiber /\ group[m].parent # f
        BY <1>3, <2>3, <4>1, <4>2 DEF Inv, ControlOK, GroupsOK, Group
      <4>. QED
        BY <1>6, <4>1, <4>2, <4>3 DEF Moves
    <3>. QED
      BY <3>1, <3>2
  <2>4. ASSUME NEW g \in Fiber, new[g].spot = "join"
        PROVE  /\ new[g].own \in Nursery /\ curOpen'[g] = new[g].own
               /\ group'[new[g].own].parentParked /\ group'[new[g].own].parent = g
    <3>1. CASE g = f
      BY <1>1, <1>2, <1>4, <2>2, <3>1
    <3>2. CASE g # f
      <4>1. new[g] = at[g]
        BY <1>6, <3>2 DEF Moves
      <4>2. /\ at[g].own \in Nursery /\ curOpen[g] = at[g].own /\ at[g].own # n
            /\ group[at[g].own].parentParked /\ group[at[g].own].parent = g
        BY <1>5, <2>4, <4>1 DEF PlacesOK, Joining
      <4>. QED
        BY <1>1, <2>1, <4>1, <4>2
    <3>. QED
      BY <3>1, <3>2
  <2>. QED
    BY <2>3, <2>4 DEF Joining
<1>. QED
  BY <1>7, <1>11, <1>12 DEF Placed, PlacesOK

\* The last child takes the parent into its worker's hands.
LEMMA AccountPlaced ==
  ASSUME Inv, NEW w \in Worker, NEW at \in Map, PlacesOK(at), Elsewhere(w), Account(w)
  PROVE  Placed'
<1>. WorkersOK /\ FibersOK /\ GroupsOK
  BY DEF Inv, TypeOK
<1>1. /\ wpc[w] = "account"
      /\ UNCHANGED <<fstate, curOpen, recvq, sendq, qnext, head, tail, nready, pinned, chain>>
  BY DEF Account, fiberVars, queueVars, chanVars
<1>2. PICK n \in Nursery : n = nursery[cur[w]]
  BY <1>1 DEF Inv, ControlOK, Control, At, Uncounted, FibersOK, WorkersOK
<1>3. group[n] \in Group /\ \A m \in Nursery \ {n} : group'[m] = group[m]
  BY <1>2 DEF Account, GroupsOK
<1>4. group'[n] = [group[n] EXCEPT !.live = group[n].live - 1,
                            !.parentParked = group[n].parentParked /\ ~LastChild(n)]
  BY <1>2 DEF Account, GroupsOK
<1>5. /\ group'[n].open = group[n].open /\ group'[n].parent = group[n].parent
      /\ group'[n].live = group[n].live - 1
      /\ group'[n].parentParked = (group[n].parentParked /\ ~LastChild(n))
      /\ group[n].live \in Int /\ group[n].parentParked \in BOOLEAN
  BY <1>3, <1>4 DEF Group
<1>6. RequeueThen(w, IF LastChild(n) THEN <<group[n].parent>> ELSE <<>>, "tally")
  BY <1>2 DEF Account
<1>7. SameChains
  <2>1. At(w) # "chain"
    BY <1>1 DEF At
  <2>. QED
    BY <1>1, <2>1, StillChains
<1>8. \A m \in Nursery : group[m].parentParked => group[m].live >= 1 /\ group[m].open
  BY DEF PlacesOK, Joining
<1>9. CASE ~LastChild(n)
  <2>1. wpc'[w] = "tally"
    BY <1>6, <1>9 DEF RequeueThen, Goto, WorkersOK
  <2>2. SameHands
    BY <1>1, <2>1, StillHands DEF Hands
  <2>3. SameParents
    <3>1. group'[n].parentParked = group[n].parentParked
      BY <1>5, <1>9
    <3>2. group[n].parentParked => group'[n].live >= 1
      <4>1. group[n].parentParked => group[n].live # 1
        BY <1>9 DEF LastChild
      <4>. QED
        BY <1>5, <1>8, <4>1
    <3>. QED
      BY ONLY <1>1, <1>3, <1>5, <1>8, <3>1, <3>2 DEF SameParents
  <2>4. Still
    BY <1>1, <1>7, <2>2, <2>3 DEF Still, SameStates
  <2>. QED
    BY <2>4, StillPlaced DEF Placed
<1>10. CASE LastChild(n)
  <2>1. PICK f : f = group[n].parent
    OBVIOUS
  <2>2. /\ f \in Fiber /\ at[f].spot = "join" /\ at[f].own = n /\ fstate[f] = "parked"
        /\ group[n].parentParked
    <3>1. group[n].parentParked
      BY <1>10 DEF LastChild
    <3>2. f \in Fiber /\ at[f].spot = "join" /\ at[f].own = n
      BY <1>3, <2>1, <3>1 DEF PlacesOK, Joining, Inv, ControlOK, Group
    <3>. QED
      BY <3>1, <3>2 DEF PlacesOK, Standing, Asleep
  <2>3. wpc'[w] = "wake" /\ todo'[w] = <<f>>
    BY <1>6, <1>10, <2>1 DEF RequeueThen, Goto, WorkersOK
  <2>4. PICK new \in Map : /\ new[f] = [spot |-> "wake", own |-> w, pos |-> 0]
                           /\ Moves(f, at, new)
    <3>1. "wake" \in Asleep \cup Awake \cup {"none"}
      BY DEF Asleep
    <3>. QED
      BY ONLY <2>2, <3>1, at \in Map, w \in Worker, MoveMap
  <2>. new[f].spot = "wake" /\ new[f].own = w
    BY <2>4
  <2>5. Standing(new)'
    BY <1>1, <2>2, <2>4, MoveStanding DEF PlacesOK, Asleep, Awake
  <2>6. \A S \in {{"recv", "send"}, {"queue"}, {"chain"}, {"pinned"}} : Agree(S, at, new)
    BY <2>2, <2>4, MoveAgree
  <2>7. Waiting(new)' /\ Queued(new)' /\ Chained(new)' /\ Slot(new)'
    BY <1>1, <1>7, <2>6, WaitingFrame, QueuedFrame, ChainedFrame, SlotFrame DEF PlacesOK
  <2>8. Handled(new)'
    BY <1>1, <2>2, <2>3, <2>4, TakeInHand DEF PlacesOK, Hands
  <2>9. Joining(new)'
    <3>1. ~group'[n].parentParked
      BY <1>5, <1>10
    <3>2. ASSUME NEW m \in Nursery, group'[m].parentParked
          PROVE  /\ group'[m].open /\ group'[m].live >= 1
                 /\ new[group'[m].parent].spot = "join" /\ new[group'[m].parent].own = m
      <4>1. m # n /\ group'[m] = group[m]
        BY <1>3, <3>1, <3>2
      <4>2. /\ group[m].open /\ group[m].live >= 1
            /\ at[group[m].parent].spot = "join" /\ at[group[m].parent].own = m
        BY <3>2, <4>1 DEF PlacesOK, Joining
      <4>3. group[m].parent \in Fiber /\ group[m].parent # f
        BY <2>2, <3>2, <4>1, <4>2 DEF Inv, ControlOK, GroupsOK, Group
      <4>. QED
        BY <2>4, <4>1, <4>2, <4>3 DEF Moves
    <3>3. ASSUME NEW g \in Fiber, new[g].spot = "join"
          PROVE  /\ new[g].own \in Nursery /\ curOpen'[g] = new[g].own
                 /\ group'[new[g].own].parentParked /\ group'[new[g].own].parent = g
      <4>1. g # f /\ new[g] = at[g]
        BY <2>4, <3>3 DEF Moves
      <4>2. /\ at[g].own \in Nursery /\ curOpen[g] = at[g].own
            /\ group[at[g].own].parentParked /\ group[at[g].own].parent = g
        BY <3>3, <4>1 DEF PlacesOK, Joining
      <4>3. at[g].own # n
        BY <2>1, <4>1, <4>2
      <4>. QED
        BY <1>1, <1>3, <4>1, <4>2, <4>3
    <3>. QED
      BY <3>2, <3>3 DEF Joining
  <2>. QED
    BY <2>5, <2>7, <2>8, <2>9 DEF Placed, PlacesOK
<1>. QED
  BY <1>9, <1>10

\* rq_pop from the pinned slot, and from the ready-queue: it finds the fiber ready.
LEMMA PopPinnedPlaced ==
  ASSUME Inv, NEW w \in Worker, NEW at \in Map, PlacesOK(at), Elsewhere(w), PopPinned(w)
  PROVE  /\ Placed' /\ cur' = [cur EXCEPT ![w] = pinned] /\ w = Worker0
<1>. WorkersOK /\ FibersOK /\ QueueOK
  BY DEF Inv, TypeOK
<1>1. /\ wpc[w] \in {"pop", "woken"} /\ pinned' = NoFiber
      /\ UNCHANGED <<curOpen, group, recvq, sendq, qnext, head, tail, nready, chain>>
  BY DEF PopPinned, InPop, groupVars, chanVars
<1>2. PICK f \in Fiber : f = pinned
  BY SchedulerAssumption DEF PopPinned, QueueOK, SchedulerAssumption
<1>3. at[f].spot = "pinned" /\ fstate[f] = "ready"
  BY <1>2 DEF PlacesOK, Slot, Standing, Awake
<1>4. /\ fstate' = [fstate EXCEPT ![f] = "running"] /\ wpc' = [wpc EXCEPT ![w] = "exec"]
      /\ cur' = [cur EXCEPT ![w] = f]
  BY <1>2, <1>3 DEF PopPinned, Claim, Goto
<1>5. PICK new \in Map : /\ new[f] = [spot |-> "none", own |-> NoFiber, pos |-> 0]
                         /\ Moves(f, at, new)
  BY MoveMap
<1>. new[f].spot = "none"
  BY <1>5
<1>6. Standing(new)'
  <2>1. fstate'[f] = "running" /\ \A g \in Fiber \ {f} : fstate'[g] = fstate[g]
    BY <1>4 DEF FibersOK
  <2>. QED
    BY <1>5, <2>1, MoveStanding DEF PlacesOK, Asleep, Awake
<1>7. \A S \in {{"recv", "send"}, Hands, {"join"}, {"queue"}, {"chain"}} : Agree(S, at, new)
  BY <1>3, <1>5, MoveAgree DEF Hands
<1>8. SameHands
  BY <1>1, <1>4, StillHands DEF Hands, WorkersOK
<1>9. SameChains
  BY <1>1, StillChains DEF At
<1>10. SameParents
  BY <1>1, StillParents
<1>11. Waiting(new)' /\ Queued(new)' /\ Chained(new)' /\ Joining(new)' /\ Handled(new)'
  BY <1>1, <1>7, <1>8, <1>9, <1>10, WaitingFrame, QueuedFrame, ChainedFrame, JoiningFrame,
     HandledFrame DEF PlacesOK
<1>12. Slot(new)'
  <2>1. \A g \in Fiber : g # NoFiber
    BY SchedulerAssumption DEF SchedulerAssumption
  <2>. QED
    BY <1>1, <1>2, <1>5, <2>1 DEF PlacesOK, Slot, Moves
<1>. QED
  BY <1>2, <1>4, <1>6, <1>11, <1>12 DEF Placed, PlacesOK, PopPinned

LEMMA PopReadyPlaced ==
  ASSUME Inv, NEW w \in Worker, NEW at \in Map, PlacesOK(at), Elsewhere(w), PopReady(w)
  PROVE  Placed' /\ cur' = [cur EXCEPT ![w] = head] /\ head # Main
<1>. WorkersOK /\ FibersOK /\ QueueOK
  BY DEF Inv, TypeOK
<1>. NoFiber \notin Fiber
  BY SchedulerAssumption DEF SchedulerAssumption
<1>1. /\ wpc[w] \in {"pop", "woken"} /\ head # NoFiber
      /\ head' = qnext[head] /\ tail' = TailAfter(qnext[head]) /\ nready' = nready - 1
      /\ UNCHANGED <<curOpen, group, recvq, sendq, qnext, pinned, chain>>
  BY DEF PopReady, InPop, groupVars, chanVars
<1>2. PICK f \in Fiber : f = head
  BY <1>1 DEF QueueOK
<1>3. PICK M \in SUBSET Fiber : M = InQueue(at)
  BY DEF InQueue
<1>4. /\ List(f, M, at) /\ tail \in M /\ qnext[tail] = NoFiber
      /\ IsFiniteSet(M) /\ nready = Cardinality(M)
  BY <1>1, <1>2, <1>3 DEF PlacesOK, Queued
<1>5. f \in M /\ f # NoFiber
  BY <1>4 DEF List
<1>6. at[f].spot = "queue" /\ fstate[f] = "ready" /\ f # Main
  BY <1>3, <1>5 DEF InQueue, PlacesOK, Standing, Awake
<1>7. /\ fstate' = [fstate EXCEPT ![f] = "running"] /\ wpc' = [wpc EXCEPT ![w] = "exec"]
      /\ cur' = [cur EXCEPT ![w] = f]
  BY <1>2, <1>6 DEF PopReady, Claim, Goto
<1>8. PICK new \in Map : /\ new[f] = [spot |-> "none", own |-> NoFiber, pos |-> 0]
                         /\ Moves(f, at, new)
  BY MoveMap
<1>. new[f].spot = "none"
  BY <1>8
<1>9. Standing(new)'
  <2>1. fstate'[f] = "running" /\ \A g \in Fiber \ {f} : fstate'[g] = fstate[g]
    BY <1>7 DEF FibersOK
  <2>. QED
    BY <1>8, <2>1, MoveStanding DEF PlacesOK, Asleep, Awake
<1>10. \A S \in {{"recv", "send"}, Hands, {"join"}, {"pinned"}, {"chain"}} : Agree(S, at, new)
  BY <1>6, <1>8, MoveAgree DEF Hands
<1>11. SameHands
  BY <1>1, <1>7, StillHands DEF Hands, WorkersOK
<1>12. SameChains
  BY <1>1, StillChains DEF At
<1>13. SameParents
  BY <1>1, StillParents
<1>14. Waiting(new)' /\ Slot(new)' /\ Chained(new)' /\ Joining(new)' /\ Handled(new)'
  BY <1>1, <1>10, <1>11, <1>12, <1>13, WaitingFrame, SlotFrame, ChainedFrame, JoiningFrame,
     HandledFrame DEF PlacesOK
<1>15. Queued(new)'
  <2>1. InQueue(new)' = M \ {f}
    BY <1>3, <1>8 DEF InQueue, Moves
  <2>2. PICK h : h = qnext[f]
    OBVIOUS
  <2>3. List(h, M \ {f}, at)
    BY <1>4, <1>5, <2>2, ListRest
  <2>4. \A g \in M \ {f} : new[g] = at[g] /\ qnext'[g] = qnext[g]
    BY <1>1, <1>8 DEF Moves
  <2>5. List(h, M \ {f}, new)'
    BY ONLY <2>3, <2>4, ListFrame DEF List
  <2>6. head' = h
    BY <1>1, <1>2, <2>2
  <2>7. List(head, InQueue(new), new)'
    BY ONLY <2>1, <2>5, <2>6 DEF List
  <2>8. head' = NoFiber => tail' = NoFiber
    BY <1>1, <1>2, <2>2, <2>6 DEF TailAfter
  <2>9. head' # NoFiber => tail' \in M \ {f} /\ qnext'[tail'] = NoFiber
    <3>1. h # NoFiber => tail' = tail /\ tail # f
      BY <1>1, <1>2, <1>4, <2>2 DEF TailAfter
    <3>. QED
      BY <1>1, <1>4, <2>6, <3>1
  <2>10. IsFiniteSet(M \ {f}) /\ nready' = Cardinality(M \ {f})
    BY <1>1, <1>4, <1>5, FS_RemoveElement
  <2>. QED
    BY ONLY <2>1, <2>7, <2>8, <2>9, <2>10 DEF Queued
<1>. QED
  BY <1>2, <1>6, <1>7, <1>9, <1>14, <1>15 DEF Placed, PlacesOK

-----------------------------------------------------------------------------
(* The queues, as long as no task fails *)

\* Only the calling thread is with the main fiber.
MainHome == /\ fstate[Main] # "unborn"
            /\ \A w \in Worker : Stage(w) # "none" /\ cur[w] = Main => w = Worker0

QueueInv == LiveInv /\ Placed /\ Calm /\ MainHome

LEMMA QueueInit == Init => QueueInv
<1>. SUFFICES ASSUME Init PROVE QueueInv
  OBVIOUS
<1>1. LiveInv
  BY LiveInit
<1>. Main \in Fiber /\ Worker0 \in Worker /\ NoFiber \notin Fiber
  BY SchedulerAssumption DEF SchedulerAssumption
<1>2. /\ \A w \in Worker : /\ wpc[w] \in {"exec", "pop", "off"} /\ chain[w] = NoFiber
                           /\ (wpc[w] = "exec" => w = Worker0) /\ cur[w] = Main
      /\ \A f \in Fiber : fstate[f] = IF f = Main THEN "running" ELSE "unborn"
      /\ \A n \in Nursery : ~group[n].parentParked
      /\ \A c \in Channel : recvq[c] = <<>> /\ sendq[c] = <<>>
      /\ head = NoFiber /\ tail = NoFiber /\ pinned = NoFiber /\ nready = 0
  BY DEF Init, NewGroup
<1>3. Calm
  BY <1>2 DEF Calm, At
<1>4. MainHome
  BY <1>2 DEF MainHome, Stage, At, Uncounted
<1>5. PICK at \in Map : \A f \in Fiber : at[f].spot = "none"
  <2>1. PICK at : at = [f \in Fiber |-> [spot |-> "none", own |-> NoFiber, pos |-> 0]]
    OBVIOUS
  <2>2. at \in Map /\ \A f \in Fiber : at[f].spot = "none"
    BY <2>1 DEF Map
  <2>. QED
    BY <2>2
<1>6. Standing(at)
  BY <1>2, <1>5 DEF Standing, Asleep, Awake
<1>7. Waiting(at)
  BY <1>2, <1>5 DEF Waiting, Fifo
<1>8. Handled(at) /\ Joining(at) /\ Slot(at)
  BY <1>2, <1>5 DEF Handled, Joining, Slot, Hands
<1>9. Chained(at)
  <2>1. \A w \in Worker : InChain(w, at) = {}
    BY <1>5 DEF InChain
  <2>. QED
    BY <1>2, <1>5, <2>1 DEF Chained, List
<1>10. Queued(at)
  <2>1. InQueue(at) = {}
    BY <1>5 DEF InQueue
  <2>. QED
    BY <1>2, <2>1, FS_EmptySet DEF Queued, List
<1>. QED
  BY <1>1, <1>3, <1>4, <1>6, <1>7, <1>8, <1>9, <1>10 DEF QueueInv, Placed, PlacesOK

LEMMA PlacedStep ==
  ASSUME LiveInv, Placed, Calm, fstate[Main] # "unborn", NEW w \in Worker,
         Step(w) \/ SpuriousWakeup(w), Elsewhere(w), NoCancel'
  PROVE  Placed'
<1>1. PICK at \in Map : PlacesOK(at)
  BY DEF Placed
<1>2. Inv /\ Engagement /\ Nesting
  BY DEF LiveInv
<1>3. CASE Resting(w)
  <2>1. Still
    BY ONLY <1>1, <1>2, <1>3, w \in Worker, Elsewhere(w), RestingStill
  <2>. QED
    BY <1>1, <1>2, <2>1, StillPlaced DEF Placed
<1>4. CASE Finish(w)
  <2>1. Still
    BY ONLY <1>1, <1>2, <1>4, w \in Worker, Elsewhere(w), NoCancel', FinishStill
  <2>. QED
    BY <1>1, <1>2, <2>1, StillPlaced DEF Placed
<1>5. CASE Open(w) \/ JoinDone(w)
  <2>1. Still
    BY ONLY <1>1, <1>2, <1>5, w \in Worker, Elsewhere(w), OpenStill, JoinDoneStill
  <2>. QED
    BY <1>1, <1>2, <2>1, StillPlaced DEF Placed
<1>6. CASE SendPark(w) \/ RecvPark(w)
  BY ONLY <1>1, <1>2, <1>6, w \in Worker, Elsewhere(w), ParkPlaced
<1>7. CASE SendPut(w) \/ RecvValue(w) \/ PollValue(w)
  BY ONLY <1>1, <1>2, <1>7, w \in Worker, Elsewhere(w), WakePlaced
<1>8. CASE CloseChannel(w) \/ WalkChain(w)
  BY ONLY <1>1, <1>2, <1>8, w \in Worker, Elsewhere(w), ClosePlaced, WalkPlaced
<1>9. CASE Requeue(w) \/ Push(w)
  BY ONLY <1>1, <1>2, <1>9, w \in Worker, Elsewhere(w), RequeuePlaced, PushPlaced
<1>10. CASE Spawn(w)
  BY ONLY <1>1, <1>2, <1>10, w \in Worker, Elsewhere(w), fstate[Main] # "unborn", SpawnPlaced
<1>11. CASE JoinPark(w) \/ Account(w)
  BY ONLY <1>1, <1>2, <1>11, w \in Worker, Elsewhere(w), JoinParkPlaced, AccountPlaced
<1>12. CASE PopPinned(w) \/ PopReady(w)
  BY ONLY <1>1, <1>2, <1>12, w \in Worker, Elsewhere(w), PopPinnedPlaced, PopReadyPlaced
<1>13. CASE Verdict(w) \/ Sweep(w) \/ Unlock(w)
  BY <1>13 DEF Verdict, Sweep, Unlock, Calm, At
<1>. QED
  BY ONLY <1>3, <1>4, <1>5, <1>6, <1>7, <1>8, <1>9, <1>10, <1>11, <1>12, <1>13,
     Step(w) \/ SpuriousWakeup(w) DEF Step, RunFiber, Schedule, Resting

LEMMA CalmStep ==
  ASSUME LiveInv, Placed, Calm, NEW w \in Worker, Step(w) \/ SpuriousWakeup(w),
         Apart(w), Elsewhere(w), NoCancel'
  PROVE  Calm'
<1>. WorkersOK
  BY DEF LiveInv, Inv, TypeOK
<1>1. PICK at \in Map : PlacesOK(at)
  BY DEF Placed
<1>2. Inv /\ Engagement
  BY DEF LiveInv
<1>3. ASSUME NEW v \in Worker \ {w} PROVE At(v)' \notin {"verdict", "sweep", "unlock"}
  <2>1. At(v)' = At(v) \/ At(v)' = "woken"
    BY DEF Apart, At
  <2>. QED
    BY <2>1 DEF Calm
<1>4. At(w)' \notin {"verdict", "sweep", "unlock"}
  <2>1. CASE Resting(w)
    <3>1. wpc'[w] \notin Hands \cup {"verdict", "sweep", "unlock"}
      BY ONLY <1>1, <1>2, <2>1, w \in Worker, Elsewhere(w), RestingStill
    <3>. QED
      BY <3>1 DEF At, Hands
  <2>2. CASE Finish(w)
    <3>1. wpc'[w] \in {"tally", "account"}
      BY ONLY <1>1, <1>2, <2>2, w \in Worker, Elsewhere(w), NoCancel', FinishStill
    <3>. QED
      BY <3>1 DEF At
  <2>3. CASE \/ Open(w) \/ JoinDone(w) \/ SendPark(w) \/ RecvPark(w) \/ CloseChannel(w)
             \/ JoinPark(w)
    <3>1. /\ wpc[w] \in {"exec", "enter"}
          /\ \/ wpc' = wpc
             \/ \E l \in {"halt", "finish", "save", "chain", "rewind"} : wpc' = [wpc EXCEPT ![w] = l]
      BY ONLY <2>3 DEF Open, JoinDone, SendPark, RecvPark, CloseChannel, JoinPark, Park, Leave,
         Goto, Executing, Entered, localVars
    <3>2. wpc'[w] \in {"exec", "enter", "halt", "finish", "save", "chain", "rewind"}
      BY <3>1 DEF WorkersOK
    <3>. QED
      BY <3>2 DEF At
  <2>4. CASE SendPut(w) \/ RecvValue(w) \/ PollValue(w) \/ Account(w)
    <3>1. CASE SendPut(w)
      <4>1. RequeueThen(w, FirstOf(recvq[Ch(w)]), "exec")
        BY <3>1 DEF SendPut
      <4>. QED
        BY <4>1 DEF RequeueThen, Goto, At, WorkersOK
    <3>2. CASE RecvValue(w) \/ PollValue(w)
      <4>1. RequeueThen(w, FirstOf(sendq[Ch(w)]), "exec")
        BY <3>2 DEF RecvValue, PollValue, TakeValue
      <4>. QED
        BY <4>1 DEF RequeueThen, Goto, At, WorkersOK
    <3>3. CASE Account(w)
      <4>1. PICK q : RequeueThen(w, q, "tally")
        BY <3>3 DEF Account
      <4>. QED
        BY <4>1 DEF RequeueThen, Goto, At, WorkersOK
    <3>. QED
      BY <2>4, <3>1, <3>2, <3>3
  <2>5. CASE WalkChain(w)
    BY <2>5 DEF WalkChain, RequeueThen, Goto, At, WorkersOK
  <2>6. CASE Requeue(w) \/ Push(w)
    <3>1. /\ then' = then /\ wpc[w] \in Hands
          /\ wpc'[w] \in {"push", "wake", then[w]}
      <4>1. CASE Requeue(w)
        BY <4>1 DEF Requeue, Goto, Next1, Hands, WorkersOK
      <4>2. CASE Push(w)
        <5>1. PICK s : GotoWaking(w, Next1(w), s)
          BY <4>2 DEF Push
        <5>. QED
          BY <4>2, <5>1 DEF GotoWaking, Next1, Push, Hands
      <4>. QED
        BY <2>6, <4>1, <4>2
    <3>2. At(w) = then[w] /\ then[w] \notin Hands
      BY <3>1 DEF At, Hands, WorkersOK
    <3>. QED
      BY <3>1, <3>2 DEF At, Hands, Calm
  <2>7. CASE Spawn(w)
    <3>1. PICK s : GotoWaking(w, "exec", s)
      BY <2>7 DEF Spawn
    <3>. QED
      BY <3>1 DEF GotoWaking, At
  <2>8. CASE PopPinned(w) \/ PopReady(w)
    <3>1. \E l \in {"exec", "pop"} : wpc' = [wpc EXCEPT ![w] = l]
      BY <2>8 DEF PopPinned, PopReady, Claim, Goto
    <3>. QED
      BY <3>1 DEF At, WorkersOK
  <2>9. CASE Verdict(w) \/ Sweep(w) \/ Unlock(w)
    BY <2>9 DEF Verdict, Sweep, Unlock, Calm, At
  <2>. QED
    BY ONLY <2>1, <2>2, <2>3, <2>4, <2>5, <2>6, <2>7, <2>8, <2>9,
       Step(w) \/ SpuriousWakeup(w) DEF Step, RunFiber, Schedule, Resting
<1>. QED
  BY <1>3, <1>4 DEF Calm

\* A worker comes to be with a fiber only in rq_pop.
LEMMA StageKept ==
  ASSUME Inv, NEW w \in Worker, Quits(w), Step(w) \/ SpuriousWakeup(w),
         ~PopPinned(w), ~PopReady(w), Stage(w) = "none"
  PROVE  Stage(w)' = "none"
<1>. WorkersOK
  BY DEF Inv, TypeOK
<1>1. At(w) \notin {"exec", "enter", "chain", "halt", "finish", "tally", "verdict", "sweep", "unlock",
                    "account"}
  BY DEF Stage, Uncounted
<1>2. wpc[w] \notin Hands
  BY <1>1 DEF Inv, ControlOK, Control, At, Hands
<1>3. wpc[w] \notin {"exec", "enter", "chain", "halt", "finish", "tally", "verdict", "sweep", "unlock",
                     "account", "wake", "push"}
  BY <1>1, <1>2 DEF At, Hands
<1>4. Rewind(w) \/ Save(w) \/ PopShutdown(w) \/ PopWait(w) \/ PopDeadlock(w) \/ SpuriousWakeup(w)
  <2>1. CASE RunFiber(w)
    BY ONLY <1>3, <2>1 DEF RunFiber, CheckCancel, SendClosed, SendPark, SendPut, RecvPark, RecvValue,
       RecvNone, PollValue, PollNone, CloseChannel, WalkChain, Requeue, Push, Loop, Return, Exit,
       Open, Spawn, JoinPark, JoinDone, Executing, Entered
  <2>2. CASE Schedule(w)
    BY ONLY <1>3, <2>2, ~PopPinned(w), ~PopReady(w) DEF Schedule, Halt, Finish, Verdict, Sweep,
       Unlock, Account, Tally
  <2>. QED
    BY <2>1, <2>2 DEF Step
<1>5. wpc'[w] \in {"save", "pop", "gone", "idle", "woken"}
  <2>1. CASE Rewind(w) \/ PopShutdown(w) \/ PopWait(w) \/ SpuriousWakeup(w)
    BY <2>1 DEF Rewind, PopShutdown, PopWait, SpuriousWakeup, Goto, WorkersOK
  <2>2. CASE Save(w)
    <3>1. ~exitRequested[w]
      BY <2>2 DEF Save, Quits, At
    <3>. QED
      BY <2>2, <3>1 DEF Save, Goto, WorkersOK
  <2>3. CASE PopDeadlock(w)
    BY <2>3 DEF PopDeadlock, GotoWaking
  <2>. QED
    BY <1>4, <2>1, <2>2, <2>3
<1>. QED
  BY <1>5 DEF Stage, At, Uncounted

LEMMA CurKept ==
  ASSUME NEW w, Step(w) \/ SpuriousWakeup(w), ~PopPinned(w), ~PopReady(w)
  PROVE  cur' = cur
<1>1. CASE RunFiber(w)
  BY ONLY <1>1 DEF RunFiber, CheckCancel, SendClosed, SendPark, SendPut, RecvPark, RecvValue,
     RecvNone, PollValue, PollNone, CloseChannel, WalkChain, Requeue, Push, Loop, Return, Exit,
     Open, Spawn, JoinPark, Rewind, JoinDone, TakeValue, TakeNone, localVars
<1>2. CASE Schedule(w) \/ SpuriousWakeup(w)
  BY ONLY <1>2, ~PopPinned(w), ~PopReady(w) DEF Schedule, PopShutdown, PopWait, PopDeadlock, Save,
     Halt, Finish, Verdict, Sweep, Unlock, Account, Tally, SpuriousWakeup, localVars
<1>. QED
  BY <1>1, <1>2 DEF Step

LEMMA MainHomeStep ==
  ASSUME LiveInv, Placed, MainHome, NEW w \in Worker, Step(w) \/ SpuriousWakeup(w),
         Elsewhere(w), Kind(w), Beside(w)
  PROVE  MainHome'
<1>. WorkersOK /\ FibersOK /\ QueueOK /\ Inv
  BY DEF LiveInv, Inv, TypeOK
<1>. Main \in Fiber /\ cur[w] \in Fiber
  BY SchedulerAssumption DEF SchedulerAssumption, WorkersOK
<1>1. fstate'[Main] # "unborn"
  BY DEF MainHome, Kind, Stays, Parks, Claims, Finishes, Accounts, Tallies, Opens, Spawns, Closes,
         FibersOK
<1>2. ASSUME NEW v \in Worker \ {w}, Stage(v)' # "none", cur'[v] = Main PROVE v = Worker0
  BY <1>2 DEF Beside, MainHome
<1>3. ASSUME Stage(w)' # "none", cur'[w] = Main PROVE w = Worker0
  <2>1. PICK at \in Map : PlacesOK(at)
    BY DEF Placed
  <2>2. CASE PopPinned(w)
    BY <2>1, <2>2, PopPinnedPlaced
  <2>3. CASE PopReady(w)
    BY <1>3, <2>1, <2>3, PopReadyPlaced DEF WorkersOK
  <2>4. CASE ~PopPinned(w) /\ ~PopReady(w)
    <3>1. cur'[w] = cur[w]
      BY <2>4, CurKept
    <3>2. Stage(w) # "none"
      BY <1>3, <2>4, StageKept DEF LiveInv
    <3>. QED
      BY <1>3, <3>1, <3>2 DEF MainHome
  <2>. QED
    BY <2>2, <2>3, <2>4
<1>. QED
  BY <1>1, <1>2, <1>3 DEF MainHome

LEMMA QueueInvStep == QueueInv /\ MainStays /\ NoCancel' /\ [Next]_vars => QueueInv'
<1>. SUFFICES ASSUME QueueInv, MainStays, NoCancel', [Next]_vars PROVE QueueInv'
  OBVIOUS
<1>1. LiveInv' /\ Inv
  BY LiveStep DEF QueueInv, LiveInv
<1>2. CASE UNCHANGED vars
  <2>1. /\ UNCHANGED <<fstate, curOpen, group, cur, then, chain, wpc, todo, recvq, sendq, qnext, head,
                       tail, nready, pinned>>
    BY <1>2 DEF vars, fiberVars, groupVars, localVars, queueVars, chanVars
  <2>2. \A w \in Worker : At(w)' = At(w) /\ Stage(w)' = Stage(w)
    BY <2>1 DEF At, Stage
  <2>3. Calm' /\ MainHome'
    BY <2>1, <2>2 DEF QueueInv, Calm, MainHome
  <2>4. PICK at \in Map : PlacesOK(at)
    BY DEF QueueInv, Placed
  <2>5. SameStates /\ SameHands /\ SameChains
    BY <2>1, <2>2 DEF SameStates, SameHands, SameChains
  <2>6. SameParents
    BY <1>1, <2>1, <2>4, StillParents
  <2>7. Still
    BY <2>1, <2>5, <2>6 DEF Still
  <2>8. Placed'
    BY <1>1, <2>4, <2>7, StillPlaced DEF Placed
  <2>. QED
    BY <1>1, <2>3, <2>8 DEF QueueInv
<1>3. ASSUME NEW w \in Started, Step(w) \/ SpuriousWakeup(w)
      PROVE  QueueInv'
  <2>1. w \in Worker
    BY SchedulerAssumption DEF SchedulerAssumption
  <2>2. Apart(w) /\ Kind(w) /\ Beside(w)
    BY <1>3, <2>1, KindStep, ApartStep, BesideStep DEF QueueInv, LiveInv
  <2>3. Elsewhere(w)
    BY <1>1, <1>3, <2>1, <2>2, ElsewhereStep
  <2>4. Placed'
    BY <1>3, <2>1, <2>3, PlacedStep DEF QueueInv, MainHome
  <2>5. Calm'
    BY <1>3, <2>1, <2>2, <2>3, CalmStep DEF QueueInv
  <2>6. MainHome'
    BY <1>3, <2>1, <2>2, <2>3, MainHomeStep DEF QueueInv
  <2>. QED
    BY <1>1, <2>4, <2>5, <2>6 DEF QueueInv
<1>. QED
  BY <1>2, <1>3 DEF Next

LEMMA QueueInvariant == Spec => ([]MainStays /\ []NoCancel => []QueueInv)
  BY QueueInit, QueueInvStep, PTL DEF Spec

\* As long as no group is cancelled, everything on a channel's FIFOs is parked, and there once:
\* what ch_unpark takes is a fiber that has to be requeued.  (After a cancel a fiber may run on
\* while it is still on a FIFO.)
THEOREM WaitersAreParked == Spec => ([]MainStays /\ []NoCancel => []WaitersParked)
<1>1. QueueInv => WaitersParked
  <2>. SUFFICES ASSUME QueueInv, NEW c \in Channel
       PROVE  LET q == recvq[c] \o sendq[c] IN
              /\ \A i \in DOMAIN q : fstate[q[i]] = "parked"
              /\ \A i, j \in DOMAIN q : q[i] = q[j] => i = j
    BY DEF WaitersParked
  <2>1. PICK at \in Map : PlacesOK(at)
    BY DEF QueueInv, Placed
  <2>2. PICK q \in Seq(Fiber) : q = recvq[c] \o sendq[c] /\ Waiters(q, c, at)
    BY <2>1, FifosTogether DEF QueueInv, LiveInv
  <2>3. ASSUME NEW i \in DOMAIN q PROVE fstate[q[i]] = "parked"
    <3>1. q[i] \in Fiber /\ at[q[i]].spot \in Asleep
      <4>1. q[i] \in Fiber
        OBVIOUS
      <4>. QED
        BY ONLY <2>2, <4>1, i \in DOMAIN q DEF Waiters, Asleep
    <3>. QED
      BY <2>1, <3>1 DEF PlacesOK, Standing
  <2>. QED
    BY <2>2, <2>3 DEF Waiters
<1>. QED
  BY QueueInvariant, <1>1, PTL

-----------------------------------------------------------------------------
(* Who is in run() *)

\* A main fiber that has parked is still with the calling thread until its ip is rewound.
RewindsAtHome == \A w \in Worker : wpc[w] = "rewind" /\ cur[w] = Main => w = Worker0

LEMMA RewindsAtHomeStep ==
  ASSUME QueueInv, RewindsAtHome, [Next]_vars
  PROVE  RewindsAtHome'
<1>1. CASE UNCHANGED vars
  BY <1>1 DEF RewindsAtHome, vars, localVars
<1>2. ASSUME NEW w \in Started, Step(w) \/ SpuriousWakeup(w)
      PROVE  RewindsAtHome'
  <2>1. w \in Worker /\ Inv
    BY SchedulerAssumption DEF SchedulerAssumption, QueueInv, LiveInv
  <2>2. \A v \in Worker \ {w} : wpc'[v] = "rewind" => wpc[v] = "rewind" /\ cur'[v] = cur[v]
    BY <1>2, <2>1, ApartStep DEF Apart
  <2>3. wpc'[w] = "rewind" => JoinPark(w)
    BY <1>2, <2>1, RewindArrives
  <2>4. JoinPark(w) => cur' = cur /\ Stage(w) = "runs"
    BY DEF JoinPark, Executing, Stage, At
  <2>. QED
    BY <2>1, <2>2, <2>3, <2>4 DEF RewindsAtHome, QueueInv, MainHome
<1>. QED
  BY <1>1, <1>2 DEF Next

\* As long as no group is cancelled, only the calling thread is in run() with the main fiber:
\* neither the ready-queue nor the chain of a close brings it to another worker.
THEOREM MainStaysHome == Spec => ([]MainStays /\ []NoCancel => []MainOnCallingThread)
<1>1. QueueInv /\ RewindsAtHome => MainOnCallingThread
  BY DEF QueueInv, LiveInv, Inv, ControlOK, Control, MainHome, RewindsAtHome, MainOnCallingThread,
     InRun, Stage, At
<1>2. Init => RewindsAtHome
  BY DEF Init, RewindsAtHome
<1>3. QueueInv /\ RewindsAtHome /\ [Next]_vars => RewindsAtHome'
  BY RewindsAtHomeStep
<1>. QED
  BY QueueInvariant, <1>1, <1>2, <1>3, PTL DEF Spec

\* No parent of a nursery is claimed before it has rewound its ip.
RewoundFirst == \A w \in Worker : wpc[w] = "rewind" => fstate[cur[w]] \in {"parked", "ready"}

OneRewind == \A v, w \in Worker :
  wpc[v] = "rewind" /\ wpc[w] = "rewind" /\ cur[v] = cur[w] => v = w

\* A worker comes to rewind a fiber by parking it, while it interprets it.
LEMMA OneRewindArrives ==
  ASSUME OneInv, RewoundFirst, OneRewind, [Next]_vars
  PROVE  OneRewind'
<1>1. CASE UNCHANGED vars
  BY <1>1 DEF OneRewind, vars, localVars
<1>2. ASSUME NEW w \in Started, Step(w) \/ SpuriousWakeup(w)
      PROVE  OneRewind'
  <2>1. w \in Worker /\ Inv /\ WorkersOK
    BY SchedulerAssumption DEF SchedulerAssumption, OneInv, Inv, TypeOK
  <2>2. \A v \in Worker \ {w} : wpc'[v] = "rewind" => wpc[v] = "rewind" /\ cur'[v] = cur[v]
    BY <1>2, <2>1, ApartStep DEF Apart
  <2>3. wpc'[w] = "rewind" => JoinPark(w)
    BY <1>2, <2>1, RewindArrives
  <2>4. JoinPark(w) => /\ cur' = cur /\ Interprets(w)
                       /\ \A v \in Worker : wpc[v] = "rewind" => cur[v] # cur[w]
    <3>1. JoinPark(w) => cur' = cur /\ Interprets(w)
      BY DEF JoinPark, Executing, Interprets, At
    <3>2. Interprets(w) => Held(cur[w])
      BY <2>1 DEF OneInv, InterpretedHeld
    <3>. QED
      BY <3>1, <3>2 DEF RewoundFirst, Held
  <2>. QED
    BY <2>1, <2>2, <2>3, <2>4 DEF OneRewind
<1>. QED
  BY <1>1, <1>2 DEF Next

\* Where no parent is claimed before it has rewound, no fiber is ever in two workers' run(),
\* for any pool, any scripts and any cancels.
THEOREM OneWorkerPerFiber == Spec => ([]RewoundFirst => []OneInterpreter)
<1>1. OneInv /\ RewoundFirst /\ OneRewind => OneInterpreter
  <2>. SUFFICES ASSUME OneInv, RewoundFirst, OneRewind, NEW v \in Worker, NEW w \in Worker,
                       InRun(v), InRun(w), cur[v] = cur[w]
       PROVE  v = w
    BY DEF OneInterpreter
  <2>1. \A u \in Worker : InRun(u) => \/ wpc[u] = "rewind" /\ ~Held(cur[u])
                                      \/ Interprets(u) /\ Held(cur[u])
    BY DEF InRun, Interprets, At, OneInv, Inv, ControlOK, Control, InterpretedHeld, RewoundFirst,
       Held
  <2>. QED
    BY <2>1 DEF OneInv, OneUntilParked, OneRewind
<1>2. Init => OneRewind
  BY DEF Init, OneRewind
<1>3. OneInv /\ RewoundFirst /\ OneRewind /\ [Next]_vars => OneRewind'
  BY OneRewindArrives
<1>. QED
  BY OneInvariant, <1>1, <1>2, <1>3, PTL DEF Spec

\* Programs in which the main fiber is the only one that waits for a nursery.
OnlyMainJoins ==
  \A f \in Fiber \ {Main} : \A i \in DOMAIN Code[f] : Code[f][i].op # "join"

\* In those programs, as long as no group is cancelled, no fiber is ever in two workers' run(),
\* for any pool and any scripts: the main fiber rewinds where it is claimed.
THEOREM OneWorkerIfOnlyMainJoins ==
  ASSUME OnlyMainJoins
  PROVE  Spec => ([]MainStays /\ []NoCancel => []OneInterpreter)
<1>. DEFINE MainRewinds == \A w \in Worker : wpc[w] = "rewind" => cur[w] = Main
<1>1. Overlap /\ MainOnCallingThread /\ MainRewinds => OneInterpreter
  BY DEF Overlap, MainOnCallingThread, OneInterpreter
<1>2. Init => MainRewinds
  BY DEF Init
<1>3. ASSUME OneInv, MainRewinds, [Next]_vars PROVE MainRewinds'
  <2>1. CASE UNCHANGED vars
    BY <1>3, <2>1 DEF vars, localVars
  <2>2. ASSUME NEW w \in Started, Step(w) \/ SpuriousWakeup(w)
        PROVE  MainRewinds'
    <3>1. w \in Worker /\ Inv /\ cur[w] \in Fiber
      BY <1>3, SchedulerAssumption DEF SchedulerAssumption, OneInv, Inv, TypeOK, WorkersOK
    <3>2. \A v \in Worker \ {w} : wpc'[v] = "rewind" => wpc[v] = "rewind" /\ cur'[v] = cur[v]
      BY <2>2, <3>1, ApartStep DEF Apart
    <3>3. wpc'[w] = "rewind" => JoinPark(w)
      BY <2>2, <3>1, RewindArrives
    <3>4. JoinPark(w) => cur'[w] = Main
      BY <3>1 DEF JoinPark, Executing, OnlyMainJoins
    <3>. QED
      BY <1>3, <3>1, <3>2, <3>3, <3>4
  <2>. QED
    BY <1>3, <2>1, <2>2 DEF Next
<1>. HIDE DEF MainRewinds
<1>. QED
  BY OneInvariant, OverlapsOnlyAtRewind, MainStaysHome, <1>1, <1>2, <1>3, PTL DEF Spec

-----------------------------------------------------------------------------
(* The ready-queue, counted *)

\* Induction on the natural numbers, for a set.
LEMMA LeastNatural ==
  ASSUME NEW S, NEW n \in Nat, n \in S
  PROVE  \E m \in Nat : m \in S /\ \A k \in Nat : k < m => k \notin S
<1>1. PICK T : T = S \cap Nat
  OBVIOUS
<1>2. PICK m \in T : \A k \in T : ~(<<k, m>> \in OpToRel(<, Nat))
  BY <1>1, WFMin, NatLessThanWellFounded
<1>3. \A k \in T : ~(k < m)
  BY <1>1, <1>2 DEF OpToRel
<1>. QED
  BY <1>1, <1>3

\* The ranks in a list follow each other without a gap.
LEMMA NoGap ==
  ASSUME NEW at \in Map, NEW M \in SUBSET Fiber, NEW h \in M, List(h, M, at), NEW g \in M,
         NEW k \in Nat, at[h].pos + k <= at[g].pos
  PROVE  \E f \in M : at[f].pos = at[h].pos + k
<1>. \A f \in M : at[f].pos \in Int
  BY DEF Map
<1>1. PICK S : S = {m \in Nat : ~\E f \in M : at[f].pos = at[h].pos + m}
  OBVIOUS
<1>2. SUFFICES ASSUME k \in S PROVE FALSE
  BY <1>1
<1>3. PICK m \in Nat : m \in S /\ \A j \in Nat : j < m => j \notin S
  BY <1>2, LeastNatural
<1>4. m # 0
  BY <1>1, <1>3
<1>5. PICK f \in M : at[f].pos = at[h].pos + (m - 1)
  <2>1. m - 1 \in Nat /\ m - 1 < m
    BY <1>4
  <2>. QED
    BY <1>1, <1>3, <2>1
<1>6. \A x \in M : at[x].pos <= at[f].pos
  <2>1. ~(qnext[f] \in M /\ at[qnext[f]].pos = at[f].pos + 1)
    <3>1. at[f].pos + 1 = at[h].pos + m
      BY <1>5
    <3>. QED
      BY <1>1, <1>3, <3>1
  <2>. QED
    BY <2>1 DEF List
<1>7. m <= k
  BY <1>2, <1>3
<1>. QED
  BY <1>5, <1>6, <1>7

\* So that a list of fibers is no longer than there are fibers.
LEMMA RankBound ==
  ASSUME IsFiniteSet(Fiber), NEW at \in Map, NEW M \in SUBSET Fiber, NEW h \in M, List(h, M, at),
         NEW g \in M
  PROVE  at[g].pos - at[h].pos \in 0 .. Cardinality(Fiber)
<1>. \A f \in M : at[f].pos \in Int
  BY DEF Map
<1>1. PICK i \in Nat : i = at[g].pos - at[h].pos
  <2>1. at[h].pos <= at[g].pos
    <3>1. h # NoFiber
      BY SchedulerAssumption DEF SchedulerAssumption
    <3>. QED
      BY <3>1 DEF List
  <2>. QED
    BY <2>1
<1>2. \A j \in 0 .. i : \E f \in M : at[f].pos = at[h].pos + j
  <2>1. \A j \in 0 .. i : j \in Nat /\ at[h].pos + j <= at[g].pos
    BY <1>1
  <2>. QED
    BY <2>1, NoGap
<1>3. PICK b \in [0 .. i -> Fiber] : \A j \in 0 .. i : at[b[j]].pos = at[h].pos + j
  <2>1. PICK b : b = [j \in 0 .. i |-> CHOOSE f \in M : at[f].pos = at[h].pos + j]
    OBVIOUS
  <2>2. \A j \in 0 .. i : b[j] \in M /\ at[b[j]].pos = at[h].pos + j
    BY <1>2, <2>1
  <2>3. b \in [0 .. i -> Fiber]
    BY <2>1, <2>2
  <2>. QED
    BY <2>2, <2>3
<1>4. b \in Injection(0 .. i, Fiber)
  <2>1. \A j, l \in 0 .. i : b[j] = b[l] => j = l
    BY <1>3
  <2>. QED
    BY <1>3, <2>1 DEF Injection, IsInjective
<1>5. Cardinality(0 .. i) <= Cardinality(Fiber) /\ Cardinality(0 .. i) = i + 1
  <2>1. Cardinality(0 .. i) = i - 0 + 1
    BY FS_Interval
  <2>. QED
    BY ONLY <1>4, <2>1, IsFiniteSet(Fiber), FS_Injection, i \in Nat
<1>6. Cardinality(Fiber) \in Nat
  BY FS_CardinalityType
<1>. QED
  BY <1>1, <1>5, <1>6

\* drain lists the fibers of M in the order of their ranks.
InOrder(drain, h, M, at) ==
  /\ drain \in [0 .. Cardinality(Fiber) -> M \cup {NoFiber}]
  /\ \A i \in 0 .. Cardinality(Fiber) :
       IF drain[i] = NoFiber THEN \A f \in M : at[f].pos # at[h].pos + i
                             ELSE at[drain[i]].pos = at[h].pos + i

\* What it means that drain is what rq_pop would take, one after the other.
Drains(drain) ==
  drain = [i \in 0 .. Cardinality(Fiber) |->
             IF i = 0 THEN head
             ELSE IF drain[i - 1] = NoFiber THEN NoFiber ELSE qnext[drain[i - 1]]]

LEMMA OrderExists ==
  ASSUME NEW h, NEW M \in SUBSET Fiber, NEW at \in Map
  PROVE  \E drain : InOrder(drain, h, M, at)
<1>1. PICK drain : drain = [i \in 0 .. Cardinality(Fiber) |->
                              IF \E f \in M : at[f].pos = at[h].pos + i
                              THEN CHOOSE f \in M : at[f].pos = at[h].pos + i ELSE NoFiber]
  OBVIOUS
<1>2. ASSUME NEW i \in 0 .. Cardinality(Fiber)
      PROVE  /\ drain[i] \in M \cup {NoFiber}
             /\ IF drain[i] = NoFiber THEN \A f \in M : at[f].pos # at[h].pos + i
                                      ELSE at[drain[i]].pos = at[h].pos + i
  <2>1. NoFiber \notin M
    BY SchedulerAssumption DEF SchedulerAssumption
  <2>2. CASE \E f \in M : at[f].pos = at[h].pos + i
    <3>1. drain[i] = CHOOSE f \in M : at[f].pos = at[h].pos + i
      BY <1>1, <2>2
    <3>2. drain[i] \in M /\ at[drain[i]].pos = at[h].pos + i
      BY ONLY <2>2, <3>1
    <3>. QED
      BY <2>1, <3>2
  <2>3. CASE ~\E f \in M : at[f].pos = at[h].pos + i
    BY <1>1, <2>3
  <2>. QED
    BY <2>2, <2>3
<1>3. drain \in [0 .. Cardinality(Fiber) -> M \cup {NoFiber}]
  BY <1>1, <1>2
<1>. QED
  BY <1>2, <1>3 DEF InOrder

LEMMA OrderDrains ==
  ASSUME IsFiniteSet(Fiber), NEW at \in Map, NEW M \in SUBSET Fiber, NEW drain,
         List(head, M, at), InOrder(drain, head, M, at)
  PROVE  Drains(drain)
<1>1. NoFiber \notin M
  BY SchedulerAssumption DEF SchedulerAssumption
<1>2. PICK N \in Nat : N = Cardinality(Fiber)
  BY FS_CardinalityType
<1>. \A f \in M : at[f].pos \in Int
  BY DEF Map
<1>3. PICK h : h = head
  OBVIOUS
<1>4. ASSUME NEW i \in 0 .. N
      PROVE  drain[i] = IF i = 0 THEN h
                        ELSE IF drain[i - 1] = NoFiber THEN NoFiber ELSE qnext[drain[i - 1]]
  <2>0. /\ drain[i] \in M \cup {NoFiber}
        /\ drain[i] = NoFiber => \A f \in M : at[f].pos # at[h].pos + i
        /\ drain[i] # NoFiber => drain[i] \in M /\ at[drain[i]].pos = at[h].pos + i
    BY <1>2, <1>3 DEF InOrder
  <2>1. CASE h = NoFiber
    <3>1. M = {}
      BY <1>3, <2>1 DEF List
    <3>2. \A j \in 0 .. N : drain[j] = NoFiber
      BY <1>2, <3>1 DEF InOrder
    <3>3. i # 0 => i - 1 \in 0 .. N
      OBVIOUS
    <3>. QED
      BY <2>1, <3>2, <3>3
  <2>2. CASE h # NoFiber /\ i = 0
    <3>1. h \in M
      BY <1>3, <2>2 DEF List
    <3>2. drain[i] # NoFiber
      BY <2>0, <2>2, <3>1
    <3>3. at[drain[i]].pos = at[h].pos
      BY <2>0, <2>2, <3>1, <3>2
    <3>. QED
      BY <2>0, <2>2, <3>1, <3>2, <3>3 DEF List
  <2>3. CASE h # NoFiber /\ i # 0
    <3>1. h \in M
      BY <1>3, <2>3 DEF List
    <3>2. PICK j \in 0 .. N : j = i - 1 /\ i = j + 1
      BY <2>3
    <3>3. /\ drain[j] = NoFiber => \A f \in M : at[f].pos # at[h].pos + j
          /\ drain[j] # NoFiber => drain[j] \in M /\ at[drain[j]].pos = at[h].pos + j
      BY <1>2, <1>3 DEF InOrder
    <3>4. CASE drain[j] = NoFiber
      <4>1. ASSUME drain[i] # NoFiber PROVE FALSE
        <5>1. PICK g \in M : at[g].pos = at[h].pos + i
          BY <2>0, <4>1
        <5>2. j \in Nat /\ at[h].pos + j <= at[g].pos
          BY <3>1, <3>2, <5>1
        <5>3. \E f \in M : at[f].pos = at[h].pos + j
          BY <1>3, <3>1, <5>2, NoGap
        <5>. QED
          BY <3>3, <3>4, <5>3
      <4>. QED
        BY <2>3, <3>2, <3>4, <4>1
    <3>5. CASE drain[j] # NoFiber
      <4>1. PICK f \in M : f = drain[j] /\ at[f].pos = at[h].pos + j
        BY <3>3, <3>5
      <4>2. drain[i] = qnext[f]
        <5>1. CASE qnext[f] \in M /\ at[qnext[f]].pos = at[f].pos + 1
          <6>1. at[qnext[f]].pos = at[h].pos + i
            BY <3>1, <3>2, <4>1, <5>1
          <6>2. drain[i] # NoFiber /\ at[drain[i]].pos = at[qnext[f]].pos
            BY <2>0, <5>1, <6>1
          <6>. QED
            BY <2>0, <5>1, <6>2 DEF List
        <5>2. CASE qnext[f] = NoFiber /\ \A g \in M : at[g].pos <= at[f].pos
          <6>1. \A g \in M : at[g].pos # at[h].pos + i
            BY <3>1, <3>2, <4>1, <5>2
          <6>. QED
            BY <2>0, <5>2, <6>1
        <5>. QED
          BY <5>1, <5>2 DEF List
      <4>. QED
        BY <2>3, <3>2, <3>5, <4>1, <4>2
    <3>. QED
      BY <3>4, <3>5
  <2>. QED
    BY <2>1, <2>2, <2>3
<1>5. drain = [i \in 0 .. N |-> drain[i]]
  BY <1>2 DEF InOrder
<1>. QED
  BY <1>2, <1>3, <1>4, <1>5 DEF Drains

LEMMA DrainsOnce ==
  ASSUME NEW a, NEW b, Drains(a), Drains(b), IsFiniteSet(Fiber)
  PROVE  a = b
<1>1. PICK N \in Nat : N = Cardinality(Fiber)
  BY FS_CardinalityType
<1>2. /\ \A i \in 0 .. N :
           /\ a[i] = IF i = 0 THEN head ELSE IF a[i - 1] = NoFiber THEN NoFiber ELSE qnext[a[i - 1]]
           /\ b[i] = IF i = 0 THEN head ELSE IF b[i - 1] = NoFiber THEN NoFiber ELSE qnext[b[i - 1]]
      /\ a = [i \in 0 .. N |-> a[i]] /\ b = [i \in 0 .. N |-> b[i]]
  BY <1>1 DEF Drains
<1>3. SUFFICES ASSUME NEW n \in 0 .. N, a[n] # b[n] PROVE FALSE
  BY <1>2
<1>4. PICK S : S = {i \in 0 .. N : a[i] # b[i]}
  OBVIOUS
<1>5. PICK m \in Nat : m \in S /\ \A k \in Nat : k < m => k \notin S
  <2>1. n \in S /\ n \in Nat
    BY <1>3, <1>4
  <2>. QED
    BY <2>1, LeastNatural
<1>6. m \in 0 .. N /\ a[m] # b[m]
  BY <1>4, <1>5
<1>7. m # 0
  BY <1>2, <1>6
<1>8. m - 1 \in Nat /\ m - 1 < m /\ m - 1 \in 0 .. N
  BY <1>6, <1>7
<1>9. a[m - 1] = b[m - 1]
  BY <1>4, <1>5, <1>8
<1>10. /\ a[m] = IF a[m - 1] = NoFiber THEN NoFiber ELSE qnext[a[m - 1]]
       /\ b[m] = IF b[m - 1] = NoFiber THEN NoFiber ELSE qnext[b[m - 1]]
  BY ONLY <1>2, <1>6, <1>7
<1>. QED
  BY ONLY <1>6, <1>9, <1>10

\* FromHead is the queue in the order of the ranks.
LEMMA FromHeadInOrder ==
  ASSUME IsFiniteSet(Fiber), NEW at \in Map, Queued(at)
  PROVE  InOrder(FromHead, head, InQueue(at), at)
<1>1. PICK M \in SUBSET Fiber : M = InQueue(at)
  BY DEF InQueue
<1>2. PICK h : h = head
  OBVIOUS
<1>3. PICK drain : InOrder(drain, h, M, at)
  BY OrderExists
<1>4. Drains(drain)
  BY <1>1, <1>2, <1>3, OrderDrains DEF Queued
<1>5. FromHead = CHOOSE d : Drains(d)
  BY DEF FromHead, Drains
<1>6. Drains(FromHead)
  BY <1>4, <1>5
<1>7. FromHead = drain
  BY <1>4, <1>6, DrainsOnce
<1>. QED
  BY <1>1, <1>2, <1>3, <1>7

\* A fiber of the queue is reached from head in one way, and no other fiber is.
LEMMA ReachedOnce ==
  ASSUME IsFiniteSet(Fiber), NEW at \in Map, NEW M \in SUBSET Fiber, NEW h, NEW drain,
         List(h, M, at), InOrder(drain, h, M, at), NEW f \in Fiber
  PROVE  Cardinality({i \in DOMAIN drain : drain[i] = f}) = IF f \in M THEN 1 ELSE 0
<1>. f # NoFiber
  BY SchedulerAssumption DEF SchedulerAssumption
<1>1. PICK N \in Nat : N = Cardinality(Fiber) /\ DOMAIN drain = 0 .. N
  BY FS_CardinalityType DEF InOrder
<1>2. CASE f \in M
  <2>1. h \in M /\ at[h].pos \in Int /\ at[f].pos \in Int
    BY <1>2 DEF List, Map
  <2>2. PICK i \in 0 .. N : at[f].pos = at[h].pos + i
    <3>1. at[f].pos - at[h].pos \in 0 .. N
      BY <1>1, <1>2, <2>1, RankBound
    <3>. QED
      BY <2>1, <3>1
  <2>3. drain[i] = f
    <3>1. drain[i] # NoFiber
      BY <1>1, <1>2, <2>2 DEF InOrder
    <3>2. drain[i] \in M /\ at[drain[i]].pos = at[f].pos
      BY <1>1, <2>2, <3>1 DEF InOrder
    <3>. QED
      BY <1>2, <3>2 DEF List
  <2>4. ASSUME NEW j \in 0 .. N, drain[j] = f PROVE j = i
    <3>1. at[f].pos = at[h].pos + j
      BY <1>1, <2>4 DEF InOrder
    <3>. QED
      BY <2>1, <2>2, <3>1
  <2>5. {k \in DOMAIN drain : drain[k] = f} = {i}
    BY <1>1, <2>3, <2>4
  <2>. QED
    BY <1>2, <2>5, FS_Singleton
<1>3. CASE f \notin M
  <2>1. \A j \in 0 .. N : drain[j] # f
    BY <1>1, <1>3 DEF InOrder
  <2>2. {k \in DOMAIN drain : drain[k] = f} = {}
    BY <1>1, <2>1
  <2>. QED
    BY <1>3, <2>2, FS_EmptySet
<1>. QED
  BY <1>2, <1>3

LEMMA ReachedAll ==
  ASSUME IsFiniteSet(Fiber), NEW at \in Map, NEW M \in SUBSET Fiber, NEW h, NEW drain,
         List(h, M, at), InOrder(drain, h, M, at)
  PROVE  Cardinality({i \in DOMAIN drain : drain[i] # NoFiber}) = Cardinality(M)
<1>1. PICK N \in Nat : N = Cardinality(Fiber) /\ DOMAIN drain = 0 .. N
  BY FS_CardinalityType DEF InOrder
<1>2. PICK D : D = {i \in DOMAIN drain : drain[i] # NoFiber}
  OBVIOUS
<1>3. IsFiniteSet(D)
  <2>1. D \in SUBSET (0 .. N) /\ IsFiniteSet(0 .. N)
    BY <1>1, <1>2, FS_Interval
  <2>. QED
    BY <2>1, FS_Subset
<1>4. PICK b : b = [i \in D |-> drain[i]]
  OBVIOUS
<1>5. b \in [D -> M] /\ \A i \in D : b[i] = drain[i] /\ at[b[i]].pos = at[h].pos + i /\ i \in Int
  BY <1>1, <1>2, <1>4 DEF InOrder
<1>6. \A i, j \in D : b[i] = b[j] => i = j
  <2>1. SUFFICES ASSUME NEW i \in D, NEW j \in D, b[i] = b[j] PROVE i = j
    OBVIOUS
  <2>2. h \in M /\ at[h].pos \in Int
    <3>1. b[i] \in M
      BY <1>5
    <3>. QED
      BY <3>1 DEF List, Map
  <2>. QED
    BY <1>5, <2>1, <2>2
<1>7. \A f \in M : \E i \in D : b[i] = f
  <2>1. SUFFICES ASSUME NEW f \in M PROVE \E i \in D : b[i] = f
    OBVIOUS
  <2>2. h \in M /\ at[h].pos \in Int /\ at[f].pos \in Int /\ f # NoFiber
    BY SchedulerAssumption DEF List, Map, SchedulerAssumption
  <2>3. PICK i \in 0 .. N : at[f].pos = at[h].pos + i
    <3>1. at[f].pos - at[h].pos \in 0 .. N
      BY <1>1, <2>2, RankBound
    <3>. QED
      BY <2>2, <3>1
  <2>4. drain[i] # NoFiber
    BY <1>1, <2>3 DEF InOrder
  <2>5. i \in D
    BY <1>1, <1>2, <2>4
  <2>6. b[i] \in M /\ at[b[i]].pos = at[f].pos
    BY <1>5, <2>3, <2>5
  <2>. QED
    BY <2>5, <2>6 DEF List
<1>8. b \in Bijection(D, M)
  BY <1>5, <1>6, <1>7 DEF Bijection, Injection, Surjection, IsInjective
<1>9. ExistsBijection(D, M)
  BY <1>8 DEF ExistsBijection
<1>. QED
  BY <1>2, <1>3, <1>9, FS_Bijection

\* The hands that hold a fiber to push.
LEMMA PushedOnce ==
  ASSUME Inv, NEW at \in Map, Handled(at), NEW f \in Fiber
  PROVE  Cardinality({w \in Worker : wpc[w] = "push" /\ Head(todo[w]) = f})
           = IF at[f].spot = "push" THEN 1 ELSE 0
<1>1. ASSUME NEW w \in Worker, wpc[w] = "push" PROVE Len(todo[w]) = 1 /\ Head(todo[w]) = todo[w][1]
  <2>1. Len(todo[w]) = 1
    BY <1>1 DEF Handled, Hands
  <2>. QED
    BY <2>1 DEF Inv, TypeOK, WorkersOK
<1>2. CASE at[f].spot = "push"
  <2>1. PICK v \in Worker : v = at[f].own /\ wpc[v] = "push" /\ todo[v][1] = f
    BY <1>2 DEF Handled, Hands
  <2>2. ASSUME NEW w \in Worker, wpc[w] = "push", Head(todo[w]) = f PROVE w = v
    BY <1>1, <2>1, <2>2 DEF Handled, Hands
  <2>3. {w \in Worker : wpc[w] = "push" /\ Head(todo[w]) = f} = {v}
    BY <1>1, <2>1, <2>2
  <2>. QED
    BY <1>2, <2>3, FS_Singleton
<1>3. CASE at[f].spot # "push"
  <2>1. ASSUME NEW w \in Worker, wpc[w] = "push", Head(todo[w]) = f PROVE FALSE
    BY <1>1, <1>3, <2>1 DEF Handled, Hands
  <2>2. {w \in Worker : wpc[w] = "push" /\ Head(todo[w]) = f} = {}
    BY <2>1
  <2>. QED
    BY <1>3, <2>2, FS_EmptySet
<1>. QED
  BY <1>2, <1>3

\* As long as no group is cancelled, a READY fiber is in exactly one place from which it will be
\* run, the ready-queue, the pinned slot or the hands of one waker, and no other fiber is in any;
\* nready counts the queue.  No wakeup is lost, and none runs a fiber twice.
THEOREM ReadyAreQueuedOnce == Spec => ([]MainStays /\ []NoCancel => []EnqueuedOnce)
<1>1. QueueInv => EnqueuedOnce
  <2>1. SUFFICES ASSUME QueueInv PROVE EnqueuedOnce
    OBVIOUS
  <2>2. Inv
    BY <2>1 DEF QueueInv, LiveInv
  <2>3. PICK at \in Map : PlacesOK(at)
    BY <2>1 DEF QueueInv, Placed
  <2>4. PICK drain, h, M :
          /\ drain = FromHead /\ h = head /\ M = InQueue(at) /\ M \in SUBSET Fiber
          /\ List(h, M, at) /\ InOrder(drain, h, M, at)
    <3>1. InQueue(at) \in SUBSET Fiber
      BY DEF InQueue
    <3>2. List(head, InQueue(at), at)
      BY <2>3 DEF PlacesOK, Queued
    <3>3. InOrder(FromHead, head, InQueue(at), at)
      BY <2>3, FinitePool, FromHeadInOrder DEF PlacesOK, FinitePool
    <3>. QED
      BY ONLY <3>1, <3>2, <3>3
  <2>5. nready = Cardinality({i \in DOMAIN drain : drain[i] # NoFiber})
    <3>1. nready = Cardinality(M)
      BY <2>3, <2>4 DEF PlacesOK, Queued
    <3>. QED
      BY <2>4, <3>1, FinitePool, ReachedAll DEF FinitePool
  <2>6. ASSUME NEW f \in Fiber
        PROVE  Cardinality({i \in DOMAIN drain : drain[i] = f}) + (IF pinned = f THEN 1 ELSE 0)
               + Cardinality({w \in Worker : wpc[w] = "push" /\ Head(todo[w]) = f})
                 = IF fstate[f] = "ready" THEN 1 ELSE 0
    <3>1. Cardinality({i \in DOMAIN drain : drain[i] = f})
            = IF at[f].spot = "queue" THEN 1 ELSE 0
      <4>1. f \in M <=> at[f].spot = "queue"
        BY <2>4 DEF InQueue
      <4>. QED
        BY <2>4, <4>1, FinitePool, ReachedOnce DEF FinitePool
    <3>2. pinned = f <=> at[f].spot = "pinned"
      BY <2>3 DEF PlacesOK, Slot
    <3>3. Cardinality({w \in Worker : wpc[w] = "push" /\ Head(todo[w]) = f})
            = IF at[f].spot = "push" THEN 1 ELSE 0
      BY <2>2, <2>3, PushedOnce DEF PlacesOK
    <3>4. fstate[f] = "ready" <=> at[f].spot \in {"push", "queue", "pinned"}
      BY <2>3 DEF PlacesOK, Standing, Awake
    <3>. QED
      BY ONLY <3>1, <3>2, <3>3, <3>4
  <2>. QED
    BY <2>4, <2>5, <2>6 DEF EnqueuedOnce
<1>. QED
  BY QueueInvariant, <1>1, PTL

-----------------------------------------------------------------------------
(* What a fiber waits for *)

\* No parent of a nursery is made READY before it has rewound its ip.
RewindFirst == \A w \in Worker : wpc[w] = "rewind" => fstate[cur[w]] = "parked"

On(f, op, c) == /\ pc[f] \in DOMAIN Code[f]
                /\ Code[f][pc[f]].op = op /\ Code[f][pc[f]].ch = c
IsJoin(f, i) == i \in DOMAIN Code[f] /\ Code[f][i].op = "join"
Rewinding(f) == \E w \in Worker : wpc[w] = "rewind" /\ cur[w] = f

\* The ip of a fiber is at the operation it waits in: a nursery's parent goes back to it.
Entering == \A w \in Worker : wpc[w] = "enter" => sp[w] = pc[cur[w]]
AtItsOp == \A c \in Channel, f \in Fiber : /\ Among(f, recvq[c]) => On(f, "recv", c)
                                           /\ Among(f, sendq[c]) => On(f, "send", c)
Rewinds ==
  /\ \A w \in Worker : wpc[w] = "rewind" =>
       /\ IsJoin(cur[w], pc[cur[w]] - 1)
       /\ \A c \in Channel : ~Among(cur[w], recvq[c]) /\ ~Among(cur[w], sendq[c])
  /\ \A v, w \in Worker : wpc[v] = "rewind" /\ wpc[w] = "rewind" /\ cur[v] = cur[w] => v = w
AtBrace == \A n \in Nursery : group[n].parentParked =>
  IsJoin(group[n].parent, pc[group[n].parent]) \/ Rewinding(group[n].parent)

\* A fiber that ends does so at no operation on a channel, or at a send on a closed one.
Leavers == \A w \in Worker : wpc[w] \in {"halt", "finish"} =>
  \A c \in Channel : ~On(cur[w], "recv", c) /\ (On(cur[w], "send", c) => closed[c])

\* The fibers that are about to receive from c, or to send on it, and are not waiting.
Wants(f, op, c, q) == fstate[f] \in Unfinished /\ On(f, op, c) /\ ~Rewinding(f) /\ ~Among(f, q)
Takers(c)  == {f \in Fiber : Wants(f, "recv", c, recvq[c])}
Putters(c) == {f \in Fiber : Wants(f, "send", c, sendq[c])}

\* While receivers wait, each value in the buffer has a receiver that has been woken for it
\* (or has come for it); while senders wait, so has each free slot a sender.
Matched(c) == /\ recvq[c] # <<>> => Len(buf[c]) <= Cardinality(Takers(c))
              /\ sendq[c] # <<>> => Capacity[c] - Len(buf[c]) <= Cardinality(Putters(c))
              /\ closed[c] => recvq[c] = <<>> /\ sendq[c] = <<>>

Attended == \A f \in Fiber : fstate[f] = "running" =>
              \E w \in Worker : cur[w] = f /\ Stage(w) = "runs"
InWait == {w \in Worker : wpc[w] \in {"idle", "woken"}}
Idling == nidle = Cardinality(InWait)

\* After the verdict nobody does anything but leave.
Quiet == reported => /\ \A w \in Worker : wpc[w] \in {"off", "gone", "woken", "idle"}
                     /\ head = NoFiber /\ pinned = NoFiber /\ shutdown

AskInv == /\ Entering /\ AtItsOp /\ Rewinds /\ AtBrace /\ Leavers
          /\ (\A c \in Channel : Matched(c)) /\ WithinCapacity
          /\ Attended /\ Idling /\ Quiet

LEMMA WaitersAsleep ==
  ASSUME QueueInv, NEW f \in Fiber, NEW c \in Channel, Among(f, recvq[c]) \/ Among(f, sendq[c])
  PROVE  fstate[f] = "parked"
<1>1. PICK at \in Map : PlacesOK(at)
  BY DEF QueueInv, Placed
<1>2. at[f].spot \in {"recv", "send"}
  BY <1>1 DEF PlacesOK, Waiting, Fifo, Among
<1>. QED
  BY <1>1, <1>2 DEF PlacesOK, Standing, Asleep

LEMMA ParentsAsleep ==
  ASSUME QueueInv, NEW n \in Nursery, group[n].parentParked
  PROVE  group[n].parent \in Fiber /\ fstate[group[n].parent] = "parked"
<1>1. PICK at \in Map : PlacesOK(at)
  BY DEF QueueInv, Placed
<1>2. group[n].parent \in Fiber
  BY DEF QueueInv, LiveInv, Inv, TypeOK, GroupsOK, Group, ControlOK
<1>3. at[group[n].parent].spot = "join"
  BY <1>1 DEF PlacesOK, Joining
<1>. QED
  BY <1>1, <1>2, <1>3 DEF PlacesOK, Standing, Asleep

\* An ip moves in run(), or when a parent goes back to its brace.
LEMMA PcMoves ==
  ASSUME NEW w, Step(w) \/ SpuriousWakeup(w)
  PROVE  \/ pc' = pc
         \/ /\ Rewind(w) \/ wpc[w] \in {"exec", "enter"}
            /\ \E i : pc' = [pc EXCEPT ![cur[w]] = i]
<1>1. CASE RunFiber(w)
  <2>1. CASE \/ CheckCancel(w) \/ SendClosed(w) \/ SendPark(w) \/ RecvPark(w) \/ WalkChain(w)
             \/ Requeue(w) \/ Push(w) \/ Return(w) \/ Exit(w)
    BY ONLY <2>1 DEF CheckCancel, SendClosed, SendPark, RecvPark, WalkChain, Requeue, Push, Return,
       Exit, fiberVars
  <2>2. CASE \/ SendPut(w) \/ RecvValue(w) \/ PollValue(w) \/ RecvNone(w) \/ PollNone(w)
             \/ CloseChannel(w) \/ Loop(w) \/ Open(w) \/ Spawn(w) \/ JoinPark(w) \/ JoinDone(w)
    BY ONLY <2>2 DEF SendPut, RecvValue, PollValue, RecvNone, PollNone, TakeValue, TakeNone,
       CloseChannel, Loop, Open, Spawn, JoinPark, JoinDone, Advance, Executing, Entered, fiberVars
  <2>3. CASE Rewind(w)
    BY <2>3 DEF Rewind
  <2>. QED
    BY ONLY <1>1, <2>1, <2>2, <2>3 DEF RunFiber
<1>2. CASE Schedule(w) \/ SpuriousWakeup(w)
  BY ONLY <1>2 DEF Schedule, PopPinned, PopReady, PopShutdown, PopWait, PopDeadlock, Save, Halt,
     Finish, Verdict, Sweep, Unlock, Account, Tally, SpuriousWakeup, fiberVars
<1>. QED
  BY <1>1, <1>2 DEF Step

LEMMA SpMoves ==
  ASSUME NEW w, Step(w) \/ SpuriousWakeup(w)
  PROVE  sp' = sp \/ \E i : sp' = [sp EXCEPT ![w] = i]
<1>1. CASE RunFiber(w)
  BY ONLY <1>1 DEF RunFiber, CheckCancel, SendClosed, SendPark, SendPut, RecvPark, RecvValue,
     RecvNone, PollValue, PollNone, CloseChannel, WalkChain, Requeue, Push, Loop, Return, Exit,
     Open, Spawn, JoinPark, Rewind, JoinDone, TakeValue, TakeNone, localVars
<1>2. CASE Schedule(w) \/ SpuriousWakeup(w)
  BY ONLY <1>2 DEF Schedule, PopPinned, PopReady, PopShutdown, PopWait, PopDeadlock, Save, Halt,
     Finish, Verdict, Sweep, Unlock, Account, Tally, SpuriousWakeup, localVars
<1>. QED
  BY <1>1, <1>2 DEF Step

\* A fiber that waits keeps its ip, but for a parent that goes back to its brace.
LEMMA PcKept ==
  ASSUME QueueInv, NEW w \in Worker, Step(w) \/ SpuriousWakeup(w), NEW f \in Fiber, pc'[f] # pc[f]
  PROVE  /\ f = cur[w]
         /\ \/ wpc[w] = "rewind" /\ Rewind(w) /\ pc'[f] = pc[f] - 1
            \/ wpc[w] \in {"exec", "enter"} /\ Stage(w) = "runs" /\ fstate[f] = "running"
<1>. FibersOK
  BY DEF QueueInv, LiveInv, Inv, TypeOK
<1>1. PICK i : pc' = [pc EXCEPT ![cur[w]] = i]
  BY PcMoves
<1>2. f = cur[w]
  BY <1>1 DEF FibersOK
<1>3. CASE Rewind(w)
  BY <1>2, <1>3 DEF Rewind, FibersOK
<1>4. CASE wpc[w] \in {"exec", "enter"}
  BY <1>2, <1>4 DEF Stage, At, QueueInv, LiveInv, Engagement, Engaged
<1>. QED
  BY <1>2, <1>3, <1>4, PcMoves

\* Who joins a FIFO.
LEMMA FifoMoves ==
  ASSUME Inv, NEW w \in Worker, Step(w) \/ SpuriousWakeup(w), NEW f \in Fiber, NEW c \in Channel
  PROVE  /\ Among(f, recvq'[c]) => \/ Among(f, recvq[c])
                                   \/ RecvPark(w) /\ f = cur[w] /\ c = Ch(w)
         /\ Among(f, sendq'[c]) => \/ Among(f, sendq[c])
                                   \/ SendPark(w) /\ f = cur[w] /\ c = Ch(w)
<1>. ChannelsOK /\ WorkersOK
  BY DEF Inv, TypeOK
<1>. recvq[c] \in Seq(Fiber) /\ sendq[c] \in Seq(Fiber) /\ cur[w] \in Fiber
  BY DEF ChannelsOK, WorkersOK
<1>1. ASSUME NEW q \in Seq(Fiber), NEW g \in Fiber, Among(f, Append(q, g)) PROVE Among(f, q) \/ f = g
  BY <1>1 DEF Among
<1>2. ASSUME NEW q \in Seq(Fiber), Among(f, RestOf(q)) PROVE Among(f, q)
  <2>1. CASE q = <<>>
    BY <1>2, <2>1 DEF RestOf
  <2>2. CASE q # <<>>
    BY <1>2, <2>2 DEF RestOf, Among
  <2>. QED
    BY <2>1, <2>2
<1>3. CASE SendPark(w)
  <2>1. Park(w, TRUE)
    BY <1>3 DEF SendPark
  <2>2. recvq' = recvq /\ sendq'[c] = IF c = Ch(w) THEN Append(sendq[c], cur[w]) ELSE sendq[c]
    BY <2>1 DEF Park, ChannelsOK
  <2>. QED
    BY <1>1, <1>3, <2>2
<1>4. CASE RecvPark(w)
  <2>1. Park(w, FALSE)
    BY <1>4 DEF RecvPark
  <2>2. sendq' = sendq /\ recvq'[c] = IF c = Ch(w) THEN Append(recvq[c], cur[w]) ELSE recvq[c]
    BY <2>1 DEF Park, ChannelsOK
  <2>. QED
    BY <1>1, <1>4, <2>2
<1>5. CASE SendPut(w)
  <2>1. sendq' = sendq /\ recvq'[c] \in {RestOf(recvq[c]), recvq[c]}
    BY <1>5 DEF SendPut, ChannelsOK
  <2>. QED
    BY <1>2, <2>1
<1>6. CASE RecvValue(w) \/ PollValue(w)
  <2>1. recvq' = recvq /\ sendq'[c] \in {RestOf(sendq[c]), sendq[c]}
    BY <1>6 DEF RecvValue, PollValue, TakeValue, ChannelsOK
  <2>. QED
    BY <1>2, <2>1
<1>7. CASE CloseChannel(w)
  <2>1. recvq'[c] \in {<<>>, recvq[c]} /\ sendq'[c] \in {<<>>, sendq[c]}
    BY <1>7 DEF CloseChannel, ChannelsOK
  <2>. QED
    BY <2>1 DEF Among
<1>8. CASE ~SendPark(w) /\ ~RecvPark(w) /\ ~SendPut(w) /\ ~RecvValue(w) /\ ~PollValue(w)
           /\ ~CloseChannel(w)
  <2>1. UNCHANGED <<recvq, sendq>>
    <3>1. CASE RunFiber(w)
      BY ONLY <1>8, <3>1 DEF RunFiber, CheckCancel, SendClosed, RecvNone, PollNone, WalkChain,
         Requeue, Push, Loop, Return, Exit, Open, Spawn, JoinPark, Rewind, JoinDone, TakeNone,
         chanVars
    <3>2. CASE Schedule(w) \/ SpuriousWakeup(w)
      BY ONLY <3>2 DEF Schedule, PopPinned, PopReady, PopShutdown, PopWait, PopDeadlock, Save, Halt,
         Finish, Verdict, Sweep, Unlock, Account, Tally, SpuriousWakeup, chanVars
    <3>. QED
      BY <3>1, <3>2 DEF Step
  <2>. QED
    BY <2>1
<1>. QED
  BY <1>3, <1>4, <1>5, <1>6, <1>7, <1>8

LEMMA EnteringStep ==
  ASSUME QueueInv, Entering, RewindFirst, NEW w \in Worker, Step(w) \/ SpuriousWakeup(w), Apart(w)
  PROVE  Entering'
<1>. WorkersOK /\ FibersOK /\ Inv
  BY DEF QueueInv, LiveInv, Inv, TypeOK
<1>1. ASSUME NEW v \in Worker \ {w}, wpc'[v] = "enter" PROVE sp'[v] = pc'[cur'[v]]
  <2>1. wpc[v] = "enter" /\ cur'[v] = cur[v]
    BY <1>1 DEF Apart
  <2>2. sp'[v] = sp[v]
    <3>1. sp' = sp \/ \E i : sp' = [sp EXCEPT ![w] = i]
      BY SpMoves
    <3>. QED
      BY <3>1 DEF WorkersOK
  <2>3. Stage(v) = "runs" /\ fstate[cur[v]] = "running" /\ cur[v] \in Fiber
    BY <2>1 DEF Stage, At, QueueInv, LiveInv, Engagement, Engaged, WorkersOK
  <2>4. pc'[cur[v]] = pc[cur[v]]
    <3>1. SUFFICES ASSUME pc'[cur[v]] # pc[cur[v]] PROVE FALSE
      OBVIOUS
    <3>2. \/ wpc[w] = "rewind" /\ cur[v] = cur[w]
          \/ Stage(w) = "runs" /\ cur[v] = cur[w]
      BY <2>3, <3>1, PcKept
    <3>. QED
      BY <2>3, <3>2 DEF RewindFirst, QueueInv, LiveInv, Engagement, OneWorker
  <2>. QED
    BY <2>1, <2>2, <2>4 DEF Entering
<1>2. ASSUME wpc'[w] = "enter" PROVE sp'[w] = pc'[cur'[w]]
  <2>1. CheckCancel(w)
    <3>1. ~(SendClosed(w) \/ Loop(w) \/ Return(w) \/ Exit(w) \/ JoinDone(w) \/ Save(w) \/ Halt(w)
            \/ JoinPark(w))
      <4>1. CASE SendClosed(w) \/ Return(w)
        BY <1>2, <4>1 DEF SendClosed, Return, Leave, Goto, WorkersOK
      <4>2. CASE Loop(w) \/ JoinDone(w)
        <5>1. wpc[w] = "exec" /\ (wpc' = wpc \/ \E r : Leave(w, r))
          BY ONLY <4>2 DEF Loop, JoinDone, Executing
        <5>. QED
          BY <1>2, <5>1 DEF Leave, Goto, WorkersOK
      <4>3. CASE Exit(w) \/ Save(w) \/ JoinPark(w)
        <5>1. \E l \in {"halt", "pop", "rewind"} : Goto(w, l)
          BY ONLY <4>3 DEF Exit, Save, JoinPark
        <5>. QED
          BY <1>2, <5>1 DEF Goto, WorkersOK
      <4>4. CASE Halt(w)
        BY <1>2, <4>4 DEF Halt, GotoWaking
      <4>. QED
        BY <4>1, <4>2, <4>3, <4>4
    <3>. QED
      BY <1>2, <3>1, Arrivals
  <2>. QED
    BY <2>1 DEF CheckCancel, WorkersOK, fiberVars
<1>. QED
  BY <1>1, <1>2 DEF Entering

LEMMA AtItsOpStep ==
  ASSUME QueueInv, Entering, AtItsOp, Rewinds, NEW w \in Worker, Step(w) \/ SpuriousWakeup(w)
  PROVE  AtItsOp'
<1>. WorkersOK /\ FibersOK /\ Inv
  BY DEF QueueInv, LiveInv, Inv, TypeOK
<1>1. ASSUME NEW c \in Channel, NEW f \in Fiber, Among(f, recvq[c]) \/ Among(f, sendq[c])
      PROVE  pc'[f] = pc[f]
  <2>1. fstate[f] = "parked"
    BY <1>1, WaitersAsleep
  <2>. QED
    BY <1>1, <2>1, PcKept DEF Rewinds
<1>2. ASSUME NEW c \in Channel, NEW f \in Fiber PROVE Among(f, recvq'[c]) => On(f, "recv", c)'
  <2>1. CASE Among(f, recvq[c])
    BY <1>1, <2>1 DEF AtItsOp, On
  <2>2. CASE RecvPark(w) /\ f = cur[w] /\ c = Ch(w)
    <3>1. /\ wpc[w] = "enter" /\ Code[f][sp[w]].op = "recv" /\ c = Code[f][sp[w]].ch
          /\ pc' = pc
      BY <2>2 DEF RecvPark, Entered, Ch
    <3>2. sp[w] = pc[f] /\ sp[w] \in DOMAIN Code[f]
      BY <2>2, <3>1 DEF Entering, Inv, ControlOK, Control
    <3>. QED
      BY <3>1, <3>2 DEF On
  <2>. QED
    BY <2>1, <2>2, FifoMoves
<1>3. ASSUME NEW c \in Channel, NEW f \in Fiber PROVE Among(f, sendq'[c]) => On(f, "send", c)'
  <2>1. CASE Among(f, sendq[c])
    BY <1>1, <2>1 DEF AtItsOp, On
  <2>2. CASE SendPark(w) /\ f = cur[w] /\ c = Ch(w)
    <3>1. /\ wpc[w] = "enter" /\ Code[f][sp[w]].op = "send" /\ c = Code[f][sp[w]].ch
          /\ pc' = pc
      BY <2>2 DEF SendPark, Entered, Ch
    <3>2. sp[w] = pc[f] /\ sp[w] \in DOMAIN Code[f]
      BY <2>2, <3>1 DEF Entering, Inv, ControlOK, Control
    <3>. QED
      BY <3>1, <3>2 DEF On
  <2>. QED
    BY <2>1, <2>2, FifoMoves
<1>. QED
  BY <1>2, <1>3 DEF AtItsOp, Among

LEMMA RewindsStep ==
  ASSUME QueueInv, Rewinds, RewindFirst, NEW w \in Worker, Step(w) \/ SpuriousWakeup(w), Apart(w)
  PROVE  Rewinds'
<1>. WorkersOK /\ FibersOK /\ Inv
  BY DEF QueueInv, LiveInv, Inv, TypeOK
<1>1. wpc'[w] = "rewind" => JoinPark(w)
  BY RewindArrives
<1>2. JoinPark(w) => /\ fstate[cur[w]] = "running" /\ cur' = cur /\ UNCHANGED <<recvq, sendq>>
                     /\ IsJoin(cur[w], pc[cur[w]]) /\ pc'[cur[w]] = pc[cur[w]] + 1
  <2>1. SUFFICES ASSUME JoinPark(w)
        PROVE /\ fstate[cur[w]] = "running" /\ cur' = cur /\ UNCHANGED <<recvq, sendq>>
              /\ IsJoin(cur[w], pc[cur[w]]) /\ pc'[cur[w]] = pc[cur[w]] + 1
    OBVIOUS
  <2>2. Executing(w, "join") /\ Advance(w) /\ cur' = cur /\ UNCHANGED <<recvq, sendq>>
    BY <2>1 DEF JoinPark, chanVars
  <2>3. fstate[cur[w]] = "running"
    BY <2>2 DEF Executing, QueueInv, LiveInv, Engagement, Engaged, Stage, At
  <2>. QED
    BY <2>2, <2>3 DEF Executing, Advance, IsJoin, FibersOK, WorkersOK
<1>3. ASSUME NEW v \in Worker \ {w}, wpc'[v] = "rewind"
      PROVE  /\ wpc[v] = "rewind" /\ cur'[v] = cur[v] /\ fstate[cur[v]] = "parked"
             /\ IsJoin(cur[v], pc'[cur[v]] - 1)
             /\ \A c \in Channel : ~Among(cur[v], recvq'[c]) /\ ~Among(cur[v], sendq'[c])
  <2>1. wpc[v] = "rewind" /\ cur'[v] = cur[v] /\ cur[v] \in Fiber
    BY <1>3 DEF Apart, WorkersOK
  <2>2. fstate[cur[v]] = "parked"
    BY <2>1 DEF RewindFirst
  <2>3. pc'[cur[v]] = pc[cur[v]]
    <3>1. SUFFICES ASSUME pc'[cur[v]] # pc[cur[v]] PROVE FALSE
      OBVIOUS
    <3>2. cur[v] = cur[w] /\ wpc[w] = "rewind"
      BY <2>1, <2>2, <3>1, PcKept
    <3>. QED
      BY <2>1, <3>2 DEF Rewinds
  <2>4. ~((RecvPark(w) \/ SendPark(w)) /\ cur[v] = cur[w])
    <3>1. RecvPark(w) \/ SendPark(w) => wpc[w] = "enter"
      BY DEF RecvPark, SendPark, Entered
    <3>2. wpc[w] = "enter" => fstate[cur[w]] = "running"
      BY DEF QueueInv, LiveInv, Engagement, Engaged, Stage, At
    <3>. QED
      BY <2>2, <3>1, <3>2
  <2>. QED
    BY <2>1, <2>2, <2>3, <2>4, FifoMoves DEF Rewinds
<1>4. ASSUME NEW c \in Channel, JoinPark(w)
      PROVE  ~Among(cur[w], recvq'[c]) /\ ~Among(cur[w], sendq'[c])
  <2>1. cur[w] \in Fiber /\ fstate[cur[w]] # "parked"
    BY <1>2, <1>4 DEF WorkersOK
  <2>. QED
    BY <1>2, <1>4, <2>1, WaitersAsleep
<1>5. ASSUME NEW v \in Worker, wpc'[v] = "rewind"
      PROVE  /\ IsJoin(cur'[v], pc'[cur'[v]] - 1)
             /\ \A c \in Channel : ~Among(cur'[v], recvq'[c]) /\ ~Among(cur'[v], sendq'[c])
  <2>1. CASE v = w
    <3>1. JoinPark(w)
      BY <1>1, <1>5, <2>1
    <3>2. pc'[cur[w]] - 1 = pc[cur[w]]
      <4>1. pc[cur[w]] \in Int /\ pc'[cur[w]] = pc[cur[w]] + 1
        BY <1>2, <3>1 DEF FibersOK, WorkersOK
      <4>. QED
        BY ONLY <4>1
    <3>. QED
      BY <1>2, <1>4, <2>1, <3>1, <3>2
  <2>2. CASE v # w
    BY <1>3, <1>5, <2>2
  <2>. QED
    BY <2>1, <2>2
<1>6. ASSUME NEW u \in Worker, NEW v \in Worker, wpc'[u] = "rewind", wpc'[v] = "rewind",
             cur'[u] = cur'[v]
      PROVE  u = v
  BY <1>1, <1>2, <1>3, <1>6 DEF Rewinds
<1>. QED
  BY <1>5, <1>6 DEF Rewinds, IsJoin, Among

\* Who waits at a brace.
LEMMA ParentMoves ==
  ASSUME Inv, NEW w \in Worker, Step(w) \/ SpuriousWakeup(w), NEW n \in Nursery,
         group'[n].parentParked
  PROVE  \/ group[n].parentParked /\ group'[n].parent = group[n].parent
         \/ JoinPark(w) /\ group'[n].parent = cur[w]
<1>. GroupsOK /\ WorkersOK /\ FibersOK
  BY DEF Inv, TypeOK
<1>. group[n] \in Group
  BY DEF GroupsOK
<1>1. CASE Open(w)
  <2>1. group'[n] = group[n] \/ \E e : group'[n] = [NewGroup EXCEPT !.open = TRUE, !.enclosing = e]
    BY <1>1 DEF Open, GroupsOK
  <2>. QED
    BY <2>1 DEF NewGroup
<1>2. CASE Spawn(w)
  <2>1. \/ group'[n] = group[n]
        \/ \E q, l : group'[n] = [group[n] EXCEPT !.children = q, !.live = l]
    BY <1>2 DEF Spawn, GroupsOK
  <2>. QED
    BY <2>1 DEF Group
<1>3. CASE JoinPark(w)
  <2>1. \/ group'[n] = group[n]
        \/ group'[n] = [group[n] EXCEPT !.parent = cur[w], !.parentParked = TRUE]
    BY <1>3 DEF JoinPark, GroupsOK
  <2>. QED
    BY <1>3, <2>1 DEF Group
<1>4. CASE JoinDone(w) \/ Finish(w) \/ Verdict(w)
  <2>1. \/ group' = group
        \/ \E m : \/ group' = [group EXCEPT ![m].open = FALSE]
                  \/ group' = [group EXCEPT ![m].cancel = TRUE]
                  \/ group' = [group EXCEPT ![m].failed = TRUE]
    BY ONLY <1>4 DEF JoinDone, Finish, Verdict
  <2>2. \/ group'[n] = group[n]
        \/ group'[n] = [group[n] EXCEPT !.open = FALSE]
        \/ group'[n] = [group[n] EXCEPT !.cancel = TRUE]
        \/ group'[n] = [group[n] EXCEPT !.failed = TRUE]
    BY <2>1 DEF GroupsOK
  <2>. QED
    BY <2>2 DEF Group
<1>5. CASE Account(w)
  <2>1. \/ group'[n] = group[n]
        \/ \E l : group'[n] = [group[n] EXCEPT !.live = l,
                                 !.parentParked = group[n].parentParked /\ ~LastChild(n)]
    BY <1>5 DEF Account, GroupsOK
  <2>2. \/ group'[n] = group[n]
        \/ \E l, b : /\ group'[n] = [group[n] EXCEPT !.live = l, !.parentParked = b]
                     /\ b => group[n].parentParked
    BY <2>1
  <2>. QED
    BY <2>2 DEF Group
<1>6. CASE ~Open(w) /\ ~Spawn(w) /\ ~JoinPark(w) /\ ~JoinDone(w) /\ ~Finish(w) /\ ~Verdict(w)
           /\ ~Account(w)
  <2>1. group' = group
    <3>1. CASE RunFiber(w)
      BY ONLY <1>6, <3>1 DEF RunFiber, CheckCancel, SendClosed, SendPark, SendPut, RecvPark,
         RecvValue, RecvNone, PollValue, PollNone, CloseChannel, WalkChain, Requeue, Push, Loop,
         Return, Exit, Rewind, TakeValue, TakeNone, groupVars
    <3>2. CASE Schedule(w) \/ SpuriousWakeup(w)
      BY ONLY <1>6, <3>2 DEF Schedule, PopPinned, PopReady, PopShutdown, PopWait, PopDeadlock, Save,
         Halt, Sweep, Unlock, Tally, SpuriousWakeup, groupVars
    <3>. QED
      BY <3>1, <3>2 DEF Step
  <2>. QED
    BY <2>1
<1>. QED
  BY <1>1, <1>2, <1>3, <1>4, <1>5, <1>6

LEMMA AtBraceStep ==
  ASSUME QueueInv, Rewinds, AtBrace, NEW w \in Worker, Step(w) \/ SpuriousWakeup(w), Apart(w)
  PROVE  AtBrace'
<1>. WorkersOK /\ FibersOK /\ Inv
  BY DEF QueueInv, LiveInv, Inv, TypeOK
<1>1. ASSUME NEW n \in Nursery, group'[n].parentParked
      PROVE  (IsJoin(group[n].parent, pc[group[n].parent]) \/ Rewinding(group[n].parent))'
  <2>1. CASE JoinPark(w) /\ group'[n].parent = cur[w]
    <3>1. wpc'[w] = "rewind" /\ cur' = cur
      BY <2>1 DEF JoinPark, Goto, WorkersOK
    <3>2. Rewinding(cur[w])'
      BY <3>1 DEF Rewinding
    <3>3. PICK p : p = cur[w] /\ group'[n].parent = p
      BY <2>1
    <3>. QED
      BY <3>1, <3>2, <3>3 DEF Rewinding
  <2>2. CASE group[n].parentParked /\ group'[n].parent = group[n].parent
    <3>1. PICK p \in Fiber : p = group[n].parent /\ fstate[p] = "parked" /\ group'[n].parent = p
      BY <2>2, ParentsAsleep
    <3>2. CASE pc'[p] # pc[p]
      <4>1. p = cur[w] /\ wpc[w] = "rewind" /\ pc'[p] = pc[p] - 1
        BY <3>1, <3>2, PcKept
      <4>2. IsJoin(p, pc[p] - 1)
        BY <4>1 DEF Rewinds
      <4>. QED
        BY <3>1, <4>1, <4>2 DEF IsJoin
    <3>3. CASE pc'[p] = pc[p]
      <4>1. CASE IsJoin(p, pc[p])
        BY <3>1, <3>3, <4>1 DEF IsJoin
      <4>2. CASE Rewinding(p)
        <5>1. PICK v \in Worker : wpc[v] = "rewind" /\ cur[v] = p
          BY <4>2 DEF Rewinding
        <5>2. v # w
          <6>1. SUFFICES ASSUME v = w PROVE FALSE
            OBVIOUS
          <6>2. Rewind(w)
            BY <5>1, <6>1 DEF Step, RunFiber, Schedule, SpuriousWakeup, CheckCancel, SendClosed,
               SendPark, SendPut, RecvPark, RecvValue, RecvNone, PollValue, PollNone, CloseChannel,
               WalkChain, Requeue, Push, Loop, Return, Exit, Open, Spawn, JoinPark, JoinDone,
               PopPinned, PopReady, PopShutdown, PopWait, PopDeadlock, Save, Halt, Finish, Verdict,
               Sweep, Unlock, Account, Tally, Executing, Entered, InPop, NothingToPop
          <6>3. pc'[p] = pc[p] - 1 /\ pc[p] \in Int
            BY <5>1, <6>1, <6>2 DEF Rewind, FibersOK
          <6>. QED
            BY ONLY <3>3, <6>3
        <5>3. wpc'[v] = "rewind" /\ cur'[v] = p
          BY <5>1, <5>2 DEF Apart
        <5>4. Rewinding(p)'
          BY <5>3 DEF Rewinding
        <5>. QED
          BY <3>1, <5>4 DEF Rewinding
      <4>. QED
        BY <2>2, <3>1, <4>1, <4>2 DEF AtBrace
    <3>. QED
      BY <3>2, <3>3
  <2>. QED
    BY <1>1, <2>1, <2>2, ParentMoves
<1>. QED
  BY <1>1 DEF AtBrace, IsJoin

LEMMA ClosedStays ==
  ASSUME Inv, NEW w \in Worker, Step(w) \/ SpuriousWakeup(w), NEW c \in Channel
  PROVE  closed'[c] = closed[c] \/ (closed'[c] /\ CloseChannel(w) /\ c = Ch(w))
<1>1. CASE CloseChannel(w)
  BY <1>1 DEF CloseChannel, Inv, TypeOK, ChannelsOK
<1>2. CASE ~CloseChannel(w)
  <2>1. closed' = closed
    <3>1. CASE RunFiber(w)
      BY ONLY <1>2, <3>1 DEF RunFiber, CheckCancel, SendClosed, SendPark, SendPut, RecvPark,
         RecvValue, RecvNone, PollValue, PollNone, WalkChain, Requeue, Push, Loop, Return, Exit,
         Open, Spawn, JoinPark, Rewind, JoinDone, TakeValue, TakeNone, chanVars
    <3>2. CASE Schedule(w) \/ SpuriousWakeup(w)
      BY ONLY <3>2 DEF Schedule, PopPinned, PopReady, PopShutdown, PopWait, PopDeadlock, Save, Halt,
         Finish, Verdict, Sweep, Unlock, Account, Tally, SpuriousWakeup, chanVars
    <3>. QED
      BY <3>1, <3>2 DEF Step
  <2>. QED
    BY <2>1
<1>. QED
  BY <1>1, <1>2

LEMMA LeaversStep ==
  ASSUME QueueInv, NoCancel, Entering, Leavers, RewindFirst, NEW w \in Worker,
         Step(w) \/ SpuriousWakeup(w), Apart(w)
  PROVE  Leavers'
<1>. WorkersOK /\ FibersOK /\ GroupsOK /\ ChannelsOK /\ Inv
  BY DEF QueueInv, LiveInv, Inv, TypeOK
<1>1. ASSUME NEW v \in Worker \ {w}, wpc'[v] \in {"halt", "finish"}
      PROVE  /\ wpc[v] \in {"halt", "finish"} /\ cur'[v] = cur[v] /\ pc'[cur[v]] = pc[cur[v]]
  <2>1. wpc[v] \in {"halt", "finish"} /\ cur'[v] = cur[v]
    BY <1>1 DEF Apart
  <2>2. Stage(v) = "runs" /\ fstate[cur[v]] = "running" /\ cur[v] \in Fiber
    BY <2>1 DEF Stage, At, QueueInv, LiveInv, Engagement, Engaged, WorkersOK
  <2>3. pc'[cur[v]] = pc[cur[v]]
    <3>1. SUFFICES ASSUME pc'[cur[v]] # pc[cur[v]] PROVE FALSE
      OBVIOUS
    <3>2. \/ wpc[w] = "rewind" /\ cur[v] = cur[w]
          \/ Stage(w) = "runs" /\ cur[v] = cur[w]
      BY <2>2, <3>1, PcKept
    <3>. QED
      BY <2>2, <3>2 DEF RewindFirst, QueueInv, LiveInv, Engagement, OneWorker
  <2>. QED
    BY <2>1, <2>3
<1>2. ~Cancelled(cur[w])
  BY DEF Cancelled, NoCancel, FibersOK, WorkersOK
<1>3. ASSUME wpc'[w] \in {"halt", "finish"}
      PROVE  /\ cur'[w] = cur[w] /\ pc' = pc
             /\ \A c \in Channel : ~On(cur[w], "recv", c) /\ (On(cur[w], "send", c) => closed[c])
  <2>1. CASE CheckCancel(w) \/ Loop(w)
    <3>1. wpc' = [wpc EXCEPT ![w] = "enter"] \/ (wpc' = wpc /\ wpc[w] = "exec")
      BY ONLY <1>2, <2>1 DEF CheckCancel, Loop, Goto, Executing
    <3>. QED
      BY <1>3, <3>1 DEF WorkersOK
  <2>2. CASE SendClosed(w)
    <3>1. /\ wpc[w] = "enter" /\ Code[cur[w]][sp[w]].op = "send" /\ closed[Ch(w)]
          /\ Ch(w) = Code[cur[w]][sp[w]].ch /\ UNCHANGED <<pc, cur>>
      BY <2>2 DEF SendClosed, Entered, Ch, fiberVars
    <3>. QED
      BY <3>1 DEF Entering, On
  <2>3. CASE Return(w)
    BY <2>3 DEF Return, Executing, On, fiberVars
  <2>4. CASE Exit(w)
    BY <2>4 DEF Exit, Executing, On, fiberVars
  <2>5. CASE JoinDone(w)
    <3>1. /\ Executing(w, "join") /\ cur' = cur
          /\ UNCHANGED pc \/ UNCHANGED wpc
      BY <2>5 DEF JoinDone
    <3>. QED
      BY <1>3, <3>1 DEF Executing, On
  <2>6. CASE Save(w)
    <3>1. ~exitRequested[w]
      BY <2>6 DEF Save, QueueInv, LiveInv, Quits, At
    <3>. QED
      BY <1>3, <2>6, <3>1 DEF Save, Goto, WorkersOK
  <2>7. CASE Halt(w)
    BY <2>7 DEF Halt, Leavers, fiberVars
  <2>8. CASE JoinPark(w)
    BY <1>3, <2>8 DEF JoinPark, Goto, WorkersOK
  <2>. QED
    BY <1>3, <2>1, <2>2, <2>3, <2>4, <2>5, <2>6, <2>7, <2>8, Arrivals
<1>4. \A c \in Channel : closed[c] => closed'[c]
  BY ClosedStays
<1>. QED
  BY <1>1, <1>3, <1>4 DEF Leavers, On

LEMMA AttendedStep ==
  ASSUME Inv, Attended, NEW w \in Worker, Kind(w), Beside(w)
  PROVE  Attended'
<1>. WorkersOK /\ FibersOK
  BY DEF Inv, TypeOK
<1>1. SUFFICES ASSUME NEW f \in Fiber, fstate'[f] = "running"
               PROVE  \E v \in Worker : cur'[v] = f /\ Stage(v)' = "runs"
  BY DEF Attended
<1>2. \A v \in Worker \ {w} : cur[v] = f /\ Stage(v) = "runs" => cur'[v] = f /\ Stage(v)' = "runs"
  BY DEF Beside
<1>3. CASE Claims(w)
  <2>1. PICK g \in Fiber : /\ fstate' = [fstate EXCEPT ![g] = "running"]
                           /\ cur' = [cur EXCEPT ![w] = g]
    BY <1>3 DEF Claims
  <2>2. Stage(w) = "none" /\ Stage(w)' = "runs" /\ cur'[w] = g
    BY <1>3, <2>1 DEF Claims, WorkersOK
  <2>3. CASE f = g
    BY <2>2, <2>3
  <2>4. CASE f # g
    BY <1>1, <1>2, <2>1, <2>2, <2>4 DEF Attended, FibersOK
  <2>. QED
    BY <2>3, <2>4
<1>4. CASE Parks(w) \/ Finishes(w)
  <2>1. Stage(w) = "runs" /\ \E s \in {"parked", "done"} : fstate' = [fstate EXCEPT ![cur[w]] = s]
    BY <1>4 DEF Parks, Finishes
  <2>2. f # cur[w] /\ fstate[f] = "running"
    BY <1>1, <2>1 DEF FibersOK
  <2>. QED
    BY <1>2, <2>2 DEF Attended
<1>5. CASE Stays(w) \/ Accounts(w) \/ Tallies(w) \/ Opens(w) \/ Spawns(w) \/ Closes(w)
  <2>1. /\ cur' = cur /\ (Stage(w) = "runs" => Stage(w)' = "runs")
        /\ \/ fstate' = fstate
           \/ \E g : fstate' = [fstate EXCEPT ![g] = "ready"]
    BY ONLY <1>5 DEF Stays, Accounts, Tallies, Opens, Spawns, Closes
  <2>2. fstate[f] = "running"
    BY <1>1, <2>1 DEF FibersOK
  <2>. QED
    BY <1>2, <2>1, <2>2 DEF Attended
<1>. QED
  BY <1>3, <1>4, <1>5 DEF Kind

\* Only finish_child ends a fiber.
LEMMA EndMoves ==
  ASSUME NEW w \in Worker, Step(w) \/ SpuriousWakeup(w), FibersOK,
         NEW f \in Fiber, fstate[f] \in Unfinished
  PROVE  fstate'[f] \in Unfinished \/ (Finish(w) /\ f = cur[w])
<1>. Unfinished = {"ready", "running", "parked"}
  BY DEF Unfinished
<1>1. CASE Finish(w)
  <2>1. fstate' = [fstate EXCEPT ![cur[w]] = "done"]
    BY <1>1 DEF Finish
  <2>. QED
    BY <1>1, <2>1 DEF FibersOK
<1>2. CASE ~Finish(w)
  <2>1. fstate' = fstate \/ \E g : \E s \in {"ready", "running", "parked"} :
                              fstate' = [fstate EXCEPT ![g] = s]
    <3>1. CASE RunFiber(w)
      BY ONLY <3>1 DEF RunFiber, CheckCancel, SendClosed, SendPark, SendPut, RecvPark, RecvValue,
         RecvNone, PollValue, PollNone, CloseChannel, WalkChain, Requeue, Push, Loop, Return, Exit,
         Open, Spawn, JoinPark, Rewind, JoinDone, TakeValue, TakeNone, Park, fiberVars
    <3>2. CASE Schedule(w) \/ SpuriousWakeup(w)
      BY ONLY <1>2, <3>2 DEF Schedule, PopPinned, PopReady, PopShutdown, PopWait, PopDeadlock, Save,
         Halt, Verdict, Sweep, Unlock, Account, Tally, SpuriousWakeup, Claim, fiberVars
    <3>. QED
      BY <3>1, <3>2 DEF Step
  <2>. QED
    BY <2>1 DEF FibersOK
<1>. QED
  BY <1>1, <1>2

\* Who goes on from an operation on a channel.
LEMMA GoesOn ==
  ASSUME QueueInv, Entering, NEW w \in Worker, Step(w) \/ SpuriousWakeup(w), NEW f \in Fiber,
         NEW c \in Channel, NEW op \in {"recv", "send"}, On(f, op, c), ~Rewinding(f),
         pc'[f] # pc[f]
  PROVE  /\ f = cur[w] /\ c = Ch(w)
         /\ op = "recv" => RecvValue(w) \/ RecvNone(w)
         /\ op = "send" => SendPut(w)
<1>1. f = cur[w] /\ wpc[w] \in {"exec", "enter"}
  BY PcKept DEF Rewinding
<1>2. wpc[w] = "enter" => sp[w] = pc[f]
  BY <1>1 DEF Entering
<1>3. Code[f][pc[f]].op = op /\ Code[f][pc[f]].ch = c
  BY DEF On
<1>4. c = Ch(w)
  BY <1>1, <1>2, <1>3 DEF Ch
<1>5. /\ ~Executing(w, "poll") /\ ~Executing(w, "close") /\ ~Executing(w, "loop")
      /\ ~Executing(w, "open") /\ ~Executing(w, "spawn") /\ ~Executing(w, "join")
      /\ Entered(w, "recv") => op = "recv"
      /\ Entered(w, "send") => op = "send"
  BY <1>1, <1>2, <1>3 DEF Executing, Entered
<1>6. pc' # pc
  OBVIOUS
<1>7. RecvValue(w) \/ RecvNone(w) \/ SendPut(w)
  <2>1. CASE RunFiber(w)
    BY ONLY <1>1, <1>5, <1>6, <2>1 DEF RunFiber, CheckCancel, SendClosed, SendPark, RecvPark,
       PollValue, PollNone, CloseChannel, WalkChain, Requeue, Push, Loop, Return, Exit, Open, Spawn,
       JoinPark, Rewind, JoinDone, fiberVars
  <2>2. CASE Schedule(w) \/ SpuriousWakeup(w)
    BY ONLY <1>6, <2>2 DEF Schedule, PopPinned, PopReady, PopShutdown, PopWait, PopDeadlock, Save,
       Halt, Finish, Verdict, Sweep, Unlock, Account, Tally, SpuriousWakeup, fiberVars
  <2>. QED
    BY <2>1, <2>2 DEF Step
<1>8. /\ RecvValue(w) \/ RecvNone(w) => Entered(w, "recv")
      /\ SendPut(w) => Entered(w, "send")
  BY DEF RecvValue, RecvNone, SendPut
<1>. QED
  BY ONLY <1>1, <1>4, <1>5, <1>7, <1>8, op \in {"recv", "send"}

LEMMA RewindMoves ==
  ASSUME Inv, NEW w \in Worker, Step(w) \/ SpuriousWakeup(w), Apart(w),
         wpc'[w] = "rewind" => JoinPark(w),
         NEW f \in Fiber, Rewinding(f)'
  PROVE  Rewinding(f) \/ (Executing(w, "join") /\ f = cur[w])
<1>1. PICK v \in Worker : wpc'[v] = "rewind" /\ cur'[v] = f
  BY DEF Rewinding
<1>2. CASE v = w
  <2>1. Executing(w, "join") /\ cur' = cur
    BY <1>1, <1>2 DEF JoinPark
  <2>. QED
    BY <1>1, <1>2, <2>1
<1>3. CASE v # w
  BY <1>1, <1>3 DEF Apart, Rewinding
<1>. QED
  BY <1>2, <1>3

\* Who no longer wants what he wanted.
LEMMA WantsKept ==
  ASSUME QueueInv, Entering, Leavers, NEW w \in Worker, Step(w) \/ SpuriousWakeup(w), Apart(w),
         wpc'[w] = "rewind" => JoinPark(w), NEW f \in Fiber, NEW c \in Channel
  PROVE  /\ f \in Takers(c) => \/ f \in Takers(c)'
                               \/ f = cur[w] /\ c = Ch(w) /\ Entered(w, "recv")
                                  /\ (RecvPark(w) \/ RecvValue(w) \/ RecvNone(w))
         /\ f \in Putters(c) => \/ f \in Putters(c)' \/ closed[c]
                                \/ f = cur[w] /\ c = Ch(w) /\ Entered(w, "send")
                                   /\ (SendPark(w) \/ SendPut(w))
<1>. FibersOK /\ Inv
  BY DEF QueueInv, LiveInv, Inv, TypeOK
<1>1. /\ RecvPark(w) \/ RecvValue(w) \/ RecvNone(w) => Entered(w, "recv")
      /\ SendPark(w) \/ SendPut(w) => Entered(w, "send")
  BY DEF RecvPark, RecvValue, RecvNone, SendPark, SendPut
<1>2. ASSUME NEW op \in {"recv", "send"}, On(f, op, c), fstate[f] \in Unfinished, ~Rewinding(f)
      PROVE  /\ fstate'[f] \in Unfinished \/ (op = "send" /\ closed[c])
             /\ ~Rewinding(f)'
             /\ \/ On(f, op, c)'
                \/ /\ f = cur[w] /\ c = Ch(w)
                   /\ op = "recv" => RecvValue(w) \/ RecvNone(w)
                   /\ op = "send" => SendPut(w)
  <2>1. fstate'[f] \in Unfinished \/ (op = "send" /\ closed[c])
    <3>1. CASE Finish(w) /\ f = cur[w]
      <4>1. wpc[w] \in {"halt", "finish"}
        BY <3>1 DEF Finish
      <4>. QED
        BY <1>2, <3>1, <4>1 DEF Leavers
    <3>. QED
      BY <1>2, <3>1, EndMoves
  <2>2. ~Rewinding(f)'
    <3>1. ~(Executing(w, "join") /\ f = cur[w])
      BY <1>2 DEF Executing, On
    <3>. QED
      BY <1>2, <3>1, RewindMoves
  <2>3. CASE pc'[f] = pc[f]
    BY <1>2, <2>1, <2>2, <2>3 DEF On
  <2>4. CASE pc'[f] # pc[f]
    BY <1>2, <2>1, <2>2, <2>4, GoesOn
  <2>. QED
    BY <2>3, <2>4
<1>3. ASSUME f \in Takers(c), f \notin Takers(c)'
      PROVE  /\ f = cur[w] /\ c = Ch(w) /\ Entered(w, "recv")
             /\ RecvPark(w) \/ RecvValue(w) \/ RecvNone(w)
  <2>1. /\ fstate[f] \in Unfinished /\ On(f, "recv", c) /\ ~Rewinding(f) /\ ~Among(f, recvq[c])
    BY <1>3 DEF Takers, Wants
  <2>2. /\ fstate'[f] \in Unfinished /\ ~Rewinding(f)'
        /\ On(f, "recv", c)' \/ (f = cur[w] /\ c = Ch(w) /\ (RecvValue(w) \/ RecvNone(w)))
    BY <1>2, <2>1
  <2>3. ~Among(f, recvq'[c]) \/ (RecvPark(w) /\ f = cur[w] /\ c = Ch(w))
    BY <2>1, FifoMoves
  <2>4. ~On(f, "recv", c)' \/ Among(f, recvq'[c])
    BY <1>3, <2>2 DEF Takers, Wants, Among
  <2>. QED
    BY <1>1, <2>2, <2>3, <2>4
<1>4. ASSUME f \in Putters(c), f \notin Putters(c)', ~closed[c]
      PROVE  /\ f = cur[w] /\ c = Ch(w) /\ Entered(w, "send")
             /\ SendPark(w) \/ SendPut(w)
  <2>1. /\ fstate[f] \in Unfinished /\ On(f, "send", c) /\ ~Rewinding(f) /\ ~Among(f, sendq[c])
    BY <1>4 DEF Putters, Wants
  <2>2. /\ fstate'[f] \in Unfinished /\ ~Rewinding(f)'
        /\ On(f, "send", c)' \/ (f = cur[w] /\ c = Ch(w) /\ SendPut(w))
    BY <1>2, <1>4, <2>1
  <2>3. ~Among(f, sendq'[c]) \/ (SendPark(w) /\ f = cur[w] /\ c = Ch(w))
    BY <2>1, FifoMoves
  <2>4. ~On(f, "send", c)' \/ Among(f, sendq'[c])
    BY <1>4, <2>2 DEF Putters, Wants, Among
  <2>. QED
    BY <1>1, <2>2, <2>3, <2>4
<1>. QED
  BY <1>3, <1>4

\* Who is the first of a FIFO wants, once he is taken off.
LEMMA FirstWants ==
  ASSUME QueueInv, AtItsOp, Rewinds, NEW w \in Worker, Step(w) \/ SpuriousWakeup(w), Apart(w),
         wpc'[w] = "rewind" => JoinPark(w), NEW c \in Channel, NEW op \in {"recv", "send"},
         NEW q \in Seq(Fiber), q = IF op = "recv" THEN recvq[c] ELSE sendq[c], q # <<>>,
         fstate' = fstate
  PROVE  /\ Head(q) \in Fiber /\ Among(Head(q), q) /\ ~Among(Head(q), Tail(q))
         /\ (Wants(Head(q), op, c, Tail(q)))'
<1>. FibersOK /\ WorkersOK /\ Inv
  BY DEF QueueInv, LiveInv, Inv, TypeOK
<1>1. PICK g \in Fiber : g = Head(q) /\ g = q[1]
  OBVIOUS
<1>2. Among(g, q)
  BY <1>1 DEF Among
<1>3. ~Among(g, Tail(q))
  <2>1. PICK at \in Map : PlacesOK(at)
    BY DEF QueueInv, Placed
  <2>2. \A i, j \in DOMAIN q : q[i] = q[j] => i = j
    BY <2>1 DEF PlacesOK, Waiting, Fifo
  <2>3. ASSUME NEW i \in DOMAIN Tail(q), Tail(q)[i] = g PROVE FALSE
    <3>1. i \in Nat \ {0} /\ i + 1 \in DOMAIN q /\ Tail(q)[i] = q[i + 1] /\ 1 \in DOMAIN q
      OBVIOUS
    <3>2. i + 1 = 1
      BY <1>1, <2>2, <2>3, <3>1
    <3>. QED
      BY ONLY <3>1, <3>2
  <2>. QED
    BY <2>3 DEF Among
<1>4. fstate[g] = "parked" /\ On(g, op, c)
  BY <1>2, WaitersAsleep DEF AtItsOp
<1>5. ~Rewinding(g)
  BY <1>2 DEF Rewinds, Rewinding
<1>6. pc'[g] = pc[g]
  BY <1>4, <1>5, PcKept DEF Rewinding
<1>7. ~Rewinding(g)'
  <2>1. ~(Executing(w, "join") /\ g = cur[w])
    BY <1>4 DEF Executing, On
  <2>. QED
    BY <1>5, <2>1, RewindMoves
<1>8. On(g, op, c)'
  BY <1>4, <1>6 DEF On
<1>9. PICK t : t = Tail(q)
  OBVIOUS
<1>10. Wants(g, op, c, t)'
  BY <1>3, <1>4, <1>7, <1>8, <1>9 DEF Wants, Unfinished, Among
<1>. QED
  BY <1>1, <1>2, <1>3, <1>9, <1>10 DEF Wants

LEMMA Counting ==
  ASSUME IsFiniteSet(Fiber), NEW S \in SUBSET Fiber, NEW T \in SUBSET Fiber
  PROVE  /\ Cardinality(S) \in Nat /\ Cardinality(T) \in Nat
         /\ S \subseteq T => Cardinality(S) <= Cardinality(T)
         /\ \A f : S \subseteq T \cup {f} => Cardinality(S) - 1 <= Cardinality(T)
         /\ \A f \in T : S \subseteq T /\ f \notin S => Cardinality(S) + 1 <= Cardinality(T)
<1>1. IsFiniteSet(S) /\ IsFiniteSet(T)
  BY FS_Subset
<1>2. Cardinality(S) \in Nat /\ Cardinality(T) \in Nat
  BY <1>1, FS_CardinalityType
<1>3. S \subseteq T => Cardinality(S) <= Cardinality(T)
  BY <1>1, FS_Subset
<1>4. ASSUME NEW f, S \subseteq T \cup {f} PROVE Cardinality(S) - 1 <= Cardinality(T)
  <2>1. /\ IsFiniteSet(T \cup {f})
        /\ Cardinality(T \cup {f}) = IF f \in T THEN Cardinality(T) ELSE Cardinality(T) + 1
    BY <1>1, FS_AddElement
  <2>2. Cardinality(S) <= Cardinality(T \cup {f})
    BY <1>4, <2>1, FS_Subset
  <2>. QED
    BY <1>2, <2>1, <2>2
<1>5. ASSUME NEW f \in T, S \subseteq T, f \notin S PROVE Cardinality(S) + 1 <= Cardinality(T)
  <2>1. IsFiniteSet(S \cup {f}) /\ Cardinality(S \cup {f}) = Cardinality(S) + 1
    BY <1>1, <1>5, FS_AddElement
  <2>2. Cardinality(S \cup {f}) <= Cardinality(T)
    BY <1>1, <1>5, FS_Subset
  <2>. QED
    BY <2>1, <2>2
<1>. QED
  BY <1>2, <1>3, <1>4, <1>5

\* The operations that move something at c.
AtChannel(w) == \/ SendPut(w) \/ SendPark(w) \/ RecvPark(w) \/ RecvValue(w) \/ PollValue(w)
                \/ CloseChannel(w)

LEMMA ChannelKept ==
  ASSUME Inv, NEW w \in Worker, Step(w) \/ SpuriousWakeup(w), NEW c \in Channel,
         ~(AtChannel(w) /\ c = Ch(w))
  PROVE  buf'[c] = buf[c] /\ recvq'[c] = recvq[c] /\ sendq'[c] = sendq[c]
<1>. ChannelsOK
  BY DEF Inv, TypeOK
<1>1. CASE AtChannel(w)
  <2>1. c # Ch(w)
    BY <1>1
  <2>2. CASE SendPut(w) \/ RecvValue(w) \/ PollValue(w)
    BY <2>1, <2>2 DEF SendPut, RecvValue, PollValue, TakeValue, ChannelsOK
  <2>3. CASE SendPark(w) \/ RecvPark(w)
    BY <2>1, <2>3 DEF SendPark, RecvPark, Park, ChannelsOK
  <2>4. CASE CloseChannel(w)
    BY <2>1, <2>4 DEF CloseChannel, ChannelsOK
  <2>. QED
    BY <1>1, <2>2, <2>3, <2>4 DEF AtChannel
<1>2. CASE ~AtChannel(w)
  <2>1. UNCHANGED <<buf, recvq, sendq>>
    <3>1. CASE RunFiber(w)
      BY ONLY <1>2, <3>1 DEF AtChannel, RunFiber, CheckCancel, SendClosed, RecvNone, PollNone,
         WalkChain, Requeue, Push, Loop, Return, Exit, Open, Spawn, JoinPark, Rewind, JoinDone,
         TakeNone, chanVars
    <3>2. CASE Schedule(w) \/ SpuriousWakeup(w)
      BY ONLY <3>2 DEF Schedule, PopPinned, PopReady, PopShutdown, PopWait, PopDeadlock, Save, Halt,
         Finish, Verdict, Sweep, Unlock, Account, Tally, SpuriousWakeup, chanVars
    <3>. QED
      BY <3>1, <3>2 DEF Step
  <2>. QED
    BY <2>1
<1>. QED
  BY <1>1, <1>2

LEMMA MatchedStep ==
  ASSUME QueueInv, Entering, AtItsOp, Rewinds, Leavers, WithinCapacity, NEW w \in Worker,
         Step(w) \/ SpuriousWakeup(w), Apart(w), wpc'[w] = "rewind" => JoinPark(w),
         NEW c \in Channel, Matched(c)
  PROVE  Matched(c)'
<1>. FibersOK /\ WorkersOK /\ ChannelsOK /\ Inv
  BY DEF QueueInv, LiveInv, Inv, TypeOK
<1>. /\ recvq[c] \in Seq(Fiber) /\ sendq[c] \in Seq(Fiber) /\ buf[c] \in Seq(Fiber)
     /\ Len(buf[c]) \in Nat /\ Capacity[c] \in Nat \ {0} /\ Len(buf[c]) <= Capacity[c]
  BY SchedulerAssumption DEF ChannelsOK, WithinCapacity, SchedulerAssumption
<1>1. PICK T \in SUBSET Fiber, P \in SUBSET Fiber : T = Takers(c) /\ P = Putters(c)
  BY DEF Takers, Putters
<1>2. PICK T1 \in SUBSET Fiber, P1 \in SUBSET Fiber : T1 = Takers(c)' /\ P1 = Putters(c)'
  BY DEF Takers, Putters
<1>3. /\ \A f \in T : \/ f \in T1
                      \/ f = cur[w] /\ c = Ch(w) /\ Entered(w, "recv")
                         /\ (RecvPark(w) \/ RecvValue(w) \/ RecvNone(w))
      /\ \A f \in P : \/ f \in P1 \/ closed[c]
                      \/ f = cur[w] /\ c = Ch(w) /\ Entered(w, "send")
                         /\ (SendPark(w) \/ SendPut(w))
  BY <1>1, <1>2, WantsKept
<1>4. /\ recvq[c] # <<>> => Len(buf[c]) <= Cardinality(T)
      /\ sendq[c] # <<>> => Capacity[c] - Len(buf[c]) <= Cardinality(P)
      /\ closed[c] => recvq[c] = <<>> /\ sendq[c] = <<>>
  BY <1>1 DEF Matched
<1>5. /\ IsFiniteSet(Fiber) /\ Cardinality(T) \in Nat /\ Cardinality(P) \in Nat
      /\ Cardinality(T1) \in Nat /\ Cardinality(P1) \in Nat
  BY Counting, FinitePool DEF FinitePool
<1>6. SUFFICES /\ recvq'[c] # <<>> => Len(buf'[c]) <= Cardinality(T1)
               /\ sendq'[c] # <<>> => Capacity[c] - Len(buf'[c]) <= Cardinality(P1)
               /\ closed'[c] => recvq'[c] = <<>> /\ sendq'[c] = <<>>
  BY <1>2 DEF Matched
<1>7. Entered(w, "recv") => ~Entered(w, "send")
  BY DEF Entered
<1>8. CASE ~(AtChannel(w) /\ c = Ch(w))
  <2>1. buf'[c] = buf[c] /\ recvq'[c] = recvq[c] /\ sendq'[c] = sendq[c]
    BY <1>8, ChannelKept
  <2>2. closed'[c] = closed[c]
    BY <1>8, ClosedStays DEF AtChannel
  <2>3. CASE closed[c]
    BY <1>4, <2>1, <2>2, <2>3
  <2>4. CASE ~closed[c]
    <3>1. ~(RecvNone(w) /\ c = Ch(w))
      BY <2>4 DEF RecvNone
    <3>2. T \subseteq T1 /\ P \subseteq P1
      BY <1>3, <1>8, <2>4, <3>1 DEF AtChannel
    <3>3. Cardinality(T) <= Cardinality(T1) /\ Cardinality(P) <= Cardinality(P1)
      BY <1>5, <3>2, Counting
    <3>. QED
      BY ONLY <1>4, <1>5, <2>1, <2>2, <2>4, <3>3, Len(buf[c]) \in Nat, Capacity[c] \in Nat \ {0}
  <2>. QED
    BY <2>3, <2>4
<1>9. CASE CloseChannel(w) /\ c = Ch(w)
  <2>1. recvq'[c] = <<>> /\ sendq'[c] = <<>>
    BY <1>9 DEF CloseChannel, ChannelsOK
  <2>. QED
    BY <2>1
<1>10. CASE SendPut(w) /\ c = Ch(w)
  <2>1. /\ Entered(w, "send") /\ ~closed[c] /\ closed' = closed /\ fstate' = fstate
        /\ Len(buf'[c]) = Len(buf[c]) + 1 /\ recvq'[c] = RestOf(recvq[c]) /\ sendq'[c] = sendq[c]
    BY <1>10 DEF SendPut, ChannelsOK, WorkersOK
  <2>2. T \subseteq T1
    BY <1>3, <1>7, <2>1
  <2>3. P \subseteq P1 \cup {cur[w]}
    BY <1>3, <2>1
  <2>4. Cardinality(P) - 1 <= Cardinality(P1)
    BY <1>5, <2>3, Counting
  <2>5. sendq'[c] # <<>> => Capacity[c] - Len(buf'[c]) <= Cardinality(P1)
    BY ONLY <1>4, <1>5, <2>1, <2>4, Len(buf[c]) \in Nat, Capacity[c] \in Nat \ {0}
  <2>6. ASSUME recvq'[c] # <<>> PROVE Len(buf'[c]) <= Cardinality(T1)
    <3>1. recvq[c] # <<>> /\ recvq'[c] = Tail(recvq[c])
      BY <2>1, <2>6 DEF RestOf
    <3>2. PICK q \in Seq(Fiber) : q = recvq[c]
      OBVIOUS
    <3>3. /\ Head(q) \in Fiber /\ Among(Head(q), q)
          /\ (Wants(Head(q), "recv", c, Tail(q)))'
      BY <2>1, <3>1, <3>2, FirstWants
    <3>4. PICK g, t : g \in Fiber /\ g = Head(q) /\ t = Tail(q)
      BY <3>3
    <3>5. Wants(g, "recv", c, t)' /\ recvq'[c] = t
      BY <3>1, <3>2, <3>3, <3>4 DEF Wants
    <3>6. g \in T1
      BY ONLY <1>2, <3>4, <3>5 DEF Takers, Wants
    <3>7. g \notin T
      BY <1>1, <3>2, <3>3, <3>4 DEF Takers, Wants
    <3>8. Cardinality(T) + 1 <= Cardinality(T1)
      BY <1>5, <2>2, <3>6, <3>7, Counting
    <3>. QED
      BY ONLY <1>4, <1>5, <2>1, <3>1, <3>8, Len(buf[c]) \in Nat
  <2>. QED
    BY <2>1, <2>5, <2>6
<1>11. CASE (RecvValue(w) \/ PollValue(w)) /\ c = Ch(w)
  <2>1. /\ TakeValue(w) /\ buf[c] # <<>> /\ ~Entered(w, "send")
    BY <1>11 DEF RecvValue, PollValue, Entered, Executing
  <2>2. /\ closed' = closed /\ fstate' = fstate /\ buf'[c] = Tail(buf[c])
        /\ recvq'[c] = recvq[c] /\ sendq'[c] = RestOf(sendq[c])
    BY <1>11, <2>1 DEF TakeValue, ChannelsOK
  <2>3. Len(buf'[c]) = Len(buf[c]) - 1
    BY <2>1, <2>2
  <2>4. T \subseteq T1 \cup {cur[w]}
    BY <1>3
  <2>5. Cardinality(T) - 1 <= Cardinality(T1)
    BY <1>5, <2>4, Counting
  <2>6. recvq'[c] # <<>> => Len(buf'[c]) <= Cardinality(T1)
    BY ONLY <1>4, <1>5, <2>2, <2>3, <2>5, Len(buf[c]) \in Nat
  <2>7. closed'[c] => recvq'[c] = <<>> /\ sendq'[c] = <<>>
    BY <1>4, <2>2 DEF RestOf
  <2>8. ASSUME sendq'[c] # <<>> PROVE Capacity[c] - Len(buf'[c]) <= Cardinality(P1)
    <3>1. sendq[c] # <<>> /\ sendq'[c] = Tail(sendq[c])
      BY <2>2, <2>8 DEF RestOf
    <3>2. PICK q \in Seq(Fiber) : q = sendq[c]
      OBVIOUS
    <3>3. /\ Head(q) \in Fiber /\ Among(Head(q), q)
          /\ (Wants(Head(q), "send", c, Tail(q)))'
      BY <2>2, <3>1, <3>2, FirstWants
    <3>4. PICK g, t : g \in Fiber /\ g = Head(q) /\ t = Tail(q)
      BY <3>3
    <3>5. Wants(g, "send", c, t)' /\ sendq'[c] = t
      BY <3>1, <3>2, <3>3, <3>4 DEF Wants
    <3>6. g \in P1
      BY ONLY <1>2, <3>4, <3>5 DEF Putters, Wants
    <3>7. g \notin P
      BY <1>1, <3>2, <3>3, <3>4 DEF Putters, Wants
    <3>8. P \subseteq P1
      BY <1>3, <1>4, <2>1, <3>1
    <3>9. Cardinality(P) + 1 <= Cardinality(P1)
      BY <1>5, <3>6, <3>7, <3>8, Counting
    <3>. QED
      BY ONLY <1>4, <1>5, <2>3, <3>1, <3>9, Len(buf[c]) \in Nat, Capacity[c] \in Nat \ {0}
  <2>. QED
    BY <2>6, <2>7, <2>8
<1>12. CASE RecvPark(w) /\ c = Ch(w)
  <2>1. /\ Entered(w, "recv") /\ ~closed[c] /\ closed' = closed /\ buf[c] = <<>>
        /\ buf' = buf /\ sendq' = sendq
    BY <1>12 DEF RecvPark, Park
  <2>2. Len(buf'[c]) = 0
    BY <2>1
  <2>3. P \subseteq P1
    BY <1>3, <1>7, <2>1
  <2>4. Cardinality(P) <= Cardinality(P1)
    BY <1>5, <2>3, Counting
  <2>5. sendq'[c] # <<>> => Capacity[c] - Len(buf'[c]) <= Cardinality(P1)
    BY ONLY <1>4, <1>5, <2>1, <2>4, Len(buf[c]) \in Nat, Capacity[c] \in Nat \ {0}
  <2>. QED
    BY <1>5, <2>1, <2>2, <2>5
<1>13. CASE SendPark(w) /\ c = Ch(w)
  <2>1. /\ Entered(w, "send") /\ ~closed[c] /\ closed' = closed /\ Len(buf[c]) = Capacity[c]
        /\ buf' = buf /\ recvq' = recvq
    BY <1>13 DEF SendPark, Park, Full
  <2>2. T \subseteq T1
    BY <1>3, <1>7, <2>1
  <2>3. Cardinality(T) <= Cardinality(T1)
    BY <1>5, <2>2, Counting
  <2>4. recvq'[c] # <<>> => Len(buf'[c]) <= Cardinality(T1)
    BY ONLY <1>4, <1>5, <2>1, <2>3, Len(buf[c]) \in Nat
  <2>5. Capacity[c] - Len(buf'[c]) <= Cardinality(P1)
    BY ONLY <1>5, <2>1, Len(buf[c]) \in Nat
  <2>. QED
    BY <2>1, <2>4, <2>5
<1>. QED
  BY <1>8, <1>9, <1>10, <1>11, <1>12, <1>13 DEF AtChannel

\* Who comes to wait for work, and what counts him.
LEMMA IdleArrivals ==
  ASSUME Inv, NEW w \in Worker, Step(w) \/ SpuriousWakeup(w), wpc'[w] \in {"idle", "woken"}
  PROVE  PopWait(w) \/ SpuriousWakeup(w)
<1>. WorkersOK
  BY DEF Inv, TypeOK
<1>1. CASE \/ CheckCancel(w) \/ SendClosed(w) \/ SendPark(w) \/ RecvPark(w) \/ RecvNone(w)
           \/ PollNone(w) \/ CloseChannel(w) \/ Loop(w) \/ Return(w) \/ Exit(w) \/ Open(w)
           \/ JoinPark(w) \/ Rewind(w) \/ JoinDone(w)
  <2>1. \/ wpc' = wpc /\ wpc[w] = "exec"
        \/ \E l \in {"enter", "halt", "finish", "save", "exec", "chain", "rewind"} :
             wpc' = [wpc EXCEPT ![w] = l]
    BY ONLY <1>1 DEF CheckCancel, SendClosed, SendPark, RecvPark, Park, RecvNone, PollNone,
       TakeNone, CloseChannel, Loop, Return, Exit, Open, JoinPark, Rewind, JoinDone, Leave, Goto,
       Executing
  <2>. QED
    BY <2>1 DEF WorkersOK
<1>2. CASE SendPut(w) \/ RecvValue(w) \/ PollValue(w) \/ WalkChain(w) \/ Sweep(w) \/ Account(w)
  <2>1. \E l \in {"exec", "wake", "chain", "unlock", "tally"} : wpc' = [wpc EXCEPT ![w] = l]
    BY ONLY <1>2 DEF SendPut, RecvValue, PollValue, TakeValue, WalkChain, Sweep, Account,
       RequeueThen, Goto
  <2>. QED
    BY <2>1 DEF WorkersOK
<1>3. CASE Requeue(w) \/ Verdict(w)
  <2>1. \E l \in {"push", "wake", then[w]} : wpc' = [wpc EXCEPT ![w] = l]
    BY ONLY <1>3 DEF Requeue, Verdict, Next1, Goto
  <2>. QED
    BY <2>1 DEF WorkersOK
<1>4. CASE Push(w)
  <2>1. PICK s : GotoWaking(w, Next1(w), s)
    BY <1>4 DEF Push
  <2>. QED
    BY <2>1 DEF GotoWaking, Next1, WorkersOK
<1>5. CASE Spawn(w) \/ Halt(w) \/ Tally(w) \/ PopDeadlock(w)
  <2>1. \E s : \E l \in {"exec", "finish", "gone", "pop"} : GotoWaking(w, l, s)
    BY ONLY <1>5 DEF Spawn, Halt, Tally, PopDeadlock
  <2>. QED
    BY <2>1 DEF GotoWaking
<1>6. CASE \/ PopPinned(w) \/ PopReady(w) \/ PopShutdown(w) \/ Save(w) \/ Finish(w) \/ Unlock(w)
  <2>1. \E l \in {"exec", "pop", "gone", "halt", "tally", "account", "verdict"} :
          wpc' = [wpc EXCEPT ![w] = l]
    BY ONLY <1>6 DEF PopPinned, PopReady, PopShutdown, Save, Finish, Unlock, Claim, Goto
  <2>. QED
    BY <2>1 DEF WorkersOK
<1>. QED
  BY ONLY <1>1, <1>2, <1>3, <1>4, <1>5, <1>6, Step(w) \/ SpuriousWakeup(w)
     DEF Step, RunFiber, Schedule

Pops(w) == PopPinned(w) \/ PopReady(w) \/ PopShutdown(w) \/ PopDeadlock(w)

LEMMA IdleMoves ==
  ASSUME NEW w \in Worker, Step(w) \/ SpuriousWakeup(w)
  PROVE  \/ SpuriousWakeup(w) \/ PopWait(w) \/ Pops(w)
         \/ /\ wpc[w] \notin {"off", "gone", "woken", "idle"}
            /\ UNCHANGED <<nidle, reported>>
<1>1. CASE RunFiber(w)
  <2>1. UNCHANGED <<nidle, reported>>
    BY ONLY <1>1 DEF RunFiber, CheckCancel, SendClosed, SendPark, SendPut, RecvPark, RecvValue,
       RecvNone, PollValue, PollNone, CloseChannel, WalkChain, Requeue, Push, Loop, Return, Exit,
       Open, Spawn, JoinPark, Rewind, JoinDone, TakeValue, TakeNone, poolVars
  <2>2. wpc[w] \in {"exec", "enter", "chain", "wake", "push", "rewind"}
    BY ONLY <1>1 DEF RunFiber, CheckCancel, SendClosed, SendPark, SendPut, RecvPark, RecvValue,
       RecvNone, PollValue, PollNone, CloseChannel, WalkChain, Requeue, Push, Loop, Return, Exit,
       Open, Spawn, JoinPark, Rewind, JoinDone, Executing, Entered
  <2>. QED
    BY <2>1, <2>2
<1>2. CASE \/ Save(w) \/ Halt(w) \/ Finish(w) \/ Verdict(w) \/ Sweep(w) \/ Unlock(w) \/ Account(w)
           \/ Tally(w)
  BY ONLY <1>2 DEF Save, Halt, Finish, Verdict, Sweep, Unlock, Account, Tally, poolVars
<1>. QED
  BY ONLY <1>1, <1>2, Step(w) \/ SpuriousWakeup(w) DEF Step, Schedule, Pops

LEMMA PopMoves ==
  ASSUME Inv, NEW w \in Worker, Pops(w) \/ PopWait(w)
  PROVE  /\ wpc[w] \in {"pop", "woken"}
         /\ nidle' = IF PopWait(w) THEN IdleNow(w) + 1 ELSE IdleNow(w)
         /\ Pops(w) => wpc'[w] \in {"pop", "exec", "gone"}
         /\ PopWait(w) => wpc'[w] = "idle"
<1>. WorkersOK
  BY DEF Inv, TypeOK
<1>1. CASE PopWait(w)
  <2>1. wpc'[w] = "idle"
    BY <1>1 DEF PopWait, Goto, WorkersOK
  <2>2. wpc[w] \in {"pop", "woken"} /\ nidle' = IdleNow(w) + 1
    BY <1>1 DEF PopWait, NothingToPop, InPop
  <2>3. ASSUME Pops(w) PROVE FALSE
    BY <1>1, <2>3 DEF Pops, PopWait, PopPinned, PopReady, PopShutdown, PopDeadlock, NothingToPop
  <2>. QED
    BY <1>1, <2>1, <2>2, <2>3
<1>2. CASE Pops(w) /\ ~PopWait(w)
  <2>1. wpc[w] \in {"pop", "woken"} /\ nidle' = IdleNow(w)
    BY <1>2 DEF Pops, PopPinned, PopReady, PopShutdown, PopDeadlock, NothingToPop, InPop
  <2>2. wpc'[w] \in {"pop", "exec", "gone"}
    BY <1>2 DEF Pops, PopPinned, PopReady, PopShutdown, PopDeadlock, Claim, Goto, GotoWaking,
       WorkersOK
  <2>. QED
    BY <1>2, <2>1, <2>2
<1>. QED
  BY <1>1, <1>2

LEMMA IdlingStep ==
  ASSUME Inv, Idling, NEW w \in Worker, Step(w) \/ SpuriousWakeup(w), Apart(w)
  PROVE  Idling'
<1>. WorkersOK
  BY DEF Inv, TypeOK
<1>1. PICK S, T : S = InWait /\ T = InWait'
  OBVIOUS
<1>2. \A v \in Worker \ {w} : v \in S <=> v \in T
  BY <1>1 DEF InWait, Apart
<1>3. S \subseteq Worker /\ T \subseteq Worker /\ IsFiniteSet(S)
  BY <1>1, FinitePool, FS_Subset DEF InWait, FinitePool
<1>4. nidle = Cardinality(S) /\ Cardinality(S) \in Nat
  BY <1>1, <1>3, FS_CardinalityType DEF Idling
<1>5. w \in S <=> wpc[w] \in {"idle", "woken"}
  BY <1>1 DEF InWait
<1>6. w \in T <=> wpc'[w] \in {"idle", "woken"}
  BY <1>1 DEF InWait
<1>7. SUFFICES nidle' = Cardinality(T)
  BY <1>1 DEF Idling
<1>8. CASE SpuriousWakeup(w)
  <2>1. nidle' = nidle /\ wpc'[w] = "woken" /\ wpc[w] = "idle"
    BY <1>8 DEF SpuriousWakeup, Goto, WorkersOK, poolVars
  <2>2. T = S
    BY <1>2, <1>3, <1>5, <1>6, <2>1
  <2>. QED
    BY <1>4, <2>1, <2>2
<1>9. CASE PopWait(w)
  <2>1. /\ wpc[w] \in {"pop", "woken"} /\ nidle' = IdleNow(w) + 1 /\ wpc'[w] = "idle"
    BY <1>9, PopMoves
  <2>2. T = S \cup {w}
    BY <1>2, <1>3, <1>6, <2>1
  <2>3. Cardinality(T) = IF w \in S THEN Cardinality(S) ELSE Cardinality(S) + 1
    BY <1>3, <2>2, FS_AddElement
  <2>. QED
    BY <1>4, <1>5, <2>1, <2>3 DEF IdleNow
<1>10. CASE Pops(w) /\ ~PopWait(w)
  <2>1. wpc[w] \in {"pop", "woken"} /\ nidle' = IdleNow(w) /\ wpc'[w] \notin {"idle", "woken"}
    BY <1>10, PopMoves
  <2>2. T = S \ {w}
    BY <1>2, <1>3, <1>6, <2>1
  <2>3. Cardinality(T) = IF w \in S THEN Cardinality(S) - 1 ELSE Cardinality(S)
    BY <1>3, <2>2, FS_RemoveElement
  <2>. QED
    BY <1>4, <1>5, <2>1, <2>3 DEF IdleNow
<1>11. CASE ~SpuriousWakeup(w) /\ ~PopWait(w) /\ ~Pops(w)
  <2>1. wpc[w] \notin {"idle", "woken"} /\ nidle' = nidle
    BY <1>11, IdleMoves
  <2>2. wpc'[w] \notin {"idle", "woken"}
    BY <1>11, IdleArrivals
  <2>3. T = S
    BY <1>2, <1>3, <1>5, <1>6, <2>1, <2>2
  <2>. QED
    BY <1>4, <2>1, <2>3
<1>. QED
  BY <1>8, <1>9, <1>10, <1>11

\* When the verdict falls every other worker waits, and from then on they only leave.
LEMMA QuietStep ==
  ASSUME Inv, Idling, Quiet, NEW w \in Worker, Step(w) \/ SpuriousWakeup(w), Apart(w)
  PROVE  Quiet'
<1>. WorkersOK
  BY DEF Inv, TypeOK
<1>1. ASSUME NEW v \in Worker \ {w}, wpc[v] \in {"off", "gone", "woken", "idle"}
      PROVE  wpc'[v] \in {"off", "gone", "woken", "idle"}
  BY <1>1 DEF Apart
<1>2. CASE reported
  <2>1. /\ \A v \in Worker : wpc[v] \in {"off", "gone", "woken", "idle"}
        /\ head = NoFiber /\ pinned = NoFiber /\ shutdown
    BY <1>2 DEF Quiet
  <2>2. SpuriousWakeup(w) \/ PopWait(w) \/ Pops(w)
    BY <2>1, IdleMoves
  <2>3. SpuriousWakeup(w) \/ PopShutdown(w)
    BY <2>1, <2>2 DEF PopWait, Pops, PopPinned, PopReady, PopDeadlock
  <2>4. UNCHANGED <<head, pinned, shutdown>> /\ wpc'[w] \in {"woken", "gone"}
    BY <2>3 DEF SpuriousWakeup, PopShutdown, Goto, queueVars, poolVars, WorkersOK
  <2>. QED
    BY <1>1, <2>1, <2>4 DEF Quiet
<1>3. CASE ~reported
  <2>1. SUFFICES ASSUME reported' PROVE Quiet'
    BY DEF Quiet
  <2>2. PopDeadlock(w)
    BY <1>3, <2>1, IdleMoves DEF SpuriousWakeup, PopWait, Pops, PopPinned, PopReady, PopShutdown,
       poolVars
  <2>3. /\ head' = NoFiber /\ pinned' = NoFiber /\ shutdown' /\ wpc'[w] = "gone"
        /\ IdleNow(w) + 1 = Cardinality(Worker)
        /\ wpc[w] \in {"pop", "woken"}
    BY <2>2 DEF PopDeadlock, NothingToPop, InPop, Stalled, GotoWaking, queueVars
  <2>4. PICK S : S = InWait
    OBVIOUS
  <2>5. S \subseteq Worker /\ IsFiniteSet(S) /\ IsFiniteSet(Worker)
    BY <2>4, FinitePool, FS_Subset DEF InWait, FinitePool
  <2>6. nidle = Cardinality(S) /\ Cardinality(S) \in Nat /\ (w \in S <=> wpc[w] = "woken")
    BY <2>3, <2>4, <2>5, FS_CardinalityType DEF Idling, InWait
  <2>7. Cardinality(S \cup {w}) = Cardinality(Worker)
    <3>1. Cardinality(S \cup {w}) = IF w \in S THEN Cardinality(S) ELSE Cardinality(S) + 1
      BY <2>5, FS_AddElement
    <3>. QED
      BY <2>3, <2>6, <3>1 DEF IdleNow
  <2>8. S \cup {w} = Worker
    BY <2>5, <2>7, FS_Subset
  <2>9. \A v \in Worker \ {w} : wpc[v] \in {"idle", "woken"}
    BY <2>4, <2>8 DEF InWait
  <2>. QED
    BY <1>1, <2>3, <2>9 DEF Quiet
<1>. QED
  BY <1>2, <1>3

-----------------------------------------------------------------------------
(* The verdict *)

LEMMA AskInit == Init => AskInv
<1>. SUFFICES ASSUME Init PROVE AskInv
  OBVIOUS
<1>. Main \in Fiber /\ Worker0 \in Worker
  BY SchedulerAssumption DEF SchedulerAssumption
<1>1. /\ \A w \in Worker : wpc[w] = IF w = Worker0 THEN "exec" ELSE IF w \in Started THEN "pop" ELSE "off"
      /\ \A w \in Worker : cur[w] = Main
      /\ \A f \in Fiber : fstate[f] = IF f = Main THEN "running" ELSE "unborn"
      /\ \A n \in Nursery : ~group[n].parentParked
      /\ \A c \in Channel : buf[c] = <<>> /\ recvq[c] = <<>> /\ sendq[c] = <<>> /\ ~closed[c]
      /\ nidle = 0 /\ ~reported
  BY DEF Init, NewGroup
<1>2. Entering /\ Rewinds /\ Leavers /\ AtBrace /\ Quiet
  BY <1>1 DEF Entering, Rewinds, Leavers, AtBrace, Quiet
<1>3. AtItsOp
  BY <1>1 DEF AtItsOp, Among
<1>4. (\A c \in Channel : Matched(c)) /\ WithinCapacity
  <2>1. \A c \in Channel : Len(buf[c]) = 0 /\ Capacity[c] \in Nat \ {0}
    BY <1>1, SchedulerAssumption DEF SchedulerAssumption
  <2>. QED
    BY <1>1, <2>1 DEF Matched, WithinCapacity
<1>5. Attended
  <2>1. Stage(Worker0) = "runs" /\ cur[Worker0] = Main
    BY <1>1 DEF Stage, At
  <2>. QED
    BY <1>1, <2>1 DEF Attended
<1>6. Idling
  <2>1. InWait = {}
    BY <1>1 DEF InWait
  <2>. QED
    BY <1>1, <2>1, FS_EmptySet DEF Idling
<1>. QED
  BY <1>2, <1>3, <1>4, <1>5, <1>6 DEF AskInv

LEMMA AskStutter ==
  ASSUME AskInv, UNCHANGED vars
  PROVE  AskInv'
<1>. UNCHANGED <<fstate, pc, sp, wpc, cur, then, group, buf, closed, recvq, sendq, nidle, head,
                 pinned, shutdown, reported>>
  BY DEF vars, fiberVars, queueVars, poolVars, groupVars, chanVars, localVars
<1>1. Entering' /\ AtItsOp' /\ Leavers' /\ WithinCapacity'
  BY DEF AskInv, Entering, AtItsOp, Leavers, WithinCapacity, On, Among
<1>2. \A f : Rewinding(f)' = Rewinding(f)
  BY DEF Rewinding
<1>3. Rewinds' /\ AtBrace'
  BY <1>2 DEF AskInv, Rewinds, AtBrace, IsJoin, Among
<1>4. ASSUME NEW c \in Channel PROVE Matched(c)'
  <2>1. Takers(c)' = Takers(c) /\ Putters(c)' = Putters(c)
    BY <1>2 DEF Takers, Putters, Wants, On, Among
  <2>. QED
    BY <2>1 DEF AskInv, Matched
<1>5. Attended'
  BY DEF AskInv, Attended, Stage, At
<1>6. Idling' /\ Quiet'
  BY DEF AskInv, Idling, InWait, Quiet
<1>. QED
  BY <1>1, <1>3, <1>4, <1>5, <1>6 DEF AskInv

LEMMA AskInvStep == QueueInv /\ AskInv /\ NoCancel /\ RewindFirst /\ [Next]_vars => AskInv'
<1>. SUFFICES ASSUME QueueInv, AskInv, NoCancel, RewindFirst, [Next]_vars PROVE AskInv'
  OBVIOUS
<1>1. Inv
  BY DEF QueueInv, LiveInv
<1>2. CASE UNCHANGED vars
  BY <1>2, AskStutter
<1>3. ASSUME NEW w \in Started, Step(w) \/ SpuriousWakeup(w) PROVE AskInv'
  <2>1. w \in Worker
    BY SchedulerAssumption DEF SchedulerAssumption
  <2>2. Apart(w) /\ Kind(w) /\ Beside(w)
    BY <1>1, <1>3, <2>1, KindStep, ApartStep, BesideStep DEF QueueInv, LiveInv
  <2>3. wpc'[w] = "rewind" => JoinPark(w)
    BY <1>1, <1>3, <2>1, RewindArrives
  <2>4. Entering' /\ AtItsOp' /\ Rewinds'
    BY <1>3, <2>1, <2>2, EnteringStep, AtItsOpStep, RewindsStep DEF AskInv
  <2>5. AtBrace' /\ Leavers'
    BY <1>3, <2>1, <2>2, AtBraceStep, LeaversStep DEF AskInv
  <2>6. ASSUME NEW c \in Channel PROVE Matched(c)'
    BY <1>3, <2>1, <2>2, <2>3, MatchedStep DEF AskInv
  <2>7. WithinCapacity'
    BY <1>1, ChannelSteps DEF AskInv
  <2>8. Attended' /\ Idling' /\ Quiet'
    BY <1>1, <1>3, <2>1, <2>2, AttendedStep, IdlingStep, QuietStep DEF AskInv
  <2>. QED
    BY <2>4, <2>5, <2>6, <2>7, <2>8 DEF AskInv
<1>. QED
  BY <1>2, <1>3 DEF Next

\* Nobody waits in vain: a fiber parked on a channel that has what it waits for leaves another
\* one that wants it too, so that not every fiber is parked.
LEMMA NobodyWants ==
  ASSUME QueueInv, AskInv, reported, NEW f \in Fiber, fstate[f] \notin {"unborn", "done"}
  PROVE  /\ fstate[f] = "parked" /\ ~Rewinding(f)
         /\ \/ \E c \in Channel : Among(f, recvq[c]) \/ Among(f, sendq[c])
            \/ \E n \in Nursery : /\ curOpen[f] = n /\ group[n].parentParked
                                  /\ group[n].parent = f /\ group[n].live >= 1
<1>. FibersOK /\ WorkersOK
  BY DEF QueueInv, LiveInv, Inv, TypeOK
<1>1. PICK at \in Map : PlacesOK(at)
  BY DEF QueueInv, Placed
<1>2. /\ \A w \in Worker : wpc[w] \in {"off", "gone", "woken", "idle"}
      /\ head = NoFiber /\ pinned = NoFiber
  BY DEF AskInv, Quiet
<1>3. \A w \in Worker : At(w) = wpc[w] /\ Stage(w) = "none"
  BY <1>2 DEF At, Stage, Uncounted
<1>4. fstate[f] # "running"
  BY <1>3 DEF AskInv, Attended
<1>5. at[f].spot \notin {"wake", "push"}
  BY <1>1, <1>2 DEF PlacesOK, Handled, Hands
<1>6. at[f].spot # "queue"
  <2>1. InQueue(at) = {}
    BY <1>1, <1>2 DEF PlacesOK, Queued, List
  <2>. QED
    BY <2>1 DEF InQueue
<1>7. at[f].spot # "pinned"
  BY <1>1, <1>2, SchedulerAssumption DEF PlacesOK, Slot, SchedulerAssumption
<1>8. at[f].spot # "chain"
  <2>1. SUFFICES ASSUME at[f].spot = "chain" PROVE FALSE
    OBVIOUS
  <2>2. PICK w \in Worker : w = at[f].own
    BY <1>1, <2>1 DEF PlacesOK, Chained
  <2>3. chain[w] = NoFiber
    BY <1>1, <1>2, <1>3 DEF PlacesOK, Chained
  <2>4. InChain(w, at) = {}
    BY <1>1, <2>3 DEF PlacesOK, Chained, List
  <2>. QED
    BY <2>1, <2>2, <2>4 DEF InChain
<1>9. fstate[f] = "parked" /\ at[f].spot \in {"recv", "send", "join"}
  BY <1>1, <1>4, <1>5, <1>6, <1>7, <1>8 DEF PlacesOK, Standing, Asleep, Awake, FibersOK
<1>10. ~Rewinding(f)
  BY <1>2 DEF Rewinding
<1>11. CASE at[f].spot = "join"
  <2>1. PICK n \in Nursery : n = at[f].own /\ curOpen[f] = n /\ group[n].parentParked
                             /\ group[n].parent = f
    BY <1>1, <1>11 DEF PlacesOK, Joining
  <2>2. group[n].live >= 1
    BY <1>1, <2>1 DEF PlacesOK, Joining
  <2>. QED
    BY <1>9, <1>10, <2>1, <2>2
<1>12. CASE at[f].spot \in {"recv", "send"}
  <2>1. PICK c \in Channel : c = at[f].own
    BY <1>1, <1>12 DEF PlacesOK, Waiting
  <2>2. Among(f, recvq[c]) \/ Among(f, sendq[c])
    BY <1>1, <1>12, <2>1 DEF PlacesOK, Waiting, Fifo, Among
  <2>. QED
    BY <1>9, <1>10, <2>2
<1>. QED
  BY <1>9, <1>11, <1>12

LEMMA WaitsInVain ==
  ASSUME QueueInv, AskInv, reported, NEW f \in Fiber, NEW c \in Channel
  PROVE  /\ Among(f, recvq[c]) => On(f, "recv", c) /\ ~closed[c] /\ buf[c] = <<>>
         /\ Among(f, sendq[c]) => On(f, "send", c) /\ ~closed[c] /\ Len(buf[c]) = Capacity[c]
<1>. ChannelsOK
  BY DEF QueueInv, LiveInv, Inv, TypeOK
<1>. /\ buf[c] \in Seq(Fiber) /\ Len(buf[c]) \in Nat /\ Capacity[c] \in Nat \ {0}
     /\ Len(buf[c]) <= Capacity[c]
  BY SchedulerAssumption DEF ChannelsOK, SchedulerAssumption, AskInv, WithinCapacity
<1>1. ASSUME NEW g \in Fiber, fstate[g] \in Unfinished
      PROVE  /\ On(g, "recv", c) => Among(g, recvq[c])
             /\ On(g, "send", c) => Among(g, sendq[c])
  <2>1. fstate[g] \notin {"unborn", "done"}
    BY <1>1 DEF Unfinished
  <2>2. CASE \E d \in Channel : Among(g, recvq[d]) \/ Among(g, sendq[d])
    <3>1. PICK d \in Channel : Among(g, recvq[d]) \/ Among(g, sendq[d])
      BY <2>2
    <3>2. (Among(g, recvq[d]) => On(g, "recv", d)) /\ (Among(g, sendq[d]) => On(g, "send", d))
      BY DEF AskInv, AtItsOp
    <3>. QED
      BY <3>1, <3>2 DEF On
  <2>3. CASE \E n \in Nursery : group[n].parentParked /\ group[n].parent = g
    <3>1. IsJoin(g, pc[g]) \/ Rewinding(g)
      BY <2>3 DEF AskInv, AtBrace
    <3>2. ~Rewinding(g)
      BY <2>1, NobodyWants
    <3>. QED
      BY <3>1, <3>2 DEF IsJoin, On
  <2>. QED
    BY <2>1, <2>2, <2>3, NobodyWants
<1>2. Takers(c) = {} /\ Putters(c) = {}
  BY <1>1 DEF Takers, Putters, Wants
<1>3. Cardinality(Takers(c)) = 0 /\ Cardinality(Putters(c)) = 0
  BY <1>2, FS_EmptySet
<1>4. Matched(c)
  BY DEF AskInv
<1>5. ASSUME Among(f, recvq[c])
      PROVE  On(f, "recv", c) /\ ~closed[c] /\ buf[c] = <<>>
  <2>1. recvq[c] # <<>>
    BY <1>5 DEF Among
  <2>2. Len(buf[c]) = 0 /\ ~closed[c]
    BY <1>3, <1>4, <2>1 DEF Matched
  <2>. QED
    BY <1>5, <2>2 DEF AskInv, AtItsOp
<1>6. ASSUME Among(f, sendq[c])
      PROVE  On(f, "send", c) /\ ~closed[c] /\ Len(buf[c]) = Capacity[c]
  <2>1. sendq[c] # <<>>
    BY <1>6 DEF Among
  <2>2. Capacity[c] - Len(buf[c]) <= 0 /\ ~closed[c]
    BY <1>3, <1>4, <2>1 DEF Matched
  <2>3. Len(buf[c]) = Capacity[c]
    BY ONLY <2>2, Len(buf[c]) \in Nat, Capacity[c] \in Nat \ {0}, Len(buf[c]) <= Capacity[c]
  <2>. QED
    BY <1>6, <2>2, <2>3 DEF AskInv, AtItsOp
<1>. QED
  BY <1>5, <1>6

LEMMA AskInvariant ==
  Spec => ([]MainStays /\ []NoCancel /\ []RewindFirst => [](QueueInv /\ AskInv))
  BY QueueInvariant, AskInit, AskInvStep, PTL DEF Spec

\* As long as no group is cancelled and every parent rewinds its ip in time, rq_pop's verdict is a
\* true one: when it reports a deadlock, every fiber left is parked on a channel that is open and
\* has nothing for it, or at the brace of a nursery with a live child.
THEOREM VerdictIsTrue ==
  Spec => ([]MainStays /\ []NoCancel /\ []RewindFirst => []DeadlockIsReal)
<1>1. QueueInv /\ AskInv => DeadlockIsReal
  <2>1. SUFFICES ASSUME QueueInv, AskInv, reported, NEW f \in Fiber,
                        fstate[f] \notin {"unborn", "done"}
                 PROVE  fstate[f] = "parked" /\ Blocked(f)
    BY DEF DeadlockIsReal
  <2>2. fstate[f] = "parked" /\ ~Rewinding(f)
    BY <2>1, NobodyWants
  <2>3. CASE \E c \in Channel : Among(f, recvq[c]) \/ Among(f, sendq[c])
    <3>1. PICK c \in Channel : Among(f, recvq[c]) \/ Among(f, sendq[c])
      BY <2>3
    <3>2. \/ On(f, "recv", c) /\ ~closed[c] /\ buf[c] = <<>>
          \/ On(f, "send", c) /\ ~closed[c] /\ Len(buf[c]) = Capacity[c]
      BY <2>1, <3>1, WaitsInVain
    <3>. QED
      BY <2>2, <3>2 DEF On, Blocked
  <2>4. CASE \E n \in Nursery : /\ curOpen[f] = n /\ group[n].parentParked
                                /\ group[n].parent = f /\ group[n].live >= 1
    <3>1. PICK n \in Nursery : /\ curOpen[f] = n /\ group[n].parentParked
                               /\ group[n].parent = f /\ group[n].live >= 1
      BY <2>4
    <3>2. IsJoin(f, pc[f])
      BY <2>1, <2>2, <3>1 DEF AskInv, AtBrace
    <3>3. group[curOpen[f]].live > 0
      <4>1. group[n].live \in Int
        BY <2>1 DEF QueueInv, LiveInv, Inv, TypeOK, GroupsOK, Group
      <4>. QED
        BY <3>1, <4>1
    <3>. QED
      BY <2>2, <3>2, <3>3 DEF IsJoin, Blocked
  <2>. QED
    BY <2>1, <2>3, <2>4, NobodyWants
<1>. QED
  BY AskInvariant, <1>1, PTL
=============================================================================
