------------------------ MODULE SerialNurseryProofs ------------------------
(***************************************************************************)
(* For any number of tasks, channels and nurseries and for any programs:   *)
(* the channels of the serial runtime are bounded queues, the verdict of a *)
(* scheduler loop is given only on tasks that cannot move, a loop keeps    *)
(* the group it iterates and, while no nursery's body is crossed, a        *)
(* nursery is left after its tasks have ended.                             *)
(***************************************************************************)
EXTENDS SerialNursery, FiniteSetTheorems, TLAPS

-----------------------------------------------------------------------------
(* Types *)

Loop == [g : 1 .. MaxDepth, n : Nat, owner : Task, done : SUBSET Int, at : Int,
         progressed : BOOLEAN]

ProgramOK  == code \in [Task -> Seq(Ops)]
ChannelsOK == buf \in [Channel -> Seq(Task)] /\ closed \in [Channel -> BOOLEAN]
GroupsOK   == depth \in 0 .. MaxDepth /\ groups \in [1 .. MaxDepth -> Seq(Task)]
LoopsOK    == loops \in Seq(Loop)

\* A loop starts a pass at its first task, and forgets what the last one ran.
PassesStartOver ==
  outcome = "running" /\ picking => /\ loops # <<>>
                                    /\ ~Top.progressed => Top.at = 1

LEMMA OpTyped ==
  ASSUME ProgramOK, NEW t \in Task, pc[t] \in DOMAIN code[t]
  PROVE  /\ Op(t).op \in {"send", "recv", "poll", "close"} => Op(t).ch \in Channel
         /\ Op(t).op = "spawn" => Op(t).child \in Task
<1>1. Op(t) \in Ops
  BY DEF ProgramOK, Op
<1>2. \/ Op(t) \in [op : {"send", "recv", "poll", "close"}, ch : Channel]
      \/ Op(t) \in [op : {"open"}, n : Nursery]
      \/ Op(t) \in [op : {"spawn"}, child : Task]
      \/ Op(t) \in [op : {"join", "leave", "builtin", "fail", "exit"}]
  BY <1>1 DEF Ops
<1>. QED
  BY <1>2

LEMMA ChTyped ==
  ASSUME ProgramOK, NEW t \in Task,
         Running(t, "send") \/ Running(t, "recv") \/ Running(t, "poll") \/ Running(t, "close")
  PROVE  Op(t).ch \in Channel
  BY OpTyped DEF Running

LEMMA TopReplaced ==
  ASSUME LoopsOK, loops # <<>>, NEW l \in Loop
  PROVE  /\ Append(Front(loops), l) \in Seq(Loop)
         /\ Append(Front(loops), l) # <<>>
         /\ Last(Append(Front(loops), l)) = l
<1>1. Len(loops) \in Nat /\ Len(loops) > 0
  BY DEF LoopsOK
<1>2. Front(loops) \in Seq(Loop)
  BY <1>1 DEF LoopsOK, Front
<1>. QED
  BY <1>2 DEF Last

LEMMA TopTyped ==
  ASSUME LoopsOK, loops # <<>>
  PROVE  Top \in Loop /\ Head(loops) \in Loop /\ Front(loops) \in Seq(Loop)
<1>1. Len(loops) \in Nat /\ Len(loops) > 0
  BY DEF LoopsOK
<1>. QED
  BY <1>1 DEF LoopsOK, Top, Last, Front

\* What the end of a task's turn does to the loop that ran it.
LEMMA TurnEnds ==
  ASSUME LoopsOK, loops # <<>>,
         NEW d, d \subseteq Int, NEW p \in BOOLEAN, NEW k \in Int,
         SetTop([Top EXCEPT !.done = d, !.at = k, !.progressed = p])
  PROVE  /\ LoopsOK' /\ loops' # <<>>
         /\ Top'.progressed = p /\ Top'.at = k
<1>. DEFINE l == [Top EXCEPT !.done = d, !.at = k, !.progressed = p]
<1>1. Top \in Loop
  BY TopTyped
<1>2. l \in Loop /\ l.progressed = p /\ l.at = k
  BY <1>1 DEF Loop
<1>3. loops' = Append(Front(loops), l)
  BY DEF SetTop
<1>. HIDE DEF l
<1>. QED
  BY <1>2, <1>3, TopReplaced DEF LoopsOK, Top

LEMMA TurnMoves ==
  ASSUME LoopsOK, loops # <<>>, NEW p \in BOOLEAN, NEW k \in Int,
         SetTop([Top EXCEPT !.at = k, !.progressed = p])
  PROVE  /\ LoopsOK' /\ loops' # <<>>
         /\ Top'.progressed = p /\ Top'.at = k
<1>. DEFINE l == [Top EXCEPT !.at = k, !.progressed = p]
<1>1. Top \in Loop
  BY TopTyped
<1>2. l \in Loop /\ l.progressed = p /\ l.at = k
  BY <1>1 DEF Loop
<1>3. loops' = Append(Front(loops), l)
  BY DEF SetTop
<1>. HIDE DEF l
<1>. QED
  BY <1>2, <1>3, TopReplaced DEF LoopsOK, Top

LEMMA TurnResumes ==
  ASSUME LoopsOK, loops # <<>>, NEW k \in Int, SetTop([Top EXCEPT !.at = k])
  PROVE  LoopsOK' /\ loops' # <<>>
<1>. DEFINE l == [Top EXCEPT !.at = k]
<1>1. Top \in Loop
  BY TopTyped
<1>2. l \in Loop
  BY <1>1 DEF Loop
<1>3. loops' = Append(Front(loops), l)
  BY DEF SetTop
<1>. HIDE DEF l
<1>. QED
  BY <1>2, <1>3, TopReplaced DEF LoopsOK

-----------------------------------------------------------------------------
(* Channels *)

\* OP_SEND tests for a full channel with an equality, which is enough only
\* because no channel ever holds more.
WithinCapacity == \A c \in Channel : Len(buf[c]) <= Capacity[c]

QueueStep(c) == Chan(c)!Next \/ UNCHANGED <<buf[c], closed[c]>>

LEMMA PutStep ==
  ASSUME ProgramOK, ChannelsOK, WithinCapacity, NEW t \in Task, SendPuts(t)
  PROVE  /\ \A c \in Channel : QueueStep(c)
         /\ ChannelsOK' /\ WithinCapacity'
<1>. DEFINE ch == Op(t).ch
<1>1. ch \in Channel /\ ~closed[ch] /\ Len(buf[ch]) # Capacity[ch]
  BY ChTyped DEF SendPuts, Full
<1>2. /\ buf \in [Channel -> Seq(Task)] /\ closed' = closed
      /\ buf' = [buf EXCEPT ![ch] = Append(buf[ch], t)]
  BY DEF SendPuts, ChannelsOK
<1>. HIDE DEF ch
<1>3. Capacity[ch] \in Nat /\ Len(buf[ch]) \in Nat /\ buf[ch] \in Seq(Task)
  <2>1. Capacity[ch] \in Nat
    BY <1>1, TaskAssumption DEF TaskAssumption
  <2>2. Len(buf[ch]) \in Nat /\ buf[ch] \in Seq(Task)
    BY <1>1, <1>2
  <2>. QED
    BY <2>1, <2>2
<1>4. Len(buf[ch]) < Capacity[ch]
  BY <1>1, <1>3 DEF WithinCapacity
<1>5. ASSUME NEW c \in Channel PROVE QueueStep(c)
  <2>1. CASE c = ch
    <3>1. Chan(c)!Put(t)
      BY <1>1, <1>2, <1>4, <2>1 DEF Chan!Put
    <3>. QED
      BY <3>1 DEF QueueStep, Chan!Next
  <2>2. CASE c # ch
    BY <1>2, <2>2 DEF QueueStep
  <2>. QED
    BY <2>1, <2>2
<1>6. WithinCapacity'
  <2>1. Len(buf'[ch]) <= Capacity[ch]
    BY <1>1, <1>2, <1>3, <1>4
  <2>. QED
    BY <1>1, <1>2, <2>1 DEF WithinCapacity
<1>7. ChannelsOK'
  BY <1>1, <1>2, <1>3 DEF ChannelsOK
<1>. QED
  BY <1>5, <1>6, <1>7

LEMMA TakeStep ==
  ASSUME ProgramOK, ChannelsOK, WithinCapacity, NEW t \in Task, RecvTakes(t) \/ Poll(t)
  PROVE  /\ \A c \in Channel : QueueStep(c)
         /\ ChannelsOK' /\ WithinCapacity'
<1>. DEFINE ch == Op(t).ch
<1>1. ch \in Channel
  BY ChTyped DEF RecvTakes, Poll
<1>2. /\ buf \in [Channel -> Seq(Task)] /\ closed' = closed
      /\ closed \in [Channel -> BOOLEAN]
      /\ buf' = [buf EXCEPT ![ch] = IF buf[ch] = <<>> THEN buf[ch] ELSE Tail(buf[ch])]
  BY DEF RecvTakes, Poll, Empty, ChannelsOK
<1>. HIDE DEF ch
<1>3. CASE buf[ch] = <<>>
  <2>1. buf' = buf
    BY <1>1, <1>2, <1>3
  <2>2. \A c \in Channel : QueueStep(c)
    BY <1>2, <2>1 DEF QueueStep
  <2>3. WithinCapacity'
    BY <2>1 DEF WithinCapacity
  <2>. QED
    BY <1>2, <2>1, <2>2, <2>3 DEF ChannelsOK
<1>4. CASE buf[ch] # <<>>
  <2>1. buf' = [buf EXCEPT ![ch] = Tail(buf[ch])]
    BY <1>2, <1>4
  <2>2. Capacity[ch] \in Nat
    BY <1>1, TaskAssumption DEF TaskAssumption
  <2>3. Len(buf[ch]) \in Nat /\ buf[ch] \in Seq(Task)
    BY <1>1, <1>2
  <2>4. ASSUME NEW c \in Channel PROVE QueueStep(c)
    <3>1. CASE c = ch
      BY <1>1, <1>2, <1>4, <2>1, <3>1 DEF QueueStep, Chan!Next, Chan!Take
    <3>2. CASE c # ch
      BY <1>2, <2>1, <3>2 DEF QueueStep
    <3>. QED
      BY <3>1, <3>2
  <2>5. Tail(buf[ch]) \in Seq(Task) /\ Len(Tail(buf[ch])) = Len(buf[ch]) - 1
    BY <1>4, <2>3
  <2>6. WithinCapacity'
    <3>1. Len(buf'[ch]) <= Capacity[ch]
      BY <1>1, <1>2, <2>1, <2>2, <2>3, <2>5 DEF WithinCapacity
    <3>. QED
      BY <1>1, <1>2, <2>1, <3>1 DEF WithinCapacity
  <2>. QED
    BY <1>1, <1>2, <2>1, <2>4, <2>5, <2>6 DEF ChannelsOK
<1>. QED
  BY <1>3, <1>4

LEMMA CloseStep ==
  ASSUME ProgramOK, ChannelsOK, WithinCapacity, NEW t \in Task, Close(t)
  PROVE  /\ \A c \in Channel : QueueStep(c)
         /\ ChannelsOK' /\ WithinCapacity'
<1>. DEFINE ch == Op(t).ch
<1>1. ch \in Channel /\ buf' = buf /\ closed' = [closed EXCEPT ![ch] = TRUE]
  BY ChTyped DEF Close
<1>. HIDE DEF ch
<1>2. ASSUME NEW c \in Channel PROVE QueueStep(c)
  <2>1. CASE c = ch
    BY <1>1, <2>1 DEF QueueStep, Chan!Next, Chan!Close, ChannelsOK
  <2>2. CASE c # ch
    BY <1>1, <2>2 DEF QueueStep, ChannelsOK
  <2>. QED
    BY <2>1, <2>2
<1>. QED
  BY <1>1, <1>2, SMTT(30) DEF WithinCapacity, ChannelsOK

LEMMA ChannelSteps ==
  ASSUME ProgramOK, ChannelsOK, WithinCapacity, [Next]_vars
  PROVE  /\ \A c \in Channel : QueueStep(c)
         /\ ChannelsOK' /\ WithinCapacity'
<1>1. CASE UNCHANGED channels
  BY <1>1, SMTT(30) DEF QueueStep, ChannelsOK, WithinCapacity, channels
<1>2. ASSUME NEW t \in Task, Step(t)
      PROVE  UNCHANGED channels \/ SendPuts(t) \/ RecvTakes(t) \/ Poll(t) \/ Close(t)
  BY <1>2 DEF Step, SendClosed, SendBlocks, RecvBlocks, Open, Spawn, Join, Leave, Return,
     Fail, Exit, CallBuiltin, Fails, Yields
<1>3. ASSUME Schedule PROVE UNCHANGED channels
  BY <1>3 DEF Schedule, Resume, NextPass, Deadlock, EndNursery, Fails
<1>4. ASSUME UNCHANGED vars PROVE UNCHANGED channels
  BY <1>4 DEF vars
<1>. QED
  BY <1>1, <1>2, <1>3, <1>4, PutStep, TakeStep, CloseStep DEF Next, Over

LEMMA CodeFixed == ASSUME [Next]_vars PROVE code' = code
<1>1. ASSUME NEW t \in Task, Step(t) PROVE code' = code
  BY <1>1 DEF Step, SendClosed, SendBlocks, SendPuts, RecvBlocks, RecvTakes, Poll, Close,
     Open, Spawn, Join, Leave, Return, Fail, Exit, CallBuiltin
<1>2. ASSUME Schedule PROVE code' = code
  BY <1>2 DEF Schedule, Resume, NextPass, Deadlock, EndNursery
<1>. QED
  BY <1>1, <1>2 DEF Next, Over, vars

LEMMA ProgramStep == ASSUME ProgramOK, [Next]_vars PROVE ProgramOK'
  BY CodeFixed DEF ProgramOK

\* Each channel implements the bounded queue of BoundedChannel, for every
\* capacity and every program (OP_SEND, OP_RECV, OP_TRY_RECV and OP_CLOSE of
\* the serial build): no value is lost, duplicated or overtaken.
THEOREM ChannelsImplementQueues == Spec => ChannelsAreQueues
<1>1. Init => /\ \A c \in Channel : Chan(c)!Init
              /\ ProgramOK /\ ChannelsOK /\ WithinCapacity
  <2>. SUFFICES ASSUME Init
       PROVE  /\ \A c \in Channel : Chan(c)!Init
              /\ ProgramOK /\ ChannelsOK /\ WithinCapacity
    OBVIOUS
  <2>1. \A c \in Channel : buf[c] = <<>> /\ closed[c] = FALSE
    BY DEF Init
  <2>2. \A c \in Channel : Chan(c)!Init
    BY <2>1 DEF Chan!Init
  <2>3. WithinCapacity
    <3>1. \A c \in Channel : Len(buf[c]) = 0 /\ Capacity[c] \in Nat \ {0}
      BY <2>1, TaskAssumption DEF TaskAssumption
    <3>. QED
      BY <3>1 DEF WithinCapacity
  <2>4. ProgramOK /\ ChannelsOK
    BY ProgramAssumption DEF Init, ProgramAssumption, ProgramOK, ChannelsOK
  <2>. QED
    BY <2>2, <2>3, <2>4
<1>2. ProgramOK /\ ChannelsOK /\ WithinCapacity /\ [Next]_vars
        => /\ [\A c \in Channel : QueueStep(c)]_vars
           /\ (ProgramOK /\ ChannelsOK /\ WithinCapacity)'
  BY ChannelSteps, ProgramStep
<1>. QED
  BY <1>1, <1>2, PTL DEF Spec, ChannelsAreQueues, QueueStep

-----------------------------------------------------------------------------
(* The verdict *)

LEMMA GroupTyped ==
  ASSUME GroupsOK, depth > 0
  PROVE  depth \in 1 .. MaxDepth /\ groups[depth] \in Seq(Task)
BY TaskAssumption DEF GroupsOK, TaskAssumption

LEMMA FailTyped ==
  ASSUME GroupsOK, LoopsOK, NEW how, Fails(how)
  PROVE  GroupsOK' /\ LoopsOK'
<1>1. CASE loops = <<>>
  BY <1>1 DEF Fails, GroupsOK, LoopsOK
<1>2. CASE loops # <<>>
  <2>1. Head(loops).g \in 1 .. MaxDepth
    BY <1>2, TopTyped DEF Loop
  <2>. QED
    BY <1>2, <2>1, TaskAssumption DEF Fails, GroupsOK, LoopsOK, TaskAssumption
<1>. QED
  BY <1>1, <1>2

LEMMA EndTyped ==
  ASSUME GroupsOK, LoopsOK, NEW t \in Task, Ends(t) \/ Yields(t)
  PROVE  /\ GroupsOK' /\ LoopsOK'
         /\ loops = <<>> => loops' = <<>> /\ outcome' # "running"
         /\ loops # <<>> => /\ outcome' = outcome
                            /\ loops' # <<>> /\ Top'.progressed = TRUE
<1>1. GroupsOK'
  BY DEF Ends, Yields, GroupsOK
<1>2. CASE loops = <<>>
  <2>1. loops' = <<>>
    BY <1>2 DEF Ends, Yields
  <2>2. outcome' # "running"
    BY <1>2 DEF Ends, Yields
  <2>. QED
    BY <1>1, <1>2, <2>1, <2>2 DEF LoopsOK
<1>3. CASE loops # <<>>
  <2>1. Top \in Loop
    BY <1>3, TopTyped
  <2>2. Top.done \union {Top.at} \subseteq Int /\ Top.at + 1 \in Int
    BY <2>1 DEF Loop
  <2>3. outcome' = outcome
    BY <1>3 DEF Ends, Yields
  <2>4. \/ SetTop([Top EXCEPT !.done = Top.done \union {Top.at}, !.at = Top.at + 1,
                              !.progressed = TRUE])
        \/ SetTop([Top EXCEPT !.at = Top.at + 1, !.progressed = TRUE])
    BY <1>3 DEF Ends, Yields, Ran
  <2>5. LoopsOK' /\ loops' # <<>> /\ Top'.progressed = TRUE
    <3>1. CASE SetTop([Top EXCEPT !.done = Top.done \union {Top.at}, !.at = Top.at + 1,
                                  !.progressed = TRUE])
      BY <1>3, <2>2, <3>1, TurnEnds
    <3>2. CASE SetTop([Top EXCEPT !.at = Top.at + 1, !.progressed = TRUE])
      BY <1>3, <2>2, <3>2, TurnMoves
    <3>. QED
      BY <2>4, <3>1, <3>2
  <2>. QED
    BY <1>1, <1>3, <2>3, <2>5
<1>. QED
  BY <1>2, <1>3

\* A step of a task keeps the groups and the loops well formed; it hands over
\* to a loop that has run something, or to one that is new.
LEMMA TaskStep ==
  ASSUME ProgramOK, GroupsOK, LoopsOK, PassesStartOver, NEW t \in Task, Step(t)
  PROVE  /\ GroupsOK' /\ LoopsOK' /\ PassesStartOver'
         /\ outcome' = "deadlock" => loops' = <<>>
<1>1. outcome = "running" /\ ~picking
  BY DEF Step, SendClosed, SendBlocks, SendPuts, RecvBlocks, RecvTakes, Poll, Close, Open,
     Spawn, Join, Leave, Return, Fail, Exit, CallBuiltin, Running
<1>2. CASE UNCHANGED <<sched, outcome>>
  BY <1>1, <1>2 DEF sched, GroupsOK, LoopsOK, PassesStartOver
<1>3. CASE Fails("error")
  <2>1. outcome' = "error"
    BY <1>3 DEF Fails
  <2>. QED
    BY <1>3, <2>1, FailTyped DEF PassesStartOver
<1>4. CASE Yields(t)
  BY <1>1, <1>4, EndTyped DEF PassesStartOver
<1>5. CASE Ends(t)
  <2>1. loops = <<>> => outcome' # "deadlock"
    BY <1>5 DEF Ends
  <2>. QED
    BY <1>1, <1>5, <2>1, EndTyped DEF PassesStartOver
<1>6. CASE Open(t) /\ ~Fails("error")
  <2>1. /\ depth < MaxDepth /\ depth' = depth + 1
        /\ groups' = [groups EXCEPT ![depth + 1] = <<>>]
        /\ UNCHANGED <<loops, picking, outcome>>
    BY <1>6, TaskAssumption DEF Open, TaskAssumption, GroupsOK
  <2>. QED
    BY <1>1, <2>1, TaskAssumption DEF TaskAssumption, GroupsOK, LoopsOK, PassesStartOver
<1>7. CASE Spawn(t) /\ ~Fails("error")
  <2>1. /\ ~(depth < 1)
        /\ groups' = [groups EXCEPT ![depth] = Append(groups[depth], Op(t).child)]
        /\ UNCHANGED <<depth, loops, picking, outcome>>
    BY <1>7 DEF Spawn, TooMany
  <2>2. Op(t).child \in Task
    BY <1>7, OpTyped DEF Spawn, Running
  <2>3. groups[depth] \in Seq(Task)
    BY <2>1, GroupTyped DEF GroupsOK
  <2>4. GroupsOK'
    BY <2>1, <2>2, <2>3 DEF GroupsOK
  <2>. QED
    BY <1>1, <2>1, <2>4 DEF LoopsOK, PassesStartOver
<1>8. CASE Join(t)
  <2>. DEFINE l == [g |-> depth, n |-> Len(groups[depth]), owner |-> t,
                    done |-> {}, at |-> 1, progressed |-> FALSE]
  <2>1. /\ loops' = Append(loops, l) /\ depth > 0
        /\ UNCHANGED <<depth, groups, outcome>>
    BY <1>8 DEF Join, Kept
  <2>2. l \in Loop /\ l.at = 1
    BY <2>1, GroupTyped DEF Loop
  <2>. HIDE DEF l
  <2>3. loops' \in Seq(Loop) /\ loops' # <<>> /\ Last(loops') = l
    BY <2>1, <2>2 DEF LoopsOK, Last
  <2>. QED
    BY <1>1, <2>1, <2>2, <2>3 DEF GroupsOK, LoopsOK, PassesStartOver, Top
<1>9. \/ UNCHANGED <<sched, outcome>> \/ Fails("error") \/ Yields(t) \/ Ends(t)
      \/ Open(t) \/ Spawn(t) \/ Join(t)
  BY DEF Step, SendClosed, SendBlocks, SendPuts, RecvBlocks, RecvTakes, Poll, Close,
     Leave, Return, Fail, Exit, CallBuiltin, sched
<1>. QED
  BY <1>2, <1>3, <1>4, <1>5, <1>6, <1>7, <1>8, <1>9

\* A verdict comes after a whole pass that ran nothing.
LEMMA VerdictStep ==
  ASSUME LoopsOK, PassesStartOver, Deadlock
  PROVE  DeadlockIsReal'
<1>1. /\ loops # <<>> /\ Upcoming(Top) = {} /\ Top.at = 1
      /\ UNCHANGED <<loops, groups, blocked, code, pc, buf, closed>>
  BY DEF Deadlock, EndOfPass, InLoop, PassesStartOver, Fails, channels
<1>2. Top \in Loop /\ Top.n \in Nat
  BY <1>1, TopTyped DEF Loop
<1>3. ASSUME NEW i \in Remaining(Top) PROVE Stuck(TaskAt(Top, i))
  <2>. DEFINE t == TaskAt(Top, i)
  <2>1. i \in 1 .. Top.n /\ i \notin Top.done /\ i >= Top.at
    BY <1>1, <1>2, <1>3 DEF Remaining
  <2>2. i \notin Runnable(Top)
    BY <1>1, <2>1 DEF Upcoming
  <2>3. t \in blocked /\ ~Ready(t)
    BY <2>1, <2>2 DEF Runnable
  <2>. HIDE DEF t
  <2>4. Stuck(t)
    BY <2>3 DEF Ready, Stuck, Full, Empty
  <2>. QED
    BY <2>4 DEF t
<1>4. \A i \in Remaining(Top)' : Stuck(TaskAt(Top, i))'
  BY <1>1, <1>3 DEF Top, Remaining, Stuck, TaskAt, Op, Empty
<1>. QED
  BY <1>4 DEF DeadlockIsReal

LEMMA LoopStep ==
  ASSUME GroupsOK, LoopsOK, PassesStartOver, Schedule
  PROVE  /\ GroupsOK' /\ LoopsOK' /\ PassesStartOver'
         /\ outcome' = "deadlock" => Deadlock
<1>1. loops # <<>> /\ Top \in Loop /\ outcome = "running"
  BY TopTyped DEF Schedule, Resume, NextPass, Deadlock, EndNursery, EndOfPass, InLoop,
     PassesStartOver
<1>2. CASE Resume
  <2>1. PICK i \in Upcoming(Top) : SetTop([Top EXCEPT !.at = i])
    BY <1>2 DEF Resume
  <2>2. i \in Int
    BY <1>1, <2>1 DEF Upcoming, Runnable, Loop
  <2>3. LoopsOK'
    BY <1>1, <2>1, <2>2, TurnResumes
  <2>. QED
    BY <1>1, <1>2, <2>3 DEF Resume, GroupsOK, PassesStartOver
<1>3. CASE NextPass
  <2>0. \E p \in BOOLEAN : p = ProgressReset(Top)
    BY DEF ProgressReset
  <2>1. PICK p \in BOOLEAN, k \in Int : p = ProgressReset(Top) /\ k = 1
    BY <2>0
  <2>2. SetTop([Top EXCEPT !.at = k, !.progressed = p])
    BY <1>3, <2>1 DEF NextPass
  <2>3. LoopsOK' /\ loops' # <<>> /\ Top'.at = 1
    <3>1. Top'.at = k /\ LoopsOK' /\ loops' # <<>>
      BY <1>1, <2>2, TurnMoves
    <3>. QED
      BY <2>1, <3>1
  <2>. QED
    BY <1>1, <1>3, <2>3 DEF NextPass, GroupsOK, PassesStartOver
<1>4. CASE Deadlock
  <2>1. outcome' = "deadlock" /\ GroupsOK' /\ LoopsOK'
    BY <1>4, FailTyped DEF Deadlock, Fails
  <2>. QED
    BY <1>4, <2>1 DEF PassesStartOver
<1>5. CASE EndNursery
  <2>1. loops' = Front(loops) /\ depth' = Top.g - 1 /\ ~picking'
        /\ UNCHANGED <<groups, outcome>>
    BY <1>5 DEF EndNursery
  <2>2. Top.g \in 1 .. MaxDepth /\ Front(loops) \in Seq(Loop)
    BY <1>1, TopTyped DEF Loop
  <2>. QED
    BY <1>1, <2>1, <2>2, TaskAssumption DEF TaskAssumption, GroupsOK, LoopsOK, PassesStartOver
<1>. QED
  BY <1>2, <1>3, <1>4, <1>5 DEF Schedule

VerdictInv == ProgramOK /\ GroupsOK /\ LoopsOK /\ PassesStartOver /\ DeadlockIsReal

LEMMA VerdictInvStep ==
  ASSUME VerdictInv, [Next]_vars
  PROVE  VerdictInv'
<1>1. ProgramOK'
  BY ProgramStep DEF VerdictInv
<1>2. ASSUME NEW t \in Task, Step(t) PROVE VerdictInv'
  BY <1>1, <1>2, TaskStep DEF VerdictInv, DeadlockIsReal
<1>3. ASSUME Schedule PROVE VerdictInv'
  <2>1. GroupsOK' /\ LoopsOK' /\ PassesStartOver' /\ (outcome' = "deadlock" => Deadlock)
    BY <1>3, LoopStep DEF VerdictInv
  <2>2. DeadlockIsReal'
    BY <2>1, VerdictStep DEF VerdictInv, DeadlockIsReal
  <2>. QED
    BY <1>1, <2>1, <2>2 DEF VerdictInv
<1>4. ASSUME UNCHANGED vars PROVE VerdictInv'
  <2>1. UNCHANGED <<code, pc, blocked, depth, groups, loops, picking, buf, closed, outcome>>
    BY <1>4 DEF vars, sched, channels
  <2>2. GroupsOK' /\ LoopsOK' /\ PassesStartOver'
    BY <2>1 DEF VerdictInv, GroupsOK, LoopsOK, PassesStartOver, Top
  <2>3. Remaining(Top)' = Remaining(Top)
    BY <2>1 DEF Remaining, Top
  <2>4. \A i : Stuck(TaskAt(Top, i))' <=> Stuck(TaskAt(Top, i))
    BY <2>1 DEF Stuck, TaskAt, Op, Empty, Top
  <2>5. DeadlockIsReal'
    BY <2>1, <2>3, <2>4 DEF VerdictInv, DeadlockIsReal
  <2>. QED
    BY <1>1, <2>2, <2>5 DEF VerdictInv
<1>. QED
  BY <1>2, <1>3, <1>4 DEF Next, Over

LEMMA VerdictInvInit == ASSUME Init PROVE VerdictInv
<1>1. ProgramOK
  BY ProgramAssumption DEF Init, ProgramAssumption, ProgramOK
<1>2. GroupsOK /\ LoopsOK
  BY TaskAssumption DEF Init, TaskAssumption, GroupsOK, LoopsOK
<1>. QED
  BY <1>1, <1>2 DEF Init, VerdictInv, PassesStartOver, DeadlockIsReal

\* A loop that gives up has gone over all its tasks in one pass and run none:
\* every one of them is suspended on an operation that is still impossible
\* (OP_NURSERY_END, vm.c:4241), for any programs and any number of tasks.
THEOREM VerdictsAreReal == Spec => []DeadlockIsReal
<1>1. Init => VerdictInv
  BY VerdictInvInit
<1>2. VerdictInv => DeadlockIsReal
  BY DEF VerdictInv
<1>. QED
  BY <1>1, <1>2, VerdictInvStep, PTL DEF Spec
-----------------------------------------------------------------------------
(* The groups *)

\* The task at a depth of the C stack: the main fiber, or the one a loop runs.
Runner(k) == IF k = 0 THEN Main ELSE TaskAt(loops[k], loops[k].at)

\* The levels between a loop's own and the next loop's are those of the nurseries
\* that its tasks have open.
Low(k)  == IF k = 0 THEN 0 ELSE loops[k].g
High(k) == IF k = Len(loops) THEN depth ELSE loops[k + 1].g

\* The tasks a loop may still run, and the nurseries they have open.
Crew(k) == IF k = 0 THEN {Main} ELSE {TaskAt(loops[k], i) : i \in Remaining(loops[k])}
Pairs(C, o) == UNION {{t} \X (1 .. Len(o[t])) : t \in C}
Brackets(k) == Pairs(Crew(k), opened)

\* S has a level of its own for each member, above lo and up to hi.
Fit(S, lo, hi) == \E f \in [S -> (lo + 1) .. hi] : \A b, c \in S : f[b] = f[c] => b = c

\* A task has been spawned when a spawn of it has been executed.
Spawned(t) ==
  \E u \in Task : \E i \in DOMAIN code[u] :
    i < pc[u] /\ code[u][i].op = "spawn" /\ code[u][i].child = t

Joining(t) == pc[t] \in DOMAIN code[t] /\ Op(t).op = "join"

TasksTyped == pc \in [Task -> Nat \ {0}] /\ opened \in [Task -> Seq(Nursery)]

\* Each loop was started by the task the loop around it runs, on a level of its own.
Stacked ==
  /\ \A i, j \in 1 .. Len(loops) : i < j => loops[i].g < loops[j].g
  /\ \A k \in 1 .. Len(loops) : /\ loops[k].g <= depth
                                /\ loops[k].n <= Len(groups[loops[k].g])
                                /\ loops[k].owner = Runner(k - 1) /\ Joining(loops[k].owner)
                                /\ k < Len(loops) \/ ~picking => loops[k].at \in Remaining(loops[k])
  /\ ~picking => current = Runner(Len(loops))

\* A task is in one group, because one spawn put it there.
OneGroup ==
  \A d, e \in 1 .. depth : \A i \in 1 .. Len(groups[d]), j \in 1 .. Len(groups[e]) :
    groups[d][i] = groups[e][j] => d = e /\ i = j
GroupsSpawned == \A d \in 1 .. depth : \A i \in 1 .. Len(groups[d]) : Spawned(groups[d][i])

\* A task that no loop has run has no nursery open.
Fresh ==
  /\ \A t \in Task : t # Main /\ ~Spawned(t) => opened[t] = <<>>
  /\ \A d \in 1 .. depth : (\A k \in 1 .. Len(loops) : loops[k].g # d) =>
       \A i \in 1 .. Len(groups[d]) : opened[groups[d][i]] = <<>>

\* What a task has open is what its script has opened and not left.
Counted == \A t \in Task : /\ pc[t] <= Len(code[t]) + 1
                           /\ Len(opened[t]) + Closes(code[t], pc[t]) = Opens(code[t], pc[t])

\* The levels suffice for what the tasks of a loop have open.
Roomy == \A k \in 0 .. Len(loops) : Fit(Brackets(k), Low(k), High(k))

GroupsHold == /\ TasksTyped /\ Stacked /\ OneGroup /\ GroupsSpawned /\ Fresh /\ Counted
              /\ Roomy
GroupInv == outcome = "running" => GroupsHold

LEMMA FitNone == ASSUME NEW lo \in Int, NEW hi \in Int PROVE Fit({}, lo, hi)
<1>1. PICK f : f = [b \in {} |-> lo]
  OBVIOUS
<1>2. f \in [{} -> (lo + 1) .. hi]
  BY <1>1
<1>. QED
  BY <1>2 DEF Fit

LEMMA FitFewer ==
  ASSUME NEW lo \in Int, NEW hi \in Int, NEW S, NEW R \in SUBSET S, Fit(S, lo, hi)
  PROVE  Fit(R, lo, hi)
<1>1. PICK f \in [S -> (lo + 1) .. hi] : \A b, c \in S : f[b] = f[c] => b = c
  BY DEF Fit
<1>2. PICK g : g = [b \in R |-> f[b]]
  OBVIOUS
<1>3. g \in [R -> (lo + 1) .. hi] /\ \A b, c \in R : g[b] = g[c] => b = c
  BY <1>1, <1>2
<1>. QED
  BY <1>3 DEF Fit

LEMMA FitOneMore ==
  ASSUME NEW lo \in Int, NEW hi \in Int, lo <= hi, NEW S, NEW x, Fit(S, lo, hi)
  PROVE  Fit(S \union {x}, lo, hi + 1)
<1>1. PICK f \in [S -> (lo + 1) .. hi] : \A b, c \in S : f[b] = f[c] => b = c
  BY DEF Fit
<1>2. PICK n \in Int : n = hi + 1
  OBVIOUS
<1>3. PICK g : g = [b \in S \union {x} |-> IF b \in S THEN f[b] ELSE n]
  OBVIOUS
<1>4. \A b \in S : f[b] \in Int /\ f[b] >= lo + 1 /\ f[b] # n /\ f[b] <= n
  BY <1>1, <1>2
<1>5. \A b \in S \union {x} : g[b] \in (lo + 1) .. n
  BY <1>2, <1>3, <1>4
<1>6. g \in [S \union {x} -> (lo + 1) .. n]
  BY <1>3, <1>5
<1>7. \A b, c \in S \union {x} : g[b] = g[c] => b = c
  BY <1>1, <1>3, <1>4
<1>. QED
  BY <1>2, <1>6, <1>7 DEF Fit

\* What had the highest level takes that of the one that goes.
LEMMA FitOneLess ==
  ASSUME NEW lo \in Int, NEW hi \in Int, NEW S, NEW x \in S, Fit(S, lo, hi)
  PROVE  Fit(S \ {x}, lo, hi - 1)
<1>1. PICK f \in [S -> (lo + 1) .. hi] : \A b, c \in S : f[b] = f[c] => b = c
  BY DEF Fit
<1>2. PICK n \in Int : n = hi - 1
  OBVIOUS
<1>3. PICK g : g = [b \in S \ {x} |-> IF f[b] = hi THEN f[x] ELSE f[b]]
  OBVIOUS
<1>4. \A b \in S : f[b] \in Int /\ f[b] >= lo + 1 /\ (f[b] # hi => f[b] <= n)
  BY <1>1, <1>2
<1>5. \A b \in S \ {x} : f[b] = hi => f[x] # hi
  BY <1>1
<1>6. \A b \in S \ {x} : g[b] \in (lo + 1) .. n
  BY <1>2, <1>3, <1>4, <1>5
<1>7. g \in [S \ {x} -> (lo + 1) .. n]
  BY <1>3, <1>6
<1>8. \A b, c \in S \ {x} : g[b] = g[c] => b = c
  BY <1>1, <1>3
<1>. QED
  BY <1>2, <1>7, <1>8 DEF Fit

LEMMA FitSome ==
  ASSUME NEW lo \in Int, NEW hi \in Int, NEW S, NEW x \in S, Fit(S, lo, hi)
  PROVE  lo < hi
<1>1. PICK f \in [S -> (lo + 1) .. hi] : TRUE
  BY DEF Fit
<1>2. f[x] \in (lo + 1) .. hi
  BY <1>1
<1>. QED
  BY <1>2

LEMMA InPairs ==
  ASSUME NEW C, NEW o, NEW x
  PROVE  x \in Pairs(C, o) <=> \E t \in C : \E i \in 1 .. Len(o[t]) : x = <<t, i>>
  BY DEF Pairs

LEMMA PairsNone == ASSUME NEW C, NEW o, \A t \in C : o[t] = <<>> PROVE Pairs(C, o) = {}
  BY InPairs

LEMMA PairsSame ==
  ASSUME NEW C, NEW o, NEW q, \A t \in C : q[t] = o[t]
  PROVE  Pairs(C, q) = Pairs(C, o)
<1>1. \A x : x \in Pairs(C, q) <=> x \in Pairs(C, o)
  BY InPairs
<1>. QED
  BY <1>1

LEMMA PairsFewer ==
  ASSUME NEW D, NEW C \in SUBSET D, NEW o
  PROVE  Pairs(C, o) \subseteq Pairs(D, o)
  BY InPairs

LEMMA PairsOneMore ==
  ASSUME NEW C, NEW o, NEW q, NEW t \in C, o[t] \in Seq(Nursery), NEW n \in Nursery, q[t] = Append(o[t], n),
         \A u \in C : u # t => q[u] = o[u]
  PROVE  Pairs(C, q) = Pairs(C, o) \union {<<t, Len(o[t]) + 1>>}
<1>1. Len(q[t]) = Len(o[t]) + 1 /\ Len(o[t]) \in Nat
  OBVIOUS
<1>2. 1 .. Len(q[t]) = (1 .. Len(o[t])) \union {Len(o[t]) + 1}
  BY <1>1
<1>3. \A x : x \in Pairs(C, q) <=> x \in Pairs(C, o) \union {<<t, Len(o[t]) + 1>>}
  BY <1>2, InPairs
<1>. QED
  BY <1>3

LEMMA PairsOneLess ==
  ASSUME NEW C, NEW o, NEW q, NEW t \in C, o[t] \in Seq(Nursery), o[t] # <<>>, q[t] = Front(o[t]),
         \A u \in C : u # t => q[u] = o[u]
  PROVE  Pairs(C, q) = Pairs(C, o) \ {<<t, Len(o[t])>>}
<1>1. Len(q[t]) = Len(o[t]) - 1 /\ Len(o[t]) \in Nat /\ Len(o[t]) > 0
  BY DEF Front
<1>2. 1 .. Len(q[t]) = (1 .. Len(o[t])) \ {Len(o[t])} /\ Len(o[t]) \in 1 .. Len(o[t])
  BY <1>1
<1>3. \A x : x \in Pairs(C, q) <=> x \in Pairs(C, o) \ {<<t, Len(o[t])>>}
  BY <1>2, InPairs
<1>. QED
  BY <1>3

LEMMA BracketStep ==
  ASSUME NEW s \in Seq(Ops), NEW i \in Nat \ {0}
  PROVE  /\ Opens(s, i) \in Nat /\ Closes(s, i) \in Nat
         /\ Opens(s, i + 1) = Opens(s, i) + (IF s[i].op = "open" THEN 1 ELSE 0)
         /\ Closes(s, i + 1) = Closes(s, i) + (IF s[i].op \in {"join", "leave"} THEN 1 ELSE 0)
<1>. DEFINE O(k) == {j \in 1 .. (k - 1) : s[j].op = "open"}
            C(k) == {j \in 1 .. (k - 1) : s[j].op \in {"join", "leave"}}
<1>1. IsFiniteSet(1 .. (i - 1))
  BY FS_Interval
<1>2. IsFiniteSet(O(i)) /\ IsFiniteSet(C(i))
  BY <1>1, FS_Subset
<1>3. Cardinality(O(i)) \in Nat /\ Cardinality(C(i)) \in Nat
  BY <1>2, FS_CardinalityType
<1>4. O(i + 1) = IF s[i].op = "open" THEN O(i) \union {i} ELSE O(i)
  OBVIOUS
<1>5. C(i + 1) = IF s[i].op \in {"join", "leave"} THEN C(i) \union {i} ELSE C(i)
  OBVIOUS
<1>6. i \notin O(i) /\ i \notin C(i)
  OBVIOUS
<1>. HIDE DEF O, C
<1>7. Cardinality(O(i) \union {i}) = Cardinality(O(i)) + 1
  BY <1>2, <1>6, FS_AddElement
<1>8. Cardinality(C(i) \union {i}) = Cardinality(C(i)) + 1
  BY <1>2, <1>6, FS_AddElement
<1>9. Cardinality(O(i + 1)) = Cardinality(O(i)) + (IF s[i].op = "open" THEN 1 ELSE 0)
  <2>1. CASE s[i].op = "open"
    BY <1>4, <1>7, <2>1
  <2>2. CASE s[i].op # "open"
    BY <1>3, <1>4, <2>2
  <2>. QED
    BY <2>1, <2>2
<1>10. Cardinality(C(i + 1)) = Cardinality(C(i)) + (IF s[i].op \in {"join", "leave"} THEN 1 ELSE 0)
  <2>1. CASE s[i].op \in {"join", "leave"}
    BY <1>5, <1>8, <2>1
  <2>2. CASE s[i].op \notin {"join", "leave"}
    BY <1>3, <1>5, <2>2
  <2>. QED
    BY <2>1, <2>2
<1>. QED
  BY <1>3, <1>9, <1>10 DEF Opens, Closes, O, C

LEMMA CodeTyped ==
  ASSUME ProgramOK, NEW t \in Task
  PROVE  code[t] \in Seq(Ops) /\ Len(code[t]) \in Nat /\ DOMAIN code[t] = 1 .. Len(code[t])
  BY DEF ProgramOK

LEMMA LoopTyped ==
  ASSUME GroupsOK, LoopsOK, Stacked, NEW k \in 1 .. Len(loops)
  PROVE  /\ loops[k] \in Loop /\ loops[k].g \in 1 .. depth /\ loops[k].g \in 1 .. MaxDepth
         /\ groups[loops[k].g] \in Seq(Task) /\ Len(groups[loops[k].g]) \in Nat
         /\ \A i \in Remaining(loops[k]) : /\ i \in 1 .. Len(groups[loops[k].g])
                                           /\ TaskAt(loops[k], i) \in Task
<1>1. loops[k] \in Loop
  BY DEF LoopsOK
<1>2. /\ loops[k].g \in 1 .. MaxDepth /\ loops[k].n \in Nat /\ loops[k].g <= depth
      /\ loops[k].n <= Len(groups[loops[k].g])
  BY <1>1 DEF Loop, Stacked
<1>3. groups[loops[k].g] \in Seq(Task)
  BY <1>2 DEF GroupsOK
<1>4. Len(groups[loops[k].g]) \in Nat
  BY <1>3
<1>5. ASSUME NEW i \in Remaining(loops[k])
      PROVE  i \in 1 .. Len(groups[loops[k].g]) /\ TaskAt(loops[k], i) \in Task
  <2>1. i \in 1 .. loops[k].n
    BY <1>5 DEF Remaining
  <2>2. i \in 1 .. Len(groups[loops[k].g])
    BY <1>2, <1>4, <2>1
  <2>. QED
    BY <1>3, <2>2 DEF TaskAt
<1>6. loops[k].g \in 1 .. depth
  BY <1>2, TaskAssumption DEF GroupsOK
<1>. QED
  BY <1>1, <1>2, <1>3, <1>4, <1>5, <1>6

LEMMA MemberTyped ==
  ASSUME GroupsOK, NEW d \in 1 .. depth
  PROVE  /\ d \in 1 .. MaxDepth /\ groups[d] \in Seq(Task) /\ Len(groups[d]) \in Nat
         /\ \A i \in 1 .. Len(groups[d]) : groups[d][i] \in Task
<1>1. d \in 1 .. MaxDepth
  BY TaskAssumption DEF GroupsOK
<1>2. groups[d] \in Seq(Task)
  BY <1>1 DEF GroupsOK
<1>. QED
  BY <1>1, <1>2

LEMMA NumbersTyped ==
  ASSUME GroupsOK, LoopsOK, Stacked
  PROVE  /\ Len(loops) \in Nat /\ depth \in Nat
         /\ \A k \in 0 .. Len(loops) : Low(k) \in Int /\ High(k) \in Int
<1>1. Len(loops) \in Nat /\ depth \in Nat
  BY TaskAssumption DEF LoopsOK, GroupsOK
<1>2. ASSUME NEW k \in 0 .. Len(loops) PROVE Low(k) \in Int
  <2>1. CASE k = 0
    BY <2>1 DEF Low
  <2>2. CASE k # 0
    <3>1. k \in 1 .. Len(loops)
      BY <1>1, <1>2, <2>2
    <3>. QED
      BY <2>2, <3>1, LoopTyped DEF Low
  <2>. QED
    BY <2>1, <2>2
<1>3. ASSUME NEW k \in 0 .. Len(loops) PROVE High(k) \in Int
  <2>1. CASE k = Len(loops)
    BY <1>1, <2>1 DEF High
  <2>2. CASE k # Len(loops)
    <3>1. k + 1 \in 1 .. Len(loops)
      BY <1>1, <1>3, <2>2
    <3>2. loops[k + 1].g \in 1 .. depth
      BY <3>1, LoopTyped
    <3>. QED
      BY <2>2, <3>2 DEF High
  <2>. QED
    BY <2>1, <2>2
<1>. QED
  BY <1>1, <1>2, <1>3

LEMMA CrewTyped ==
  ASSUME GroupsOK, LoopsOK, Stacked, NEW k \in 0 .. Len(loops)
  PROVE  Crew(k) \subseteq Task
<1>1. CASE k = 0
  BY <1>1, TaskAssumption DEF TaskAssumption, Crew
<1>2. CASE k # 0
  <2>1. k \in 1 .. Len(loops)
    BY <1>2, NumbersTyped
  <2>. QED
    BY <1>2, <2>1, LoopTyped DEF Crew
<1>. QED
  BY <1>1, <1>2

LEMMA RunnerInCrew ==
  ASSUME GroupsOK, LoopsOK, Stacked, NEW k \in 0 .. Len(loops), k < Len(loops) \/ ~picking
  PROVE  Runner(k) \in Crew(k)
<1>1. CASE k = 0
  BY <1>1 DEF Runner, Crew
<1>2. CASE k # 0
  <2>1. k \in 1 .. Len(loops)
    BY <1>2, NumbersTyped
  <2>2. loops[k].at \in Remaining(loops[k])
    BY <2>1 DEF Stacked
  <2>. QED
    BY <1>2, <2>2 DEF Runner, Crew
<1>. QED
  BY <1>1, <1>2

\* The main fiber is in no group.
LEMMA MainNotSpawned == ASSUME code \in Programs, NEW t \in Task, Spawned(t) PROVE t # Main
  BY ProgramAssumption DEF Spawned

\* A task that is in a group is in none of the other crews.
LEMMA OneCrew ==
  ASSUME code \in Programs, GroupsOK, LoopsOK, Stacked, OneGroup, GroupsSpawned,
         NEW d \in 1 .. depth, NEW i \in 1 .. Len(groups[d]), groups[d][i] \in Task,
         NEW k \in 0 .. Len(loops), k # 0 => loops[k].g # d
  PROVE  groups[d][i] \notin Crew(k)
<1>1. CASE k = 0
  BY <1>1, MainNotSpawned DEF GroupsSpawned, Crew
<1>2. CASE k # 0
  <2>1. k \in 1 .. Len(loops)
    BY <1>2, NumbersTyped
  <2>2. ASSUME NEW j \in Remaining(loops[k]), groups[d][i] = TaskAt(loops[k], j) PROVE FALSE
    <3>1. loops[k].g \in 1 .. depth /\ j \in 1 .. Len(groups[loops[k].g])
      BY <2>1, <2>2, LoopTyped
    <3>. QED
      BY <1>2, <2>2, <3>1 DEF OneGroup, TaskAt
  <2>. QED
    BY <1>2, <2>2 DEF Crew
<1>. QED
  BY <1>1, <1>2

\* The task that runs is the innermost loop's, and nobody else's.
LEMMA CurrentOnTop ==
  ASSUME code \in Programs, GroupsOK, LoopsOK, GroupsHold, ~picking
  PROVE  /\ current = Runner(Len(loops)) /\ current \in Crew(Len(loops))
         /\ current = Main \/ Spawned(current)
         /\ \A k \in 0 .. (Len(loops) - 1) : current \notin Crew(k)
         /\ \A k \in 1 .. Len(loops) : loops[k].owner # current
         /\ \A d \in 1 .. depth : (\A k \in 1 .. Len(loops) : loops[k].g # d) =>
              \A i \in 1 .. Len(groups[d]) : groups[d][i] # current
<1>. DEFINE K == Len(loops)
<1>0. Stacked /\ OneGroup /\ GroupsSpawned /\ K \in Nat
  BY NumbersTyped DEF GroupsHold
<1>1. current = Runner(K) /\ current \in Crew(K)
  BY <1>0, RunnerInCrew DEF Stacked
<1>2. CASE K = 0
  <2>1. current = Main
    BY <1>1, <1>2 DEF Runner
  <2>2. ASSUME NEW d \in 1 .. depth, NEW i \in 1 .. Len(groups[d]) PROVE groups[d][i] # current
    <3>1. d \in 1 .. MaxDepth
      BY <2>2, TaskAssumption DEF GroupsOK
    <3>2. groups[d][i] \in Task
      BY <2>2, <3>1 DEF GroupsOK
    <3>. QED
      BY <1>0, <2>1, <3>2, MainNotSpawned DEF GroupsSpawned
  <2>. QED
    BY <1>1, <1>2, <2>1, <2>2
<1>3. CASE K # 0
  <2>1. K \in 1 .. K /\ loops[K].at \in Remaining(loops[K]) /\ current = TaskAt(loops[K], loops[K].at)
    BY <1>0, <1>1, <1>3 DEF Stacked, Runner
  <2>2. PICK d : d = loops[K].g
    OBVIOUS
  <2>3. PICK i : i = loops[K].at
    OBVIOUS
  <2>4. d \in 1 .. depth /\ i \in 1 .. Len(groups[d]) /\ groups[d][i] \in Task /\ current = groups[d][i]
    BY <1>0, <2>1, <2>2, <2>3, LoopTyped DEF TaskAt
  <2>5. ASSUME NEW k \in 0 .. (K - 1) PROVE current \notin Crew(k)
    <3>1. k \in 0 .. K /\ (k # 0 => loops[k].g < d)
      BY <1>0, <2>1, <2>2, <2>5 DEF Stacked
    <3>2. k # 0 => loops[k].g # d
      <4>1. SUFFICES ASSUME k # 0 PROVE loops[k].g # d
        OBVIOUS
      <4>2. k \in 1 .. K
        BY <1>0, <3>1, <4>1
      <4>3. loops[k].g \in 1 .. depth
        BY <1>0, <4>2, LoopTyped
      <4>. QED
        BY <2>4, <3>1, <4>1, <4>3
    <3>. QED
      BY <1>0, <2>4, <3>1, <3>2, OneCrew
  <2>6. ASSUME NEW k \in 1 .. K PROVE loops[k].owner # current
    <3>1. loops[k].owner = Runner(k - 1) /\ k - 1 \in 0 .. (K - 1) /\ k - 1 \in 0 .. K /\ k - 1 < K
      BY <1>0, <2>6 DEF Stacked
    <3>2. Runner(k - 1) \in Crew(k - 1)
      BY <1>0, <3>1, RunnerInCrew
    <3>. QED
      BY <2>5, <3>1, <3>2
  <2>7. ASSUME NEW e \in 1 .. depth, \A k \in 1 .. K : loops[k].g # e, NEW j \in 1 .. Len(groups[e])
        PROVE  groups[e][j] # current
    BY <1>0, <2>1, <2>2, <2>4, <2>7 DEF OneGroup
  <2>8. Spawned(current)
    BY <1>0, <2>4 DEF GroupsSpawned
  <2>. QED
    BY <1>1, <2>5, <2>6, <2>7, <2>8
<1>. QED
  BY <1>2, <1>3

\* What has been spawned stays so.
LEMMA Advanced ==
  ASSUME ProgramOK, TasksTyped, Counted, NEW t \in Task, pc[t] \in DOMAIN code[t],
         code' = code, pc' = [pc EXCEPT ![t] = pc[t] + 1]
  PROVE  /\ pc' \in [Task -> Nat \ {0}]
         /\ \A u : Spawned(u) => Spawned(u)'
         /\ \A u \in Task : pc'[u] <= Len(code'[u]) + 1
<1>0. pc \in [Task -> Nat \ {0}]
  BY DEF TasksTyped
<1>1. pc' \in [Task -> Nat \ {0}] /\ \A u \in Task : pc'[u] >= pc[u]
  BY <1>0
<1>2. ASSUME NEW u, Spawned(u) PROVE Spawned(u)'
  <2>1. PICK v \in Task : \E i \in DOMAIN code[v] :
          i < pc[v] /\ code[v][i].op = "spawn" /\ code[v][i].child = u
    BY <1>2 DEF Spawned
  <2>2. PICK i \in DOMAIN code[v] : i < pc[v] /\ code[v][i].op = "spawn" /\ code[v][i].child = u
    BY <2>1
  <2>3. i \in Nat /\ pc[v] \in Nat /\ pc'[v] \in Nat
    BY <1>0, <1>1, <2>2, CodeTyped
  <2>4. i < pc'[v]
    BY <1>1, <2>2, <2>3
  <2>. QED
    BY <2>2, <2>4 DEF Spawned
<1>3. ASSUME NEW u \in Task PROVE pc'[u] <= Len(code'[u]) + 1
  <2>1. pc[u] \in Nat /\ pc[u] <= Len(code[u]) + 1 /\ DOMAIN code[u] = 1 .. Len(code[u]) /\ Len(code[u]) \in Nat
    BY <1>0, CodeTyped DEF Counted
  <2>2. CASE u = t
    BY <1>0, <2>1, <2>2
  <2>3. CASE u # t
    BY <1>0, <2>1, <2>3
  <2>. QED
    BY <2>2, <2>3
<1>. QED
  BY <1>1, <1>2, <1>3

\* A statement that is not the end of a nursery leaves the loops and their crews
\* alone, as long as it keeps the levels they iterate.
LEMMA StatementStacked ==
  ASSUME code \in Programs, ProgramOK, GroupsOK, LoopsOK, GroupsHold, ~picking, NEW t \in Task, t = current,
         pc[t] \in DOMAIN code[t], Op(t).op # "join",
         code' = code, loops' = loops, picking' = picking, current' = current, pc' = [pc EXCEPT ![t] = pc[t] + 1],
         depth' \in Nat, \A k \in 1 .. Len(loops) : loops[k].g <= depth',
         \A k \in 1 .. Len(loops) :
           /\ Len(groups[loops[k].g]) <= Len(groups'[loops[k].g])
           /\ \A i \in 1 .. Len(groups[loops[k].g]) : groups'[loops[k].g][i] = groups[loops[k].g][i],
         \A d \in 1 .. MaxDepth : Len(groups'[d]) \in Nat
  PROVE  /\ Stacked'
         /\ \A k \in 0 .. Len(loops) : /\ Crew(k)' = Crew(k) /\ Runner(k)' = Runner(k)
                                       /\ Low(k)' = Low(k)
                                       /\ k # Len(loops) => High(k)' = High(k)
         /\ High(Len(loops))' = depth' /\ High(Len(loops)) = depth
         /\ \A u : Spawned(u) => Spawned(u)'
         /\ pc' \in [Task -> Nat \ {0}]
         /\ \A u \in Task : pc'[u] <= Len(code'[u]) + 1
<1>0. Stacked /\ Len(loops) \in Nat /\ pc \in [Task -> Nat \ {0}] /\ TasksTyped /\ Counted
  BY NumbersTyped DEF GroupsHold, TasksTyped
<1>1. PICK L : L = loops /\ L = loops'
  OBVIOUS
<1>2. ASSUME NEW k \in 1 .. Len(L), NEW i, i \in 1 .. L[k].n, i \notin L[k].done
      PROVE  groups'[L[k].g][i] = groups[L[k].g][i]
  <2>1. i \in Remaining(loops[k])
    BY <1>1, <1>2 DEF Remaining
  <2>2. i \in 1 .. Len(groups[L[k].g])
    BY <1>0, <1>1, <1>2, <2>1, LoopTyped
  <2>. QED
    BY <1>1, <2>2
<1>3. ASSUME NEW k \in 0 .. Len(loops) PROVE Crew(k)' = Crew(k)
  <2>1. CASE k = 0
    BY <2>1 DEF Crew
  <2>2. CASE k # 0
    <3>1. k \in 1 .. Len(loops)
      BY <1>0, <1>3, <2>2
    <3>2. Crew(k) = {groups[L[k].g][i] : i \in {j \in 1 .. L[k].n : j \notin L[k].done}}
      BY <1>1, <2>2 DEF Crew, TaskAt, Remaining
    <3>3. Crew(k)' = {groups'[L[k].g][i] : i \in {j \in 1 .. L[k].n : j \notin L[k].done}}
      BY <1>1, <2>2 DEF Crew, TaskAt, Remaining
    <3>4. \A i \in {j \in 1 .. L[k].n : j \notin L[k].done} : groups'[L[k].g][i] = groups[L[k].g][i]
      BY <1>1, <1>2, <3>1
    <3>. QED
      BY <3>2, <3>3, <3>4
  <2>. QED
    BY <2>1, <2>2
<1>4. ASSUME NEW k \in 0 .. Len(loops) PROVE Runner(k)' = Runner(k)
  <2>1. CASE k = 0
    BY <2>1 DEF Runner
  <2>2. CASE k # 0
    <3>1. k \in 1 .. Len(loops)
      BY <1>0, <1>4, <2>2
    <3>2. loops[k].at \in Remaining(loops[k])
      BY <1>0, <3>1 DEF Stacked
    <3>3. L[k].at \in 1 .. L[k].n /\ L[k].at \notin L[k].done
      BY <1>1, <3>2 DEF Remaining
    <3>. QED
      BY <1>1, <1>2, <2>2, <3>1, <3>3 DEF Runner, TaskAt
  <2>. QED
    BY <2>1, <2>2
<1>5. ASSUME NEW k \in 1 .. Len(loops)
      PROVE  /\ loops[k].n <= Len(groups'[loops[k].g])
             /\ loops[k].owner = Runner(k - 1)' /\ Joining(loops[k].owner)'
  <2>1. /\ loops[k].n \in Nat /\ loops[k].n <= Len(groups[loops[k].g]) /\ loops[k].g \in 1 .. MaxDepth
        /\ Len(groups[loops[k].g]) \in Nat /\ loops[k].owner \in Task
    BY <1>0, <1>5, LoopTyped DEF Stacked, Loop
  <2>2. loops[k].n <= Len(groups'[loops[k].g])
    BY <1>5, <2>1
  <2>3. k - 1 \in 0 .. Len(loops) /\ loops[k].owner = Runner(k - 1) /\ Joining(loops[k].owner)
    BY <1>0, <1>5 DEF Stacked
  <2>4. loops[k].owner # t
    BY <1>5, CurrentOnTop
  <2>5. pc'[loops[k].owner] = pc[loops[k].owner]
    BY <1>0, <2>1, <2>4
  <2>. QED
    BY <1>1, <1>4, <2>2, <2>3, <2>5 DEF Joining, Op
<1>6. Stacked'
  <2>1. \A k \in 1 .. Len(L) : L[k].at \in 1 .. L[k].n /\ L[k].at \notin L[k].done
    BY <1>0, <1>1 DEF Stacked, Remaining
  <2>2. \A i, j \in 1 .. Len(L) : i < j => L[i].g < L[j].g
    BY <1>0, <1>1 DEF Stacked
  <2>3. PICK n : n = Len(L) /\ n \in 0 .. Len(loops)
    BY <1>0, <1>1
  <2>4. current' = Runner(n)'
    BY <1>0, <1>1, <1>4, <2>3 DEF Stacked
  <2>5. \A k \in 1 .. Len(L) : L[k].owner = Runner(k - 1)' /\ Joining(L[k].owner)' /\ L[k].g <= depth'
                                /\ L[k].n <= Len(groups'[L[k].g])
    BY <1>1, <1>5
  <2>. QED
    BY <1>1, <2>1, <2>2, <2>3, <2>4, <2>5 DEF Stacked, Remaining
<1>7. ASSUME NEW k \in 0 .. Len(loops) PROVE Low(k)' = Low(k) /\ (k # Len(loops) => High(k)' = High(k))
  BY DEF Low, High
<1>8. High(Len(loops))' = depth' /\ High(Len(loops)) = depth
  BY DEF High
<1>. QED
  BY <1>0, <1>3, <1>4, <1>6, <1>7, <1>8, Advanced

\* What a task has open is counted on.
LEMMA StatementCounted ==
  ASSUME ProgramOK, TasksTyped, Counted, NEW t \in Task, pc[t] \in DOMAIN code[t],
         code' = code, pc' = [pc EXCEPT ![t] = pc[t] + 1],
         opened' \in [Task -> Seq(Nursery)],
         \A u \in Task : pc'[u] <= Len(code'[u]) + 1,
         \A u \in Task \ {t} : opened'[u] = opened[u],
         Len(opened'[t]) = Len(opened[t]) + (IF Op(t).op = "open" THEN 1 ELSE 0)
                                          - (IF Op(t).op \in {"join", "leave"} THEN 1 ELSE 0)
  PROVE  Counted'
<1>1. ASSUME NEW u \in Task
      PROVE  Len(opened'[u]) + Closes(code[u], pc'[u]) = Opens(code[u], pc'[u])
  <2>1. Len(opened[u]) + Closes(code[u], pc[u]) = Opens(code[u], pc[u]) /\ code[u] \in Seq(Ops)
    BY CodeTyped DEF Counted
  <2>2. CASE u # t
    BY <2>1, <2>2 DEF TasksTyped
  <2>3. CASE u = t
    <3>1. pc'[t] = pc[t] + 1 /\ pc[t] \in Nat \ {0} /\ Len(opened[t]) \in Nat /\ Op(t) = code[t][pc[t]]
      BY DEF TasksTyped, Op
    <3>2. /\ Opens(code[t], pc[t]) \in Nat /\ Closes(code[t], pc[t]) \in Nat
          /\ Opens(code[t], pc[t] + 1) = Opens(code[t], pc[t]) + (IF Op(t).op = "open" THEN 1 ELSE 0)
          /\ Closes(code[t], pc[t] + 1) =
               Closes(code[t], pc[t]) + (IF Op(t).op \in {"join", "leave"} THEN 1 ELSE 0)
      <4>1. PICK s \in Seq(Ops), i \in Nat \ {0} : s = code[t] /\ i = pc[t]
        BY <2>1, <2>3, <3>1
      <4>2. /\ Opens(s, i) \in Nat /\ Closes(s, i) \in Nat
            /\ Opens(s, i + 1) = Opens(s, i) + (IF s[i].op = "open" THEN 1 ELSE 0)
            /\ Closes(s, i + 1) = Closes(s, i) + (IF s[i].op \in {"join", "leave"} THEN 1 ELSE 0)
        BY BracketStep
      <4>3. s[i] = Op(t)
        BY <3>1, <4>1
      <4>. QED
        BY <4>1, <4>2, <4>3
    <3>3. PICK x \in Int : x = (IF Op(t).op = "open" THEN 1 ELSE 0)
      OBVIOUS
    <3>4. PICK y \in Int : y = (IF Op(t).op \in {"join", "leave"} THEN 1 ELSE 0)
      OBVIOUS
    <3>5. Len(opened'[t]) = Len(opened[t]) + x - y
      BY <3>3, <3>4
    <3>6. Opens(code[t], pc'[t]) = Opens(code[t], pc[t]) + x /\ Closes(code[t], pc'[t]) = Closes(code[t], pc[t]) + y
      BY <3>1, <3>2, <3>3, <3>4
    <3>7. Len(opened[t]) + Closes(code[t], pc[t]) = Opens(code[t], pc[t])
      BY <2>1, <2>3
    <3>8. PICK a \in Nat, b \in Nat, c \in Nat :
            a = Opens(code[t], pc[t]) /\ b = Closes(code[t], pc[t]) /\ c = Len(opened[t])
      BY <3>1, <3>2
    <3>9. c + b = a /\ Len(opened'[t]) = c + x - y
      BY <3>5, <3>7, <3>8
    <3>10. Opens(code[t], pc'[t]) = a + x /\ Closes(code[t], pc'[t]) = b + y
      BY <3>6, <3>8
    <3>11. x \in Int /\ y \in Int /\ a \in Int /\ b \in Int /\ c \in Int /\ c + b = a
      BY <3>3, <3>4, <3>8, <3>9
    <3>12. (c + x - y) + (b + y) = a + x
      BY <3>11
    <3>13. Len(opened'[t]) + Closes(code[t], pc'[t]) = Opens(code[t], pc'[t])
      BY <3>9, <3>10, <3>12
    <3>. QED
      BY <2>3, <3>13
  <2>. QED
    BY <2>2, <2>3
<1>. QED
  BY <1>1 DEF Counted

\* A task that is to leave a nursery, or to join one, has one open.
LEMMA OpenedSome ==
  ASSUME code \in Programs, ProgramOK, TasksTyped, Counted, NEW t \in Task,
         pc[t] \in DOMAIN code[t], Op(t).op \in {"join", "leave"}
  PROVE  Len(opened[t]) > 0 /\ opened[t] # <<>> /\ Len(opened[t]) \in Nat
<1>1. Closes(code[t], pc[t]) < Opens(code[t], pc[t])
  BY ProgramAssumption DEF Bracketed, Op
<1>2. pc[t] \in Nat \ {0} /\ code[t] \in Seq(Ops) /\ opened[t] \in Seq(Nursery)
  BY CodeTyped DEF TasksTyped
<1>3. Opens(code[t], pc[t]) \in Nat /\ Closes(code[t], pc[t]) \in Nat
  BY <1>2, BracketStep
<1>. QED
  BY <1>1, <1>2, <1>3 DEF Counted

LEMMA LevelLeft ==
  ASSUME code \in Programs, ProgramOK, GroupsOK, LoopsOK, GroupsHold, ~picking, NEW t \in Task, t = current,
         opened[t] # <<>>
  PROVE  Low(Len(loops)) < depth
<1>1. Len(loops) \in 0 .. Len(loops) /\ Low(Len(loops)) \in Int /\ depth \in Int
  BY NumbersTyped DEF GroupsHold
<1>2. current \in Crew(Len(loops))
  BY CurrentOnTop
<1>3. 1 \in 1 .. Len(opened[t])
  BY DEF GroupsHold, TasksTyped
<1>4. <<t, 1>> \in Brackets(Len(loops))
  BY <1>2, <1>3, InPairs DEF Brackets
<1>5. Fit(Brackets(Len(loops)), Low(Len(loops)), depth)
  BY <1>1 DEF GroupsHold, Roomy, High
<1>. QED
  BY <1>1, <1>4, <1>5, FitSome

\* What remains to show of a statement, once StatementStacked applies.
LEMMA StatementHolds ==
  ASSUME code \in Programs, ProgramOK, GroupsOK, LoopsOK, GroupsHold, ~picking, NEW t \in Task, t = current,
         pc[t] \in DOMAIN code[t], Op(t).op # "join",
         code' = code, loops' = loops, picking' = picking, current' = current, pc' = [pc EXCEPT ![t] = pc[t] + 1],
         depth' \in Nat, \A k \in 1 .. Len(loops) : loops[k].g <= depth',
         \A k \in 1 .. Len(loops) :
           /\ Len(groups[loops[k].g]) <= Len(groups'[loops[k].g])
           /\ \A i \in 1 .. Len(groups[loops[k].g]) : groups'[loops[k].g][i] = groups[loops[k].g][i],
         \A d \in 1 .. MaxDepth : Len(groups'[d]) \in Nat,
         opened' \in [Task -> Seq(Nursery)],
         \A u \in Task \ {t} : opened'[u] = opened[u],
         Len(opened'[t]) = Len(opened[t]) + (IF Op(t).op = "open" THEN 1 ELSE 0)
                                          - (IF Op(t).op \in {"join", "leave"} THEN 1 ELSE 0),
         Fit(Pairs(Crew(Len(loops)), opened'), Low(Len(loops)), depth'),
         OneGroup', GroupsSpawned', Fresh'
  PROVE  GroupsHold'
<1>1. /\ Stacked'
      /\ \A k \in 0 .. Len(loops) : /\ Crew(k)' = Crew(k) /\ Low(k)' = Low(k)
                                    /\ k # Len(loops) => High(k)' = High(k)
      /\ High(Len(loops))' = depth'
      /\ pc' \in [Task -> Nat \ {0}]
      /\ \A u \in Task : pc'[u] <= Len(code'[u]) + 1
  BY StatementStacked
<1>2. Counted'
  BY <1>1, StatementCounted DEF GroupsHold
<1>3. ASSUME NEW k \in 0 .. Len(loops) PROVE Fit(Pairs(Crew(k)', opened'), Low(k)', High(k)')
  <2>1. CASE k = Len(loops)
    BY <1>1, <1>3, <2>1
  <2>2. CASE k # Len(loops)
    <3>1. k \in 0 .. (Len(loops) - 1)
      BY <1>3, <2>2, NumbersTyped DEF GroupsHold
    <3>2. current \notin Crew(k)
      BY <3>1, CurrentOnTop
    <3>3. \A u \in Crew(k) : u \in Task
      BY <1>3, CrewTyped DEF GroupsHold
    <3>4. Pairs(Crew(k), opened') = Pairs(Crew(k), opened)
      BY <3>2, <3>3, PairsSame
    <3>5. Fit(Pairs(Crew(k), opened), Low(k), High(k))
      BY <1>3 DEF GroupsHold, Roomy, Brackets
    <3>. QED
      BY <1>1, <1>3, <2>2, <3>4, <3>5
  <2>. QED
    BY <2>1, <2>2
<1>4. Roomy'
  BY <1>3 DEF Roomy, Brackets
<1>. QED
  BY <1>1, <1>2, <1>4 DEF GroupsHold, TasksTyped
\* A task that has been spawned, or is the main fiber, or has a nursery open, is
\* not one that Fresh is about.
LEMMA CurrentKnown ==
  ASSUME code \in Programs, GroupsOK, LoopsOK, GroupsHold, ~picking, NEW t \in Task, t = current
  PROVE  /\ t = Main \/ Spawned(t)
         /\ Crew(Len(loops)) \subseteq Task /\ t \in Crew(Len(loops))
         /\ Fit(Pairs(Crew(Len(loops)), opened), Low(Len(loops)), depth)
         /\ Low(Len(loops)) \in Int /\ Low(Len(loops)) <= depth
         /\ \A k \in 1 .. Len(loops) : loops[k].g <= Low(Len(loops)) /\ loops[k].g \in 1 .. depth
<1>1. Stacked /\ Len(loops) \in 0 .. Len(loops)
  BY NumbersTyped DEF GroupsHold
<1>2. Fit(Pairs(Crew(Len(loops)), opened), Low(Len(loops)), depth)
  BY <1>1 DEF GroupsHold, Roomy, Brackets, High
<1>3. \A k \in 1 .. Len(loops) : loops[k].g \in 1 .. depth
  BY <1>1, LoopTyped
<1>4. Low(Len(loops)) \in Int /\ Low(Len(loops)) <= depth
  <2>1. CASE Len(loops) = 0
    BY <1>1, <2>1, NumbersTyped DEF Low
  <2>2. CASE Len(loops) # 0
    <3>1. Len(loops) \in 1 .. Len(loops)
      BY <1>1, <2>2
    <3>. QED
      BY <1>3, <2>2, <3>1, NumbersTyped DEF Low
  <2>. QED
    BY <2>1, <2>2
<1>5. ASSUME NEW k \in 1 .. Len(loops) PROVE loops[k].g <= Low(Len(loops))
  <2>1. Len(loops) # 0 /\ Len(loops) \in 1 .. Len(loops)
    BY <1>1, <1>5
  <2>2. k = Len(loops) \/ loops[k].g < loops[Len(loops)].g
    BY <1>1, <1>5, <2>1 DEF Stacked
  <2>. QED
    BY <1>3, <1>5, <2>1, <2>2 DEF Low
<1>. QED
  BY <1>1, <1>2, <1>3, <1>4, <1>5, CurrentOnTop, CrewTyped

\* A statement about channels, or a builtin.
LEMMA QuietHolds ==
  ASSUME code \in Programs, ProgramOK, GroupsOK, LoopsOK, GroupsHold, ~picking, NEW t \in Task, t = current,
         pc[t] \in DOMAIN code[t], Op(t).op \notin {"join", "leave", "open"},
         code' = code, pc' = [pc EXCEPT ![t] = pc[t] + 1], loops' = loops, picking' = picking,
         current' = current, depth' = depth, groups' = groups, opened' = opened
  PROVE  GroupsHold'
<1>1. depth \in Nat /\ Stacked /\ opened \in [Task -> Seq(Nursery)] /\ Len(opened[t]) \in Nat
  BY NumbersTyped DEF GroupsHold, TasksTyped
<1>2. /\ \A d \in 1 .. MaxDepth : Len(groups[d]) \in Nat
      /\ \A k \in 1 .. Len(loops) : loops[k].g <= depth /\ Len(groups[loops[k].g]) <= Len(groups[loops[k].g])
  <2>1. \A d \in 1 .. MaxDepth : Len(groups[d]) \in Nat
    BY DEF GroupsOK
  <2>2. ASSUME NEW k \in 1 .. Len(loops)
        PROVE  loops[k].g <= depth /\ Len(groups[loops[k].g]) <= Len(groups[loops[k].g])
    <3>1. Len(groups[loops[k].g]) \in Nat /\ loops[k].g \in 1 .. depth
      BY <1>1, <2>2, LoopTyped
    <3>. QED
      BY <1>1, <3>1
  <2>. QED
    BY <2>1, <2>2
<1>3. \A u : Spawned(u) => Spawned(u)'
  BY <1>1, <1>2, StatementStacked
<1>4. OneGroup' /\ GroupsSpawned' /\ Fresh'
  BY <1>3 DEF GroupsHold, OneGroup, GroupsSpawned, Fresh
<1>5. Fit(Pairs(Crew(Len(loops)), opened'), Low(Len(loops)), depth')
  BY CurrentKnown
<1>6. Len(opened'[t]) = Len(opened[t]) + (IF Op(t).op = "open" THEN 1 ELSE 0)
                                       - (IF Op(t).op \in {"join", "leave"} THEN 1 ELSE 0)
  BY <1>1
<1>. QED
  BY <1>1, <1>2, <1>4, <1>5, <1>6, StatementHolds

LEMMA LeaveHolds ==
  ASSUME code \in Programs, ProgramOK, GroupsOK, LoopsOK, GroupsHold, NEW t \in Task, Leave(t)
  PROVE  GroupsHold'
<1>1. /\ ~picking /\ t = current /\ pc[t] \in DOMAIN code[t] /\ Op(t).op = "leave"
      /\ code' = code /\ pc' = [pc EXCEPT ![t] = pc[t] + 1] /\ loops' = loops /\ picking' = picking
      /\ current' = current /\ depth' = depth /\ groups' = groups
      /\ opened' = [opened EXCEPT ![t] = Front(opened[t])]
  BY DEF Leave, Running, Advance, sched
<1>2. depth \in Nat /\ Stacked /\ TasksTyped /\ Counted
  BY NumbersTyped DEF GroupsHold
<1>3. opened[t] \in Seq(Nursery) /\ opened[t] # <<>> /\ Len(opened[t]) \in Nat /\ Len(opened[t]) > 0
  BY <1>1, <1>2, OpenedSome DEF TasksTyped
<1>4. Front(opened[t]) \in Seq(Nursery) /\ Len(Front(opened[t])) = Len(opened[t]) - 1
  BY <1>3 DEF Front
<1>5. /\ opened' \in [Task -> Seq(Nursery)] /\ Len(opened'[t]) = Len(opened[t]) - 1
      /\ \A u \in Task \ {t} : opened'[u] = opened[u]
      /\ opened'[t] = Front(opened[t])
  BY <1>1, <1>2, <1>4 DEF TasksTyped
<1>6. /\ \A d \in 1 .. MaxDepth : Len(groups[d]) \in Nat
      /\ \A k \in 1 .. Len(loops) : loops[k].g <= depth /\ Len(groups[loops[k].g]) <= Len(groups[loops[k].g])
  BY <1>2, LoopTyped DEF GroupsOK
<1>7. \A u : Spawned(u) => Spawned(u)'
  BY <1>1, <1>2, <1>6, StatementStacked
<1>8. OneGroup' /\ GroupsSpawned'
  BY <1>1, <1>7 DEF GroupsHold, OneGroup, GroupsSpawned
<1>9. Fresh'
  <2>1. ASSUME NEW u \in Task, u # Main, ~Spawned(u)' PROVE opened'[u] = <<>>
    <3>1. u # t /\ opened[u] = <<>>
      BY <1>1, <1>7, <2>1, CurrentKnown DEF GroupsHold, Fresh
    <3>. QED
      BY <1>5, <3>1
  <2>2. ASSUME NEW d \in 1 .. depth, \A k \in 1 .. Len(loops) : loops[k].g # d, NEW i \in 1 .. Len(groups[d])
        PROVE  opened'[groups[d][i]] = <<>>
    <3>1. opened[groups[d][i]] = <<>>
      BY <2>2 DEF GroupsHold, Fresh
    <3>2. groups[d][i] # t /\ groups[d][i] \in Task
      BY <1>3, <2>2, <3>1, MemberTyped
    <3>. QED
      BY <1>5, <3>1, <3>2
  <2>. QED
    BY <1>1, <2>1, <2>2 DEF Fresh
<1>10. Fit(Pairs(Crew(Len(loops)), opened'), Low(Len(loops)), depth')
  <2>1. PICK C, o, q : C = Crew(Len(loops)) /\ o = opened /\ q = opened'
    OBVIOUS
  <2>0. PICK lo \in Int, hi \in Int : lo = Low(Len(loops)) /\ hi = depth
    BY <1>1, <1>2, CurrentKnown
  <2>2. t \in C /\ C \subseteq Task /\ Fit(Pairs(C, o), lo, hi)
    BY <1>1, <2>0, <2>1, CurrentKnown
  <2>3. /\ \A u \in C : u # t => q[u] = o[u]
        /\ o[t] \in Seq(Nursery) /\ o[t] # <<>> /\ q[t] = Front(o[t])
    BY <1>3, <1>5, <2>1, <2>2
  <2>4. Pairs(C, q) \in SUBSET Pairs(C, o)
    <3>1. Pairs(C, q) = Pairs(C, o) \ {<<t, Len(o[t])>>}
      BY <2>2, <2>3, PairsOneLess
    <3>. QED
      BY <3>1
  <2>5. Fit(Pairs(C, q), lo, hi)
    BY <2>0, <2>2, <2>4, FitFewer
  <2>. QED
    BY <1>1, <2>0, <2>1, <2>5
<1>11. Len(opened'[t]) = Len(opened[t]) + (IF Op(t).op = "open" THEN 1 ELSE 0)
                                        - (IF Op(t).op \in {"join", "leave"} THEN 1 ELSE 0)
  BY <1>1, <1>3, <1>5
<1>. QED
  BY <1>1, <1>2, <1>5, <1>6, <1>8, <1>9, <1>10, <1>11, StatementHolds

\* The new level is empty, and goes to the task that opens it.
LEMMA OpenHolds ==
  ASSUME code \in Programs, ProgramOK, GroupsOK, LoopsOK, GroupsHold, NEW t \in Task, Open(t),
         outcome' = "running"
  PROVE  GroupsHold'
<1>1. /\ ~picking /\ t = current /\ pc[t] \in DOMAIN code[t] /\ Op(t).op = "open" /\ depth < MaxDepth
      /\ code' = code /\ pc' = [pc EXCEPT ![t] = pc[t] + 1] /\ loops' = loops /\ picking' = picking
      /\ current' = current /\ depth' = depth + 1 /\ groups' = [groups EXCEPT ![depth + 1] = <<>>]
      /\ opened' = [opened EXCEPT ![t] = Append(opened[t], Op(t).n)]
  BY TaskAssumption DEF Open, Running, Advance, Fails, GroupsOK
<1>2. depth \in Nat /\ Stacked /\ TasksTyped /\ Counted /\ depth + 1 \in 1 .. MaxDepth
  BY <1>1, NumbersTyped, TaskAssumption DEF GroupsHold, GroupsOK
<1>3. Op(t).n \in Nursery
  <2>1. Op(t) \in Ops
    BY <1>1 DEF ProgramOK, Op
  <2>. QED
    BY <1>1, <2>1 DEF Ops
<1>4. opened[t] \in Seq(Nursery) /\ Len(opened[t]) \in Nat
  BY <1>2 DEF TasksTyped
<1>5. /\ opened' \in [Task -> Seq(Nursery)] /\ Len(opened'[t]) = Len(opened[t]) + 1
      /\ \A u \in Task \ {t} : opened'[u] = opened[u]
      /\ opened'[t] = Append(opened[t], Op(t).n)
  BY <1>1, <1>2, <1>3, <1>4 DEF TasksTyped
<1>6. /\ \A d \in 1 .. depth : groups'[d] = groups[d]
      /\ groups'[depth + 1] = <<>>
      /\ \A d \in 1 .. MaxDepth : groups'[d] \in Seq(Task)
  BY <1>1, <1>2, MemberTyped DEF GroupsOK
<1>7. /\ \A d \in 1 .. MaxDepth : Len(groups'[d]) \in Nat
      /\ depth' \in Nat
  BY <1>1, <1>2, <1>6
<1>8. ASSUME NEW k \in 1 .. Len(loops)
      PROVE  /\ loops[k].g <= depth'
             /\ Len(groups[loops[k].g]) <= Len(groups'[loops[k].g])
             /\ \A i \in 1 .. Len(groups[loops[k].g]) : groups'[loops[k].g][i] = groups[loops[k].g][i]
  <2>1. loops[k].g \in 1 .. depth /\ Len(groups[loops[k].g]) \in Nat
    BY <1>2, <1>8, LoopTyped
  <2>. QED
    BY <1>1, <1>2, <1>6, <2>1
<1>9. \A u : Spawned(u) => Spawned(u)'
  BY <1>1, <1>2, <1>7, <1>8, StatementStacked
<1>10. \A d \in 1 .. depth' : d \in 1 .. depth \/ groups'[d] = <<>>
  BY <1>1, <1>2, <1>6
<1>11. OneGroup'
  BY <1>1, <1>6, <1>10 DEF GroupsHold, OneGroup
<1>12. GroupsSpawned'
  <2>1. ASSUME NEW d \in 1 .. depth', NEW i \in 1 .. Len(groups'[d]), NEW u, u = groups'[d][i]
        PROVE  Spawned(u)'
    <3>1. d \in 1 .. depth /\ groups'[d] = groups[d]
      BY <1>6, <1>10, <2>1
    <3>. QED
      BY <1>9, <2>1, <3>1 DEF GroupsHold, GroupsSpawned
  <2>. QED
    BY <2>1 DEF GroupsSpawned, Spawned
<1>13. Fresh'
  <2>1. ASSUME NEW u \in Task, u # Main, ~Spawned(u)' PROVE opened'[u] = <<>>
    <3>1. u # t /\ opened[u] = <<>>
      BY <1>1, <1>9, <2>1, CurrentKnown DEF GroupsHold, Fresh
    <3>. QED
      BY <1>5, <3>1
  <2>2. ASSUME NEW d \in 1 .. depth', \A k \in 1 .. Len(loops) : loops[k].g # d,
               NEW i \in 1 .. Len(groups'[d])
        PROVE  opened'[groups'[d][i]] = <<>>
    <3>1. d \in 1 .. depth /\ groups'[d] = groups[d]
      BY <1>6, <1>10, <2>2
    <3>2. opened[groups[d][i]] = <<>>
      BY <2>2, <3>1 DEF GroupsHold, Fresh
    <3>3. groups[d][i] # t /\ groups[d][i] \in Task
      BY <1>1, <2>2, <3>1, MemberTyped, CurrentOnTop
    <3>. QED
      BY <1>5, <3>1, <3>2, <3>3
  <2>. QED
    BY <1>1, <2>1, <2>2 DEF Fresh
<1>14. Fit(Pairs(Crew(Len(loops)), opened'), Low(Len(loops)), depth')
  <2>1. PICK C, o, q : C = Crew(Len(loops)) /\ o = opened /\ q = opened'
    OBVIOUS
  <2>2. PICK lo \in Int, hi \in Int : lo = Low(Len(loops)) /\ hi = depth
    BY <1>1, <1>2, CurrentKnown
  <2>3. t \in C /\ C \subseteq Task /\ Fit(Pairs(C, o), lo, hi) /\ lo <= hi
    BY <1>1, <2>1, <2>2, CurrentKnown
  <2>4. PICK n \in Nursery : n = Op(t).n
    BY <1>3
  <2>5. /\ \A u \in C : u # t => q[u] = o[u]
        /\ o[t] \in Seq(Nursery) /\ q[t] = Append(o[t], n)
    BY <1>4, <1>5, <2>1, <2>3, <2>4
  <2>6. PICK x : x = <<t, Len(o[t]) + 1>>
    OBVIOUS
  <2>7. Pairs(C, q) = Pairs(C, o) \union {x}
    <3>1. t \in C /\ o[t] \in Seq(Nursery) /\ q[t] = Append(o[t], n) /\ \A u \in C : u # t => q[u] = o[u]
      BY <2>3, <2>5
    <3>2. Pairs(C, q) = Pairs(C, o) \union {<<t, Len(o[t]) + 1>>}
      BY ONLY <2>4, <3>1, PairsOneMore
    <3>. QED
      BY <2>6, <3>2
  <2>8. Fit(Pairs(C, o) \union {x}, lo, hi + 1)
    BY <2>2, <2>3, FitOneMore
  <2>. QED
    BY <1>1, <2>1, <2>2, <2>7, <2>8
<1>15. Len(opened'[t]) = Len(opened[t]) + (IF Op(t).op = "open" THEN 1 ELSE 0)
                                        - (IF Op(t).op \in {"join", "leave"} THEN 1 ELSE 0)
  BY <1>1, <1>4, <1>5
<1>. QED
  BY <1>1, <1>5, <1>7, <1>8, <1>11, <1>12, <1>13, <1>14, <1>15, StatementHolds

\* A spawn makes a task that no spawn has made yet.
LEMMA ChildIsNew ==
  ASSUME code \in Programs, ProgramOK, TasksTyped, NEW t \in Task, pc[t] \in DOMAIN code[t],
         Op(t).op = "spawn"
  PROVE  Op(t).child \in Task /\ Op(t).child # Main /\ ~Spawned(Op(t).child)
<1>1. Op(t) = code[t][pc[t]] /\ pc[t] \in Nat \ {0}
  BY DEF Op, TasksTyped
<1>2. ASSUME NEW u \in Task, NEW i \in DOMAIN code[u], code[u][i].op = "spawn"
      PROVE  code[u][i] = [op |-> "spawn", child |-> code[u][i].child]
  <2>1. code[u][i] \in Ops
    BY <1>2 DEF ProgramOK
  <2>. QED
    BY <1>2, <2>1 DEF Ops
<1>3. ASSUME NEW u \in Task, NEW i \in DOMAIN code[u], i < pc[u], code[u][i].op = "spawn",
             code[u][i].child = Op(t).child
      PROVE  FALSE
  <2>1. code[u][i] = code[t][pc[t]]
    <3>1. code[u][i] = [op |-> "spawn", child |-> Op(t).child]
      BY <1>2, <1>3
    <3>2. code[t][pc[t]] = [op |-> "spawn", child |-> Op(t).child]
      BY <1>1, <1>2
    <3>. QED
      BY <3>1, <3>2
  <2>2. u = t /\ i = pc[t]
    BY <1>1, <1>3, <2>1, ProgramAssumption
  <2>. QED
    BY <1>1, <1>3, <2>2
<1>4. Op(t).child # Main
  BY <1>1, ProgramAssumption
<1>. QED
  BY <1>3, <1>4, OpTyped DEF Spawned

\* The child joins the innermost group, behind the tasks a loop counted there.
LEMMA SpawnHolds ==
  ASSUME code \in Programs, ProgramOK, GroupsOK, LoopsOK, GroupsHold, NEW t \in Task, Spawn(t),
         outcome' = "running"
  PROVE  GroupsHold'
<1>1. PICK c : c = Op(t).child
  OBVIOUS
<1>2. /\ ~picking /\ t = current /\ pc[t] \in DOMAIN code[t] /\ Op(t).op = "spawn" /\ depth >= 1
      /\ code' = code /\ pc' = [pc EXCEPT ![t] = pc[t] + 1] /\ loops' = loops /\ picking' = picking
      /\ current' = current /\ depth' = depth
      /\ groups' = [groups EXCEPT ![depth] = Append(groups[depth], c)]
      /\ opened' = opened
  BY <1>1, TaskAssumption DEF Spawn, Running, Advance, Fails, TooMany, GroupsOK
<1>3. depth \in 1 .. depth /\ depth \in Nat /\ Stacked /\ TasksTyped /\ Counted /\ Len(opened[t]) \in Nat
  BY <1>2, NumbersTyped DEF GroupsHold, TasksTyped
<1>4. c \in Task /\ c # Main /\ ~Spawned(c)
  BY <1>1, <1>2, <1>3, ChildIsNew
<1>5. /\ groups[depth] \in Seq(Task) /\ Len(groups[depth]) \in Nat /\ depth \in 1 .. MaxDepth
      /\ groups'[depth] = Append(groups[depth], c)
      /\ \A d \in 1 .. MaxDepth : d # depth => groups'[d] = groups[d]
      /\ \A d \in 1 .. MaxDepth : groups[d] \in Seq(Task)
  BY <1>2, <1>3, MemberTyped DEF GroupsOK
<1>6. \A d \in 1 .. MaxDepth : groups'[d] \in Seq(Task)
  <2>1. Append(groups[depth], c) \in Seq(Task)
    BY <1>4, <1>5
  <2>2. \A d \in 1 .. MaxDepth : groups'[d] = groups[d] \/ groups'[d] = Append(groups[depth], c)
    BY <1>5
  <2>. QED
    BY <1>5, <2>1, <2>2
<1>7. ASSUME NEW d \in 1 .. depth
      PROVE  /\ d \in 1 .. MaxDepth /\ Len(groups[d]) \in Nat /\ Len(groups[d]) <= Len(groups'[d])
             /\ \A i \in 1 .. Len(groups[d]) : groups'[d][i] = groups[d][i]
             /\ \A i \in 1 .. Len(groups'[d]) :
                  \/ i \in 1 .. Len(groups[d])
                  \/ d = depth /\ i = Len(groups[depth]) + 1 /\ groups'[d][i] = c
  <2>1. d \in 1 .. MaxDepth /\ Len(groups[d]) \in Nat
    BY <1>7, MemberTyped
  <2>2. CASE d = depth
    BY <1>4, <1>5, <2>1, <2>2
  <2>3. CASE d # depth
    BY <1>5, <2>1, <2>3
  <2>. QED
    BY <2>1, <2>2, <2>3
<1>8. \A d \in 1 .. MaxDepth : Len(groups'[d]) \in Nat
  BY <1>6
<1>9. ASSUME NEW k \in 1 .. Len(loops)
      PROVE  /\ loops[k].g <= depth'
             /\ Len(groups[loops[k].g]) <= Len(groups'[loops[k].g])
             /\ \A i \in 1 .. Len(groups[loops[k].g]) : groups'[loops[k].g][i] = groups[loops[k].g][i]
  <2>1. loops[k].g \in 1 .. depth
    BY <1>3, <1>9, LoopTyped
  <2>. QED
    BY <1>2, <1>3, <1>7, <2>1
<1>10. \A u : Spawned(u) => Spawned(u)'
  BY <1>2, <1>3, <1>8, <1>9, StatementStacked
<1>11. Spawned(c)'
  <2>1. pc[t] < pc'[t] /\ pc[t] \in DOMAIN code'[t] /\ code'[t][pc[t]] = Op(t)
    BY <1>2, <1>3 DEF TasksTyped, Op
  <2>. QED
    BY <1>1, <1>2, <2>1 DEF Spawned
<1>12. \A d \in 1 .. depth : \A i \in 1 .. Len(groups[d]) : groups[d][i] # c
  BY <1>4 DEF GroupsHold, GroupsSpawned
<1>13. OneGroup'
  <2>1. ASSUME NEW d \in 1 .. depth, NEW e \in 1 .. depth,
               NEW i \in 1 .. Len(groups'[d]), NEW j \in 1 .. Len(groups'[e]), groups'[d][i] = groups'[e][j]
        PROVE  d = e /\ i = j
    <3>1. CASE i \in 1 .. Len(groups[d]) /\ j \in 1 .. Len(groups[e])
      <4>1. groups[d][i] = groups[e][j]
        BY <1>7, <2>1, <3>1
      <4>. QED
        BY <2>1, <3>1, <4>1 DEF GroupsHold, OneGroup
    <3>2. groups'[d][i] = c <=> i \notin 1 .. Len(groups[d])
      <4>1. i \in 1 .. Len(groups[d]) => groups[d][i] # c
        BY <1>12
      <4>. QED
        BY <1>7, <2>1, <4>1
    <3>3. groups'[e][j] = c <=> j \notin 1 .. Len(groups[e])
      <4>1. j \in 1 .. Len(groups[e]) => groups[e][j] # c
        BY <1>12
      <4>. QED
        BY <1>7, <2>1, <4>1
    <3>4. CASE i \notin 1 .. Len(groups[d]) /\ j \notin 1 .. Len(groups[e])
      BY <1>7, <2>1, <3>4
    <3>. QED
      BY <2>1, <3>1, <3>2, <3>3, <3>4
  <2>. QED
    BY <1>2, <2>1 DEF OneGroup
<1>14. GroupsSpawned'
  <2>1. ASSUME NEW d \in 1 .. depth, NEW i \in 1 .. Len(groups'[d]), NEW u, u = groups'[d][i]
        PROVE  Spawned(u)'
    <3>1. CASE i \in 1 .. Len(groups[d])
      BY <1>7, <1>10, <2>1, <3>1 DEF GroupsHold, GroupsSpawned
    <3>2. CASE i \notin 1 .. Len(groups[d])
      BY <1>7, <1>11, <2>1, <3>2
    <3>. QED
      BY <3>1, <3>2
  <2>. QED
    BY <1>2, <2>1 DEF GroupsSpawned, Spawned
<1>15. Fresh'
  <2>1. ASSUME NEW u \in Task, u # Main, ~Spawned(u)' PROVE opened'[u] = <<>>
    BY <1>2, <1>10, <2>1 DEF GroupsHold, Fresh
  <2>2. ASSUME NEW d \in 1 .. depth, \A k \in 1 .. Len(loops) : loops[k].g # d,
               NEW i \in 1 .. Len(groups'[d])
        PROVE  opened[groups'[d][i]] = <<>>
    <3>1. CASE i \in 1 .. Len(groups[d])
      BY <1>7, <2>2, <3>1 DEF GroupsHold, Fresh
    <3>2. CASE i \notin 1 .. Len(groups[d])
      <4>1. groups'[d][i] = c
        BY <1>7, <2>2, <3>2
      <4>. QED
        BY <1>4, <4>1 DEF GroupsHold, Fresh
    <3>. QED
      BY <3>1, <3>2
  <2>. QED
    BY <1>2, <2>1, <2>2 DEF Fresh
<1>16. Fit(Pairs(Crew(Len(loops)), opened'), Low(Len(loops)), depth')
  BY <1>2, CurrentKnown
<1>17. Len(opened'[t]) = Len(opened[t]) + (IF Op(t).op = "open" THEN 1 ELSE 0)
                                        - (IF Op(t).op \in {"join", "leave"} THEN 1 ELSE 0)
  BY <1>2, <1>3
<1>. QED
  BY <1>2, <1>3, <1>8, <1>9, <1>13, <1>14, <1>15, <1>16, <1>17, StatementHolds DEF TasksTyped

-----------------------------------------------------------------------------
(* The groups: the loops *)

\* A loop that is as it was has the task and the crew that it had.
LEMMA SameLoop ==
  ASSUME groups' = groups, NEW k, k # 0 => loops'[k] = loops[k]
  PROVE  Crew(k)' = Crew(k) /\ Runner(k)' = Runner(k) /\ Low(k)' = Low(k)
<1>1. CASE k = 0
  BY <1>1 DEF Crew, Runner, Low
<1>2. CASE k # 0
  <2>1. PICK l : l = loops[k] /\ l = loops'[k]
    BY <1>2
  <2>2. /\ Crew(k) = {groups[l.g][i] : i \in {j \in 1 .. l.n : j \notin l.done}}
        /\ Runner(k) = groups[l.g][l.at] /\ Low(k) = l.g
    BY <1>2, <2>1 DEF Crew, Runner, Low, TaskAt, Remaining
  <2>3. /\ Crew(k)' = {groups'[l.g][i] : i \in {j \in 1 .. l.n : j \notin l.done}}
        /\ Runner(k)' = groups'[l.g][l.at] /\ Low(k)' = l.g
    BY <1>2, <2>1 DEF Crew, Runner, Low, TaskAt, Remaining
  <2>. QED
    BY <2>2, <2>3
<1>. QED
  BY <1>1, <1>2

\* The new loop's tasks have no nursery open, and take no level.
LEMMA JoinHolds ==
  ASSUME code \in Programs, ProgramOK, GroupsOK, LoopsOK, GroupsHold, NEW t \in Task, Join(t)
  PROVE  GroupsHold'
<1>1. PICK K, D, L, M : K = Len(loops) /\ D = depth /\ L = loops /\ M = loops'
  OBVIOUS
<1>2. PICK l : l = [g |-> D, n |-> Len(groups[D]), owner |-> t, done |-> {}, at |-> 1, progressed |-> FALSE]
  OBVIOUS
<1>3. /\ ~picking /\ t = current /\ pc[t] \in DOMAIN code[t] /\ Op(t).op = "join" /\ D > 0
      /\ M = Append(L, l) /\ picking' /\ depth' = D
      /\ code' = code /\ pc' = pc /\ groups' = groups /\ current' = current /\ opened' = opened
  BY <1>1, <1>2 DEF Join, Running, Kept, history
<1>4. /\ K \in Nat /\ D \in Nat /\ D \in 1 .. D /\ K \in 0 .. K /\ L \in Seq(Loop)
      /\ Stacked /\ TasksTyped /\ Counted
  BY <1>1, <1>3, NumbersTyped DEF GroupsHold, LoopsOK
<1>5. Len(M) = K + 1 /\ M[K + 1] = l /\ \A k \in 1 .. K : M[k] = L[k]
  BY <1>1, <1>3, <1>4
<1>6. groups[D] \in Seq(Task) /\ Len(groups[D]) \in Nat
  BY <1>1, <1>4, MemberTyped
<1>7. opened[t] # <<>>
  BY <1>3, <1>4, OpenedSome
<1>8. Low(K) < D
  BY <1>1, <1>3, <1>7, LevelLeft
<1>9. \A k \in 1 .. K : L[k].g < D /\ L[k].g \in 1 .. D
  BY <1>1, <1>3, <1>4, <1>8, CurrentKnown
<1>10. \A k \in 0 .. K : Crew(k)' = Crew(k) /\ Runner(k)' = Runner(k) /\ Low(k)' = Low(k)
  BY <1>1, <1>3, <1>4, <1>5, SameLoop
<1>11. \A u : Joining(u)' <=> Joining(u)
  BY <1>3 DEF Joining, Op
<1>12. Joining(t) /\ t = Runner(K)
  BY <1>1, <1>3, <1>4 DEF Joining, Stacked
<1>13. Stacked'
  <2>1. ASSUME NEW i \in 1 .. (K + 1), NEW j \in 1 .. (K + 1), i < j PROVE M[i].g < M[j].g
    <3>1. CASE j = K + 1
      BY <1>2, <1>4, <1>5, <1>9, <2>1, <3>1
    <3>2. CASE j # K + 1
      <4>1. i \in 1 .. K /\ j \in 1 .. K
        BY <1>4, <2>1, <3>2
      <4>. QED
        BY <1>1, <1>4, <1>5, <2>1, <4>1 DEF Stacked
    <3>. QED
      BY <3>1, <3>2
  <2>2. ASSUME NEW k \in 1 .. (K + 1)
        PROVE  /\ M[k].g <= D /\ M[k].n <= Len(groups[M[k].g])
               /\ M[k].owner = Runner(k - 1)' /\ Joining(M[k].owner)'
               /\ k < K + 1 => M[k].at \in 1 .. M[k].n /\ M[k].at \notin M[k].done
    <3>1. CASE k = K + 1
      BY <1>2, <1>4, <1>5, <1>6, <1>10, <1>11, <1>12, <3>1
    <3>2. CASE k # K + 1
      <4>1. k \in 1 .. K /\ k - 1 \in 0 .. K
        BY <1>4, <2>2, <3>2
      <4>. QED
        BY <1>1, <1>3, <1>4, <1>5, <1>10, <1>11, <4>1 DEF Stacked, Remaining
    <3>. QED
      BY <3>1, <3>2
  <2>. QED
    BY <1>1, <1>3, <1>5, <2>1, <2>2 DEF Stacked, Remaining
<1>14. OneGroup' /\ (\A u : Spawned(u)' <=> Spawned(u))
  <2>1. OneGroup'
    BY <1>1, <1>3 DEF GroupsHold, OneGroup
  <2>2. \A u : Spawned(u)' <=> Spawned(u)
    BY <1>3 DEF Spawned
  <2>. QED
    BY <2>1, <2>2
<1>15. GroupsSpawned'
  <2>1. \A d \in 1 .. D : \A i \in 1 .. Len(groups[d]) : Spawned(groups[d][i])
    BY <1>1 DEF GroupsHold, GroupsSpawned
  <2>. QED
    BY <1>3, <1>14, <2>1 DEF GroupsSpawned, Spawned
<1>16. Fresh'
  <2>1. ASSUME NEW d, \A k \in 1 .. (K + 1) : M[k].g # d, NEW k \in 1 .. K PROVE L[k].g # d
    <3>1. k \in 1 .. (K + 1)
      BY <1>4, <2>1
    <3>. QED
      BY <1>5, <2>1, <3>1
  <2>. QED
    BY <1>1, <1>3, <1>5, <1>14, <2>1 DEF GroupsHold, Fresh
<1>17. Pairs(Crew(K + 1)', opened') = {}
  <2>1. Crew(K + 1)' \subseteq {groups[D][i] : i \in 1 .. Len(groups[D])}
    BY <1>1, <1>2, <1>3, <1>4, <1>5 DEF Crew, TaskAt, Remaining
  <2>2. \A i \in 1 .. Len(groups[D]) : opened[groups[D][i]] = <<>>
    BY <1>1, <1>4, <1>9 DEF GroupsHold, Fresh
  <2>3. \A u \in Crew(K + 1)' : opened'[u] = <<>>
    BY <1>3, <2>1, <2>2
  <2>. QED
    BY <2>3, PairsNone
<1>18. ASSUME NEW k \in 0 .. (K + 1) PROVE Fit(Pairs(Crew(k)', opened'), Low(k)', High(k)')
  <2>1. CASE k = K + 1
    <3>1. Low(k)' = D /\ High(k)' = D
      BY <1>1, <1>2, <1>3, <1>4, <1>5, <2>1 DEF Low, High
    <3>2. Fit({}, D, D)
      BY <1>4, FitNone
    <3>. QED
      BY <1>17, <2>1, <3>1, <3>2
  <2>2. CASE k # K + 1
    <3>1. k \in 0 .. K
      BY <1>4, <1>18, <2>2
    <3>2. High(k)' = High(k)
      BY <1>1, <1>2, <1>3, <1>4, <1>5, <3>1 DEF High
    <3>3. Fit(Pairs(Crew(k), opened), Low(k), High(k))
      BY <1>1, <3>1 DEF GroupsHold, Roomy, Brackets
    <3>. QED
      BY <1>3, <1>10, <3>1, <3>2, <3>3
  <2>. QED
    BY <2>1, <2>2
<1>19. Roomy'
  BY <1>1, <1>5, <1>18 DEF Roomy, Brackets
<1>20. TasksTyped' /\ Counted'
  BY <1>3, <1>4 DEF TasksTyped, Counted
<1>. QED
  BY <1>13, <1>14, <1>15, <1>16, <1>19, <1>20 DEF GroupsHold

\* What the innermost loop does between two of its tasks leaves it fewer of them.
LEMMA TurnHolds ==
  ASSUME code \in Programs, GroupsOK, LoopsOK, GroupsHold, loops # <<>>,
         NEW l, l.g = Top.g, l.n = Top.n, l.owner = Top.owner, Top.done \subseteq l.done,
         loops' = Append(Front(loops), l),
         code' = code, pc' = pc, groups' = groups, depth' = depth, opened' = opened,
         ~picking' => l.at \in 1 .. l.n /\ l.at \notin l.done /\ current' = groups[l.g][l.at]
  PROVE  GroupsHold'
<1>1. PICK K, D, L, M : K = Len(loops) /\ D = depth /\ L = loops /\ M = loops'
  OBVIOUS
<1>2. /\ K \in Nat /\ K > 0 /\ K \in 1 .. K /\ D \in Nat /\ L \in Seq(Loop)
      /\ Stacked /\ TasksTyped /\ Counted
  BY <1>1, NumbersTyped DEF GroupsHold, LoopsOK
<1>3. Top = L[K]
  BY <1>1 DEF Top, Last
<1>4. Len(M) = K /\ M[K] = l /\ \A k \in 1 .. K : k # K => M[k] = L[k]
  BY <1>1, <1>2 DEF Front
<1>5. \A k \in 1 .. K : M[k].g = L[k].g /\ M[k].n = L[k].n /\ M[k].owner = L[k].owner
  BY <1>3, <1>4
<1>6. \A k \in 0 .. K : k # K => Crew(k)' = Crew(k) /\ Runner(k)' = Runner(k)
  BY <1>1, <1>2, <1>4, SameLoop
<1>7. ASSUME NEW k \in 0 .. K PROVE Low(k)' = Low(k)
  <2>1. k # 0 => k \in 1 .. K
    BY <1>2, <1>7
  <2>. QED
    BY <1>1, <1>5, <2>1 DEF Low
<1>8. \A k \in 0 .. K : High(k)' = High(k)
  <2>1. ASSUME NEW k \in 0 .. K PROVE High(k)' = High(k)
    <3>1. k # K => k + 1 \in 1 .. K
      BY <1>2, <2>1
    <3>. QED
      BY <1>1, <1>4, <1>5, <3>1 DEF High
  <2>. QED
    BY <2>1
<1>9. \A u : Joining(u)' <=> Joining(u)
  BY DEF Joining, Op
<1>10. Stacked'
  <2>1. \A i, j \in 1 .. K : i < j => M[i].g < M[j].g
    BY <1>1, <1>2, <1>5 DEF Stacked
  <2>2. ASSUME NEW k \in 1 .. K
        PROVE  /\ M[k].g <= D /\ M[k].n <= Len(groups[M[k].g])
               /\ M[k].owner = Runner(k - 1)' /\ Joining(M[k].owner)'
               /\ k < K \/ ~picking' => M[k].at \in 1 .. M[k].n /\ M[k].at \notin M[k].done
    <3>1. k - 1 \in 0 .. K /\ k - 1 # K
      BY <1>2, <2>2
    <3>2. k < K \/ ~picking' => M[k].at \in 1 .. M[k].n /\ M[k].at \notin M[k].done
      <4>1. CASE k = K
        BY <1>2, <1>4, <4>1
      <4>2. CASE k # K
        <5>1. k < K
          BY <1>2, <2>2, <4>2
        <5>. QED
          BY <1>1, <1>2, <1>4, <2>2, <5>1 DEF Stacked, Remaining
      <4>. QED
        BY <4>1, <4>2
    <3>3. /\ L[k].g <= D /\ L[k].n <= Len(groups[L[k].g])
          /\ L[k].owner = Runner(k - 1) /\ Joining(L[k].owner)
      BY <1>1, <1>2, <2>2 DEF Stacked
    <3>4. M[k].g = L[k].g /\ M[k].n = L[k].n /\ M[k].owner = L[k].owner
      BY <1>5, <2>2
    <3>5. Runner(k - 1)' = Runner(k - 1) /\ (Joining(M[k].owner)' <=> Joining(M[k].owner))
      BY <1>6, <1>9, <3>1
    <3>. QED
      BY <3>2, <3>3, <3>4, <3>5
  <2>3. ~picking' => current' = Runner(K)'
    BY <1>1, <1>2, <1>4 DEF Runner, TaskAt
  <2>. QED
    BY <1>1, <1>4, <2>1, <2>2, <2>3 DEF Stacked, Remaining
<1>11. OneGroup'
  BY DEF GroupsHold, OneGroup
<1>12. \A u : Spawned(u)' <=> Spawned(u)
  BY DEF Spawned
<1>13. GroupsSpawned'
  <2>1. \A d \in 1 .. D : \A i \in 1 .. Len(groups[d]) : Spawned(groups[d][i])
    BY <1>1 DEF GroupsHold, GroupsSpawned
  <2>. QED
    BY <1>1, <1>12, <2>1 DEF GroupsSpawned, Spawned
<1>14. Fresh'
  <2>1. ASSUME NEW d, \A k \in 1 .. K : M[k].g # d PROVE \A k \in 1 .. K : L[k].g # d
    BY <1>5, <2>1
  <2>2. \A t \in Task : t # Main /\ ~Spawned(t)' => opened[t] = <<>>
    BY <1>12 DEF GroupsHold, Fresh
  <2>3. \A d \in 1 .. D : (\A k \in 1 .. K : L[k].g # d) =>
          \A i \in 1 .. Len(groups[d]) : opened[groups[d][i]] = <<>>
    BY <1>1 DEF GroupsHold, Fresh
  <2>. QED
    <3>1. ASSUME NEW d \in 1 .. D, \A k \in 1 .. Len(M) : M[k].g # d, NEW i \in 1 .. Len(groups[d])
          PROVE  opened[groups[d][i]] = <<>>
      <4>1. \A k \in 1 .. K : L[k].g # d
        BY <1>4, <2>1, <3>1
      <4>. QED
        BY <2>3, <3>1, <4>1
    <3>. QED
      BY <1>1, <2>2, <3>1 DEF Fresh
<1>15. ASSUME NEW k \in 0 .. K PROVE Fit(Pairs(Crew(k)', opened'), Low(k)', High(k)')
  <2>1. Fit(Pairs(Crew(k), opened), Low(k), High(k)) /\ Low(k) \in Int /\ High(k) \in Int
    BY <1>1, <1>2, <1>15, NumbersTyped DEF GroupsHold, Roomy, Brackets
  <2>2. CASE k = K
    <3>1. PICK C, D1 : C = Crew(K)' /\ D1 = Crew(K)
      OBVIOUS
    <3>2. C \in SUBSET D1
      <4>1. C = {groups[l.g][i] : i \in {j \in 1 .. l.n : j \notin l.done}}
        <5>1. loops'[K] = l /\ K # 0
          BY <1>1, <1>2, <1>4
        <5>. QED
          BY <3>1, <5>1 DEF Crew, TaskAt, Remaining
      <4>2. D1 = {groups[Top.g][i] : i \in {j \in 1 .. Top.n : j \notin Top.done}}
        BY <1>1, <1>2, <1>3, <3>1 DEF Crew, TaskAt, Remaining
      <4>. QED
        BY <4>1, <4>2
    <3>3. Pairs(C, opened) \in SUBSET Pairs(D1, opened)
      BY <3>2, PairsFewer
    <3>4. PICK lo \in Int, hi \in Int : lo = Low(K) /\ hi = High(K)
      BY <2>1, <2>2
    <3>5. Fit(Pairs(D1, opened), lo, hi)
      BY <2>1, <2>2, <3>1, <3>4
    <3>6. Fit(Pairs(C, opened), lo, hi)
      BY <3>3, <3>4, <3>5, FitFewer
    <3>. QED
      BY <1>7, <1>8, <1>15, <2>2, <3>1, <3>4, <3>6
  <2>3. CASE k # K
    BY <1>6, <1>7, <1>8, <1>15, <2>1, <2>3
  <2>. QED
    BY <2>2, <2>3
<1>16. Roomy'
  BY <1>1, <1>4, <1>15 DEF Roomy, Brackets
<1>17. TasksTyped' /\ Counted'
  BY <1>2 DEF TasksTyped, Counted
<1>. QED
  BY <1>10, <1>11, <1>13, <1>14, <1>16, <1>17 DEF GroupsHold

LEMMA RunnerAlone ==
  ASSUME code \in Programs, GroupsOK, LoopsOK, Stacked, OneGroup, GroupsSpawned,
         NEW m \in 0 .. Len(loops), m < Len(loops) \/ ~picking, NEW k \in 0 .. Len(loops), k < m
  PROVE  Runner(m) \notin Crew(k)
<1>1. Len(loops) \in Nat /\ m \in 1 .. Len(loops) /\ m # 0
  BY NumbersTyped
<1>2. loops[m].at \in Remaining(loops[m])
  BY <1>1 DEF Stacked
<1>3. PICK d, i : d = loops[m].g /\ i = loops[m].at
  OBVIOUS
<1>4. d \in 1 .. depth /\ i \in 1 .. Len(groups[d]) /\ groups[d][i] \in Task /\ Runner(m) = groups[d][i]
  BY <1>1, <1>2, <1>3, LoopTyped DEF TaskAt, Runner
<1>5. k # 0 => loops[k].g # d
  <2>1. SUFFICES ASSUME k # 0 PROVE loops[k].g # d
    OBVIOUS
  <2>2. k \in 1 .. Len(loops)
    BY <1>1, <2>1
  <2>3. loops[k].g < d /\ loops[k].g \in 1 .. depth
    BY <1>1, <1>3, <2>2, LoopTyped DEF Stacked
  <2>. QED
    BY <1>4, <2>3
<1>. QED
  BY <1>4, <1>5, OneCrew

\* The loop goes, and with it the level of its owner's last nursery.
LEMMA EndHolds ==
  ASSUME code \in Programs, ProgramOK, GroupsOK, LoopsOK, loops # <<>>, GroupsHold, EndNursery
  PROVE  GroupsHold'
<1>1. PICK K, D, L, M, t : K = Len(loops) /\ D = Top.g /\ L = loops /\ M = loops' /\ t = Top.owner
  OBVIOUS
<1>2. /\ K \in Nat /\ K > 0 /\ K \in 1 .. K /\ L \in Seq(Loop) /\ depth \in Nat
      /\ Stacked /\ OneGroup /\ GroupsSpawned /\ TasksTyped /\ Counted
  BY <1>1, NumbersTyped DEF GroupsHold, LoopsOK
<1>3. /\ M = Front(L) /\ depth' = D - 1 /\ ~picking' /\ current' = t
      /\ pc' = [pc EXCEPT ![t] = pc[t] + 1] /\ code' = code /\ groups' = groups
      /\ opened' = [opened EXCEPT ![t] = Front(opened[t])]
  BY <1>1 DEF EndNursery, Advance
<1>4. Top = L[K]
  BY <1>1 DEF Top, Last
<1>5. PICK J \in Nat : J = K - 1
  BY <1>2
<1>6. Len(M) = J /\ \A k \in 1 .. J : M[k] = L[k]
  BY <1>1, <1>2, <1>3, <1>5 DEF Front
<1>7. J \in 0 .. K /\ J < K /\ K = J + 1 /\ \A k \in 1 .. J : k \in 1 .. K /\ k # K /\ k < K
  BY <1>2, <1>5
<1>8. t \in Task /\ t = Runner(J) /\ t \in Crew(J) /\ Joining(t)
  <2>1. t = Runner(K - 1) /\ Joining(t)
    BY <1>1, <1>2, <1>4 DEF Stacked
  <2>2. Runner(J) \in Crew(J) /\ Crew(J) \subseteq Task
    BY <1>1, <1>2, <1>7, RunnerInCrew, CrewTyped
  <2>. QED
    BY <1>5, <2>1, <2>2
<1>9. D \in 1 .. depth
  BY <1>1, <1>2, <1>4, LoopTyped
<1>10. pc[t] \in DOMAIN code[t] /\ Op(t).op = "join"
  BY <1>8 DEF Joining
<1>11. opened[t] \in Seq(Nursery) /\ opened[t] # <<>> /\ Len(opened[t]) \in Nat /\ Len(opened[t]) > 0
  BY <1>2, <1>8, <1>10, OpenedSome DEF TasksTyped
<1>12. Front(opened[t]) \in Seq(Nursery) /\ Len(Front(opened[t])) = Len(opened[t]) - 1
  BY <1>11 DEF Front
<1>13. /\ opened' \in [Task -> Seq(Nursery)] /\ Len(opened'[t]) = Len(opened[t]) - 1
       /\ \A u \in Task \ {t} : opened'[u] = opened[u]
       /\ opened'[t] = Front(opened[t])
  BY <1>2, <1>3, <1>8, <1>12 DEF TasksTyped
<1>14. /\ pc' \in [Task -> Nat \ {0}]
       /\ \A u : Spawned(u) => Spawned(u)'
       /\ \A u \in Task : pc'[u] <= Len(code'[u]) + 1
  BY <1>2, <1>3, <1>8, <1>10, Advanced
<1>15. Counted'
  <2>1. Len(opened'[t]) = Len(opened[t]) + (IF Op(t).op = "open" THEN 1 ELSE 0)
                                         - (IF Op(t).op \in {"join", "leave"} THEN 1 ELSE 0)
    BY <1>10, <1>11, <1>13
  <2>. QED
    BY <1>2, <1>3, <1>8, <1>10, <1>13, <1>14, <2>1, StatementCounted
<1>16. \A k \in 0 .. J : Crew(k)' = Crew(k) /\ Runner(k)' = Runner(k) /\ Low(k)' = Low(k)
  BY <1>1, <1>3, <1>6, SameLoop
<1>17. \A k \in 0 .. J : k < J => t \notin Crew(k)
  BY <1>1, <1>2, <1>7, <1>8, RunnerAlone
<1>18. Stacked'
  <2>1. \A i, j \in 1 .. J : i < j => M[i].g < M[j].g
    <3>1. \A i, j \in 1 .. K : i < j => L[i].g < L[j].g
      BY <1>1, <1>2 DEF Stacked
    <3>. QED
      BY <1>6, <1>7, <3>1
  <2>2. ASSUME NEW k \in 1 .. J
        PROVE  /\ M[k].g <= D - 1 /\ M[k].n <= Len(groups[M[k].g])
               /\ M[k].owner = Runner(k - 1)' /\ Joining(M[k].owner)'
               /\ M[k].at \in 1 .. M[k].n /\ M[k].at \notin M[k].done
    <3>1. k \in 1 .. K /\ k < K /\ k - 1 \in 0 .. J /\ k - 1 < J /\ k - 1 \in 0 .. K
      BY <1>2, <1>5, <2>2
    <3>2. /\ L[k].g < D /\ L[k].n <= Len(groups[L[k].g])
          /\ L[k].owner = Runner(k - 1) /\ Joining(L[k].owner)
          /\ L[k].at \in 1 .. L[k].n /\ L[k].at \notin L[k].done
      BY <1>1, <1>2, <1>4, <3>1 DEF Stacked, Remaining
    <3>3. L[k].g \in 1 .. depth
      BY <1>1, <1>2, <3>1, LoopTyped
    <3>4. Runner(k - 1) \in Crew(k - 1) /\ Crew(k - 1) \subseteq Task
      BY <1>1, <1>2, <3>1, <1>7, RunnerInCrew, CrewTyped
    <3>5. L[k].owner # t /\ L[k].owner \in Task
      BY <1>17, <3>1, <3>2, <3>4
    <3>6. Joining(L[k].owner)'
      BY <1>2, <1>3, <3>2, <3>5 DEF Joining, Op, TasksTyped
    <3>. QED
      BY <1>6, <1>9, <1>16, <2>2, <3>1, <3>2, <3>3, <3>6
  <2>3. current' = Runner(J)'
    BY <1>3, <1>7, <1>8, <1>16
  <2>. QED
    BY <1>1, <1>3, <1>6, <2>1, <2>2, <2>3 DEF Stacked, Remaining
<1>19. \A d \in 1 .. D - 1 : d \in 1 .. depth
  BY <1>2, <1>9
<1>20. OneGroup'
  BY <1>2, <1>3, <1>19 DEF OneGroup
<1>21. GroupsSpawned'
  <2>1. ASSUME NEW d \in 1 .. D - 1, NEW i \in 1 .. Len(groups[d]), NEW u, u = groups[d][i]
        PROVE  Spawned(u)'
    BY <1>2, <1>14, <1>19, <2>1 DEF GroupsSpawned
  <2>. QED
    BY <1>3, <2>1 DEF GroupsSpawned, Spawned
<1>22. Fresh'
  <2>1. ASSUME NEW u \in Task, u # Main, ~Spawned(u)' PROVE opened'[u] = <<>>
    BY <1>11, <1>13, <1>14, <2>1 DEF GroupsHold, Fresh
  <2>2. ASSUME NEW d \in 1 .. D - 1, \A k \in 1 .. J : M[k].g # d, NEW i \in 1 .. Len(groups[d])
        PROVE  opened'[groups[d][i]] = <<>>
    <3>1. d \in 1 .. depth /\ d # D
      BY <1>9, <1>19, <2>2
    <3>2. \A k \in 1 .. K : L[k].g # d
      <4>1. ASSUME NEW k \in 1 .. K PROVE L[k].g # d
        <5>1. k = K \/ k \in 1 .. J
          BY <1>2, <1>5, <4>1
        <5>. QED
          BY <1>1, <1>4, <1>6, <2>2, <3>1, <5>1
      <4>. QED
        BY <4>1
    <3>3. opened[groups[d][i]] = <<>>
      BY <1>1, <2>2, <3>1, <3>2 DEF GroupsHold, Fresh
    <3>4. groups[d][i] # t /\ groups[d][i] \in Task
      BY <1>11, <2>2, <3>1, <3>3, MemberTyped
    <3>. QED
      BY <1>13, <3>3, <3>4
  <2>. QED
    BY <1>1, <1>3, <1>6, <2>1, <2>2 DEF Fresh
<1>23. ASSUME NEW k \in 0 .. J PROVE Fit(Pairs(Crew(k)', opened'), Low(k)', High(k)')
  <2>1. k \in 0 .. K /\ k # K
    BY <1>2, <1>5, <1>23
  <2>2. Fit(Pairs(Crew(k), opened), Low(k), High(k)) /\ Low(k) \in Int /\ High(k) \in Int
    BY <1>1, <1>2, <2>1, NumbersTyped DEF GroupsHold, Roomy, Brackets
  <2>3. PICK C, o, q : C = Crew(k) /\ o = opened /\ q = opened'
    OBVIOUS
  <2>4. PICK lo \in Int, hi \in Int : lo = Low(k) /\ hi = High(k)
    BY <2>2
  <2>5. C \subseteq Task
    BY <1>1, <1>2, <2>1, <2>3, CrewTyped
  <2>6. CASE k = J
    <3>1. hi = D /\ High(k)' = D - 1
      BY <1>1, <1>3, <1>4, <1>6, <1>7, <2>1, <2>4, <2>6 DEF High
    <3>2. t \in C /\ (\A u \in C : u # t => q[u] = o[u])
      BY <1>8, <1>13, <2>3, <2>5, <2>6
    <3>3. o[t] \in Seq(Nursery) /\ o[t] # <<>> /\ q[t] = Front(o[t])
      BY <1>11, <1>13, <2>3
    <3>4. PICK x : x = <<t, Len(o[t])>>
      OBVIOUS
    <3>5. Pairs(C, q) = Pairs(C, o) \ {x}
      <4>1. Pairs(C, q) = Pairs(C, o) \ {<<t, Len(o[t])>>}
        BY <3>2, <3>3, PairsOneLess
      <4>. QED
        BY <3>4, <4>1
    <3>6. x \in Pairs(C, o)
      <4>1. Len(o[t]) \in 1 .. Len(o[t])
        BY <1>11, <2>3
      <4>. QED
        BY <3>2, <3>4, <4>1, InPairs
    <3>7. Fit(Pairs(C, o), lo, hi)
      BY <2>2, <2>3, <2>4
    <3>8. Fit(Pairs(C, o) \ {x}, lo, hi - 1)
      BY <2>4, <3>6, <3>7, FitOneLess
    <3>. QED
      BY <1>16, <1>23, <2>3, <2>4, <3>1, <3>5, <3>8
  <2>7. CASE k # J
    <3>1. k < J /\ k + 1 \in 1 .. J
      BY <1>23, <2>7
    <3>2. High(k)' = High(k)
      BY <1>1, <1>6, <2>1, <2>7, <3>1 DEF High
    <3>3. \A u \in C : q[u] = o[u]
      BY <1>13, <1>17, <1>23, <2>3, <2>5, <3>1
    <3>4. Pairs(C, q) = Pairs(C, o)
      BY <3>3, PairsSame
    <3>. QED
      BY <1>16, <1>23, <2>2, <2>3, <3>2, <3>4
  <2>. QED
    BY <2>6, <2>7
<1>24. Roomy'
  BY <1>1, <1>6, <1>23 DEF Roomy, Brackets
<1>25. TasksTyped'
  BY <1>13, <1>14 DEF TasksTyped
<1>. QED
  BY <1>15, <1>18, <1>20, <1>21, <1>22, <1>24, <1>25 DEF GroupsHold

-----------------------------------------------------------------------------
(* The groups: the theorem *)

SmallGroups == \A d \in 1 .. MaxDepth : Len(groups[d]) <= MaxTasks
GroupsInv   == code \in Programs /\ VerdictInv /\ GroupInv /\ SmallGroups

LEMMA EndsHolds ==
  ASSUME code \in Programs, GroupsOK, LoopsOK, GroupsHold, NEW t \in Task, Ends(t), outcome = "running",
         outcome' = "running", code' = code, pc' = pc, opened' = opened
  PROVE  GroupsHold'
<1>1. loops # <<>>
  BY DEF Ends
<1>2. PICK l : l = [Top EXCEPT !.done = Top.done \union {Top.at}, !.at = Top.at + 1, !.progressed = Ran(t)]
  OBVIOUS
<1>3. /\ loops' = Append(Front(loops), l) /\ picking'
      /\ groups' = groups /\ depth' = depth
  BY <1>1, <1>2 DEF Ends, SetTop
<1>4. Top \in Loop
  BY <1>1, TopTyped
<1>5. l.g = Top.g /\ l.n = Top.n /\ l.owner = Top.owner /\ Top.done \subseteq l.done
  BY <1>2, <1>4 DEF Loop
<1>. QED
  BY <1>1, <1>3, <1>5, TurnHolds

LEMMA YieldsHolds ==
  ASSUME code \in Programs, GroupsOK, LoopsOK, GroupsHold, NEW t \in Task, Yields(t), outcome = "running",
         outcome' = "running", code' = code
  PROVE  GroupsHold'
<1>1. loops # <<>>
  BY DEF Yields
<1>2. PICK l : l = [Top EXCEPT !.at = Top.at + 1, !.progressed = Ran(t)]
  OBVIOUS
<1>3. /\ loops' = Append(Front(loops), l) /\ picking'
      /\ groups' = groups /\ depth' = depth /\ pc' = pc /\ opened' = opened
  BY <1>1, <1>2 DEF Yields, SetTop
<1>4. Top \in Loop
  BY <1>1, TopTyped
<1>5. l.g = Top.g /\ l.n = Top.n /\ l.owner = Top.owner /\ Top.done \subseteq l.done
  BY <1>2, <1>4 DEF Loop
<1>. QED
  BY <1>1, <1>3, <1>5, TurnHolds

LEMMA ResumeHolds ==
  ASSUME code \in Programs, GroupsOK, LoopsOK, loops # <<>>, GroupsHold, Resume
  PROVE  GroupsHold'
<1>1. PICK i \in Upcoming(Top) : /\ SetTop([Top EXCEPT !.at = i])
                                 /\ current' = TaskAt(Top, i)
  BY DEF Resume
<1>2. PICK l : l = [Top EXCEPT !.at = i]
  OBVIOUS
<1>3. /\ loops' = Append(Front(loops), l) /\ groups' = groups /\ depth' = depth
      /\ code' = code /\ pc' = pc /\ opened' = opened
  BY <1>1, <1>2 DEF Resume, SetTop, history
<1>4. Top \in Loop
  BY TopTyped
<1>5. l.g = Top.g /\ l.n = Top.n /\ l.owner = Top.owner /\ l.done = Top.done /\ l.at = i
  BY <1>2, <1>4 DEF Loop
<1>6. l.at \in 1 .. l.n /\ l.at \notin l.done
  BY <1>1, <1>5 DEF Upcoming, Runnable
<1>7. current' = groups[l.g][l.at]
  BY <1>1, <1>5 DEF TaskAt
<1>. QED
  BY <1>3, <1>5, <1>6, <1>7, TurnHolds

LEMMA PassHolds ==
  ASSUME code \in Programs, GroupsOK, LoopsOK, loops # <<>>, GroupsHold, NextPass
  PROVE  GroupsHold'
<1>1. PICK l : l = [Top EXCEPT !.at = 1, !.progressed = ProgressReset(Top)]
  OBVIOUS
<1>2. /\ loops' = Append(Front(loops), l) /\ picking' /\ groups' = groups /\ depth' = depth
      /\ code' = code /\ pc' = pc /\ opened' = opened
  BY <1>1 DEF NextPass, EndOfPass, InLoop, SetTop, history
<1>3. Top \in Loop
  BY TopTyped
<1>4. l.g = Top.g /\ l.n = Top.n /\ l.owner = Top.owner /\ Top.done \subseteq l.done
  BY <1>1, <1>3 DEF Loop
<1>. QED
  BY <1>2, <1>4, TurnHolds

LEMMA TaskHolds ==
  ASSUME code \in Programs, ProgramOK, GroupsOK, LoopsOK, GroupsHold, outcome = "running",
         NEW t \in Task, Step(t), outcome' = "running"
  PROVE  GroupsHold'
<1>1. CASE SendClosed(t) \/ Fail(t)
  BY <1>1 DEF SendClosed, Fail, Fails
<1>2. CASE SendBlocks(t) \/ RecvBlocks(t)
  BY <1>2, YieldsHolds DEF SendBlocks, RecvBlocks
<1>3. CASE \/ SendPuts(t) \/ RecvTakes(t) \/ Poll(t) \/ Close(t)
           \/ (CallBuiltin(t) /\ ~exiting)
  <2>1. /\ ~picking /\ t = current /\ pc[t] \in DOMAIN code[t]
        /\ Op(t).op \in {"send", "recv", "poll", "close", "builtin"}
        /\ code' = code /\ pc' = [pc EXCEPT ![t] = pc[t] + 1]
        /\ loops' = loops /\ picking' = picking
        /\ current' = current /\ depth' = depth /\ groups' = groups /\ opened' = opened
    BY <1>3 DEF SendPuts, RecvTakes, Poll, Close, CallBuiltin, Running, Advance, sched, history
  <2>. QED
    BY <2>1, QuietHolds
<1>4. CASE Open(t)
  BY <1>4, OpenHolds
<1>5. CASE Spawn(t)
  BY <1>5, SpawnHolds
<1>6. CASE Join(t)
  BY <1>6, JoinHolds
<1>7. CASE Leave(t)
  BY <1>7, LeaveHolds
<1>8. CASE Return(t) \/ Exit(t) \/ (CallBuiltin(t) /\ exiting)
  <2>1. Ends(t) /\ code' = code /\ pc' = pc /\ opened' = opened
    BY <1>8 DEF Return, Exit, CallBuiltin, history
  <2>. QED
    BY <2>1, EndsHolds
<1>. QED
  BY <1>1, <1>2, <1>3, <1>4, <1>5, <1>6, <1>7, <1>8 DEF Step

LEMMA LoopHolds ==
  ASSUME code \in Programs, ProgramOK, GroupsOK, LoopsOK, PassesStartOver, GroupsHold, Schedule,
         outcome' = "running"
  PROVE  GroupsHold'
<1>1. loops # <<>>
  BY DEF Schedule, Resume, NextPass, Deadlock, EndNursery, EndOfPass, InLoop, PassesStartOver
<1>2. ~Deadlock
  BY DEF Deadlock, Fails
<1>3. Resume => GroupsHold'
  BY <1>1, ResumeHolds
<1>4. NextPass => GroupsHold'
  BY <1>1, PassHolds
<1>5. EndNursery => GroupsHold'
  BY <1>1, EndHolds
<1>. QED
  BY <1>2, <1>3, <1>4, <1>5 DEF Schedule

LEMMA SameHolds ==
  ASSUME GroupsHold, UNCHANGED vars
  PROVE  GroupsHold'
<1>1. /\ code' = code /\ pc' = pc /\ depth' = depth /\ groups' = groups /\ loops' = loops
      /\ picking' = picking /\ current' = current /\ opened' = opened
  BY DEF vars, sched, history
<1>2. \A k : Crew(k)' = Crew(k) /\ Runner(k)' = Runner(k) /\ Low(k)' = Low(k) /\ High(k)' = High(k)
  BY <1>1, SameLoop DEF High
<1>3. \A u : (Joining(u)' <=> Joining(u)) /\ (Spawned(u)' <=> Spawned(u))
  BY <1>1 DEF Joining, Op, Spawned
<1>4. Stacked'
  BY <1>1, <1>2, <1>3 DEF GroupsHold, Stacked, Remaining
<1>5. OneGroup' /\ TasksTyped' /\ Counted'
  BY <1>1 DEF GroupsHold, OneGroup, TasksTyped, Counted
<1>6. GroupsSpawned'
  <2>1. \A d \in 1 .. depth : \A i \in 1 .. Len(groups[d]) : Spawned(groups[d][i])
    BY DEF GroupsHold, GroupsSpawned
  <2>. QED
    BY <1>1, <2>1 DEF GroupsSpawned, Spawned
<1>7. Fresh'
  BY <1>1, <1>3 DEF GroupsHold, Fresh
<1>8. Roomy'
  <2>1. \A k \in 0 .. Len(loops) : Fit(Pairs(Crew(k), opened), Low(k), High(k))
    BY DEF GroupsHold, Roomy, Brackets
  <2>2. \A k \in 0 .. Len(loops) : Fit(Pairs(Crew(k)', opened'), Low(k)', High(k)')
    BY <1>1, <1>2, <2>1
  <2>. QED
    BY <1>1, <2>2 DEF Roomy, Brackets
<1>. QED
  BY <1>4, <1>5, <1>6, <1>7, <1>8 DEF GroupsHold

\* Nothing but a spawn makes a group longer, and it looks first.
LEMMA SmallStep ==
  ASSUME GroupsOK, SmallGroups, [Next]_vars
  PROVE  SmallGroups'
<1>1. CASE groups' = groups
  BY <1>1 DEF SmallGroups
<1>2. ASSUME NEW t \in Task, Open(t), groups' # groups PROVE SmallGroups'
  <2>1. groups' = [groups EXCEPT ![depth + 1] = <<>>]
    BY <1>2 DEF Open, Fails
  <2>2. \A d \in 1 .. MaxDepth : groups'[d] = groups[d] \/ groups'[d] = <<>>
    BY <2>1 DEF GroupsOK
  <2>3. 0 <= MaxTasks
    BY TaskAssumption DEF TaskAssumption
  <2>. QED
    BY <2>2, <2>3 DEF SmallGroups
<1>3. ASSUME NEW t \in Task, Spawn(t), groups' # groups PROVE SmallGroups'
  <2>1. /\ groups' = [groups EXCEPT ![depth] = Append(groups[depth], Op(t).child)]
        /\ depth > 0 /\ Len(groups[depth]) < MaxTasks
    BY <1>3, TaskAssumption, GroupTyped DEF Spawn, TooMany, Fails, TaskAssumption, GroupsOK
  <2>2. groups[depth] \in Seq(Task)
    BY <2>1, GroupTyped
  <2>3. Len(Append(groups[depth], Op(t).child)) <= MaxTasks
    BY <2>1, <2>2, TaskAssumption DEF TaskAssumption
  <2>. QED
    BY <2>1, <2>3 DEF SmallGroups, GroupsOK
<1>4. ASSUME NEW t \in Task, Step(t), groups' # groups PROVE Open(t) \/ Spawn(t)
  BY <1>4 DEF Step, SendClosed, SendBlocks, SendPuts, RecvBlocks, RecvTakes, Poll, Close, Join, Leave,
     Return, Fail, Exit, CallBuiltin, Yields, Ends, Fails, sched
<1>5. Schedule \/ UNCHANGED vars => groups' = groups
  BY DEF Schedule, Resume, NextPass, Deadlock, EndNursery, Fails, vars, sched
<1>. QED
  BY <1>1, <1>2, <1>3, <1>4, <1>5 DEF Next, Over

LEMMA GroupsInvStep ==
  ASSUME GroupsInv, [Next]_vars
  PROVE  GroupsInv'
<1>1. VerdictInv' /\ SmallGroups' /\ code' \in Programs
  <2>1. code' = code
    BY CodeFixed
  <2>. QED
    BY <2>1, VerdictInvStep, SmallStep DEF GroupsInv, VerdictInv
<1>2. ASSUME outcome' = "running" PROVE GroupsHold'
  <2>1. CASE UNCHANGED vars
    <3>1. outcome = "running"
      BY <1>2, <2>1 DEF vars
    <3>. QED
      BY <2>1, <3>1, SameHolds DEF GroupsInv, GroupInv
  <2>2. ASSUME NEW t \in Task, Step(t) PROVE GroupsHold'
    <3>1. outcome = "running"
      BY <2>2 DEF Step, SendClosed, SendBlocks, SendPuts, RecvBlocks, RecvTakes, Poll, Close, Open, Spawn,
         Join, Leave, Return, Fail, Exit, CallBuiltin, Running
    <3>. QED
      BY <1>2, <2>2, <3>1, TaskHolds DEF GroupsInv, GroupInv, VerdictInv
  <2>3. CASE Schedule
    <3>1. outcome = "running"
      BY <2>3 DEF Schedule, Resume, NextPass, Deadlock, EndNursery, EndOfPass, InLoop
    <3>. QED
      BY <1>2, <2>3, <3>1, LoopHolds DEF GroupsInv, GroupInv, VerdictInv
  <2>. QED
    BY <2>1, <2>2, <2>3 DEF Next, Over
<1>. QED
  BY <1>1, <1>2 DEF GroupsInv, GroupInv

LEMMA GroupsInvInit == ASSUME Init PROVE GroupsInv
<1>1. /\ code \in Programs /\ loops = <<>> /\ depth = 0 /\ ~picking /\ current = Main
      /\ groups = [d \in 1 .. MaxDepth |-> <<>>] /\ pc = [t \in Task |-> 1] /\ opened = [t \in Task |-> <<>>]
  BY DEF Init
<1>2. VerdictInv
  BY VerdictInvInit
<1>3. SmallGroups
  BY <1>1, TaskAssumption DEF SmallGroups, TaskAssumption
<1>4. Stacked /\ OneGroup /\ GroupsSpawned /\ TasksTyped /\ Len(loops) = 0
  BY <1>1 DEF Stacked, OneGroup, GroupsSpawned, TasksTyped, Runner
<1>5. Fresh
  BY <1>1 DEF Fresh
<1>6. Counted
  <2>1. ASSUME NEW t \in Task PROVE /\ pc[t] <= Len(code[t]) + 1
                                    /\ Len(opened[t]) + Closes(code[t], pc[t]) = Opens(code[t], pc[t])
    <3>1. code[t] \in Seq(Ops) /\ pc[t] = 1 /\ opened[t] = <<>>
      BY <1>1, <1>2, CodeTyped DEF VerdictInv
    <3>2. Closes(code[t], 1) = 0 /\ Opens(code[t], 1) = 0
      BY FS_EmptySet DEF Closes, Opens
    <3>. QED
      BY <3>1, <3>2
  <2>. QED
    BY <2>1 DEF Counted
<1>7. Roomy
  <2>1. Pairs(Crew(0), opened) = {} /\ Low(0) = 0 /\ High(0) = 0
    <3>1. \A t \in Crew(0) : opened[t] = <<>>
      BY <1>1, TaskAssumption DEF Crew, TaskAssumption
    <3>. QED
      BY <1>1, <1>4, <3>1, PairsNone DEF Low, High
  <2>2. Fit({}, 0, 0)
    BY FitNone
  <2>3. \A k \in 0 .. Len(loops) : k = 0
    BY <1>4
  <2>. QED
    BY <2>1, <2>2, <2>3 DEF Roomy, Brackets
<1>. QED
  BY <1>1, <1>2, <1>3, <1>4, <1>5, <1>6, <1>7 DEF GroupsInv, GroupInv, GroupsHold

\* What a loop iterates stays as it was while its tasks run: whatever nurseries the
\* tasks of one group open, leave and suspend in, the levels they take are above
\* the loop's (vm.c:4171), and no group outgrows its array (vm.c:4075).
THEOREM LoopsKeepTheirGroups == Spec => []GroupsIntact
<1>1. Init => GroupsInv
  BY GroupsInvInit
<1>2. GroupsInv => GroupsIntact
  <2>. SUFFICES ASSUME GroupsInv, outcome = "running" PROVE GroupsIntact
    BY DEF GroupsIntact
  <2>1. /\ GroupsHold /\ Stacked /\ TasksTyped /\ Counted /\ ProgramOK /\ GroupsOK /\ LoopsOK
        /\ code \in Programs
    BY DEF GroupsInv, GroupInv, VerdictInv, GroupsHold
  <2>2. \A d \in 1 .. MaxDepth : Len(groups[d]) <= MaxTasks
    BY DEF GroupsInv, SmallGroups
  <2>3. Len(loops) \in Nat /\ DOMAIN loops = 1 .. Len(loops)
    BY <2>1 DEF LoopsOK
  <2>4. \A i, j \in DOMAIN loops : i < j => loops[i].g < loops[j].g
    BY <2>1, <2>3 DEF Stacked
  <2>5. loops # <<>> => /\ Len(loops) \in 1 .. Len(loops) /\ Top = loops[Len(loops)] /\ Low(Len(loops)) = Top.g
    BY <2>1, <2>3 DEF Top, Last, Low, LoopsOK
  <2>6. loops # <<>> => Top.g <= depth /\ Len(groups[Top.g]) >= Top.n
    <3>1. SUFFICES ASSUME loops # <<>> PROVE Top.g <= depth /\ Len(groups[Top.g]) >= Top.n
      OBVIOUS
    <3>2. Top.g <= depth /\ Top.n <= Len(groups[Top.g]) /\ Top.n \in Nat /\ Len(groups[Top.g]) \in Nat
      BY <2>1, <2>5, <3>1, LoopTyped DEF Stacked, Loop
    <3>. QED
      BY <3>2
  <2>7. ASSUME NEW t \in Task, Running(t, "join") PROVE depth > 0 /\ (loops # <<>> => Top.g < depth)
    <3>1. ~picking /\ t = current /\ opened[t] # <<>>
      BY <2>1, <2>7, OpenedSome DEF Running
    <3>2. Low(Len(loops)) < depth
      BY <2>1, <3>1, LevelLeft
    <3>3. Low(Len(loops)) \in Nat /\ depth \in Nat
      <4>1. CASE loops = <<>>
        BY <2>1, <4>1, NumbersTyped DEF Low
      <4>2. CASE loops # <<>>
        BY <2>1, <2>5, <4>2, LoopTyped, NumbersTyped DEF Low
      <4>. QED
        BY <4>1, <4>2
    <3>. QED
      BY <2>5, <3>2, <3>3
  <2>. QED
    BY <2>2, <2>4, <2>6, <2>7 DEF GroupsIntact
<1>. QED
  BY <1>1, <1>2, GroupsInvStep, PTL DEF Spec

-----------------------------------------------------------------------------
(* What a nursery promises *)

\* The body whose statements run, or that waits for the loop inside it.
Active(k) == k < Len(loops) \/ ~picking

\* A nursery has been entered when the opening of its body has been executed.
Entered(n) ==
  \E t \in Task : \E i \in DOMAIN code[t] :
    i < pc[t] /\ code[t][i].op = "open" /\ code[t][i].n = n

\* A nursery is open in one place, until it is left.
NamesApart ==
  /\ \A t, u \in Task : \A i \in 1 .. Len(opened[t]), j \in 1 .. Len(opened[u]) :
       opened[t][i] = opened[u][j] => t = u /\ i = j
  /\ \A t \in Task : \A i \in 1 .. Len(opened[t]) : Entered(opened[t][i]) /\ opened[t][i] \notin left
  /\ \A n \in left : Entered(n)
  /\ \A t \in Task : home[t] = NoNursery \/ Entered(home[t])

InGroup(t, d) == \E i \in 1 .. Len(groups[d]) : groups[d][i] = t

\* Of the tasks that a loop may still run only the one it runs has a nursery open, at
\* the highest levels below the next loop's - all of them if no task has exited - where
\* the tasks of each are.
BodyHolds(k) ==
  /\ \A t \in Crew(k) : opened[t] # <<>> => Active(k) /\ t = Runner(k)
  /\ Active(k) =>
       /\ Low(k) + Len(opened[Runner(k)]) <= High(k)
       /\ ~exiting => Low(k) + Len(opened[Runner(k)]) = High(k)
       /\ \A i \in 1 .. Len(opened[Runner(k)]) : \A t \in Task :
            home[t] = opened[Runner(k)][i] /\ t \notin ended =>
              InGroup(t, High(k) - Len(opened[Runner(k)]) + i)

\* A loop has all the tasks of its group, and is done with those that have ended.
CompleteAt(k) ==
  /\ loops[k].n = Len(groups[loops[k].g])
  /\ \A i \in loops[k].done : i \in 1 .. loops[k].n /\ TaskAt(loops[k], i) \in ended

\* As long as no task has exited, those that have not ended are in the open levels.
Reached ==
  ~exiting =>
    /\ picking => depth = Low(Len(loops))
    /\ \A t \in Task : home[t] # NoNursery /\ t \notin ended => \E d \in 1 .. depth : InGroup(t, d)

ScopesHold == /\ \A k \in 0 .. Len(loops) : BodyHolds(k)
              /\ \A k \in 1 .. Len(loops) : CompleteAt(k)
              /\ Reached
ScopeInv   == /\ NamesApart
              /\ outcome = "running" /\ ~crossed => ScopesHold
              /\ TasksEndFirstUncrossed /\ ProgramIsStuck

-----------------------------------------------------------------------------
(* What a nursery promises: the names *)

LEMMA EnteredStays ==
  ASSUME ProgramOK, TasksTyped, NEW t \in Task, code' = code, pc' = [pc EXCEPT ![t] = pc[t] + 1],
         NEW n, Entered(n)
  PROVE  Entered(n)'
<1>1. pc \in [Task -> Nat \ {0}] /\ \A u \in Task : pc'[u] \in Nat /\ pc'[u] >= pc[u]
  BY DEF TasksTyped
<1>2. PICK u \in Task : \E i \in DOMAIN code[u] : i < pc[u] /\ code[u][i].op = "open" /\ code[u][i].n = n
  BY DEF Entered
<1>3. PICK i \in DOMAIN code[u] : i < pc[u] /\ code[u][i].op = "open" /\ code[u][i].n = n
  BY <1>2
<1>4. i \in Nat /\ pc[u] \in Nat
  BY <1>1, <1>3, CodeTyped
<1>5. i < pc'[u]
  BY <1>1, <1>3, <1>4
<1>. QED
  BY <1>3, <1>5 DEF Entered

\* An opening enters a nursery that no opening has entered yet.
LEMMA NurseryIsNew ==
  ASSUME code \in Programs, ProgramOK, TasksTyped, NEW t \in Task, pc[t] \in DOMAIN code[t],
         Op(t).op = "open"
  PROVE  Op(t).n \in Nursery /\ ~Entered(Op(t).n)
<1>1. Op(t) = code[t][pc[t]] /\ pc[t] \in Nat \ {0}
  BY DEF Op, TasksTyped
<1>2. ASSUME NEW u \in Task, NEW i \in DOMAIN code[u], code[u][i].op = "open"
      PROVE  code[u][i] = [op |-> "open", n |-> code[u][i].n] /\ code[u][i].n \in Nursery
  <2>1. code[u][i] \in Ops
    BY <1>2 DEF ProgramOK
  <2>. QED
    BY <1>2, <2>1 DEF Ops
<1>3. ASSUME NEW u \in Task, NEW i \in DOMAIN code[u], i < pc[u], code[u][i].op = "open",
             code[u][i].n = Op(t).n
      PROVE  FALSE
  <2>1. code[u][i] = code[t][pc[t]]
    <3>1. code[u][i] = [op |-> "open", n |-> Op(t).n]
      BY <1>2, <1>3
    <3>2. code[t][pc[t]] = [op |-> "open", n |-> Op(t).n]
      BY <1>1, <1>2
    <3>. QED
      BY <3>1, <3>2
  <2>2. u = t /\ i = pc[t]
    BY <1>1, <1>3, <2>1, ProgramAssumption
  <2>. QED
    BY <1>1, <1>3, <2>2
<1>. QED
  BY <1>1, <1>2, <1>3 DEF Entered

LEMMA NamesKept ==
  ASSUME NamesApart, \A n : Entered(n) => Entered(n)', opened' = opened, home' = home, left' = left
  PROVE  NamesApart'
<1>1. ASSUME NEW u \in Task, NEW i \in 1 .. Len(opened'[u]), NEW m, m = opened'[u][i]
      PROVE  Entered(m)' /\ m \notin left'
  BY <1>1 DEF NamesApart
<1>2. ASSUME NEW m \in left' PROVE Entered(m)'
  BY <1>2 DEF NamesApart
<1>3. \A u, v \in Task : \A i \in 1 .. Len(opened'[u]), j \in 1 .. Len(opened'[v]) :
         opened'[u][i] = opened'[v][j] => u = v /\ i = j
  BY DEF NamesApart
<1>4. ASSUME NEW u \in Task, NEW m, m = home'[u] PROVE m = NoNursery \/ Entered(m)'
  BY <1>4 DEF NamesApart
<1>. QED
  BY <1>1, <1>2, <1>3, <1>4 DEF NamesApart, Entered

LEMMA NamesLeft ==
  ASSUME NamesApart, TasksTyped, \A n : Entered(n) => Entered(n)', NEW t \in Task, opened[t] # <<>>,
         opened' = [opened EXCEPT ![t] = Front(opened[t])], home' = home,
         left' = left \union {Last(opened[t])}
  PROVE  NamesApart'
<1>1. PICK o, n, N : o = opened[t] /\ n = Len(opened[t]) /\ N = Last(opened[t])
  OBVIOUS
<1>2. opened \in [Task -> Seq(Nursery)] /\ o \in Seq(Nursery) /\ o # <<>> /\ n \in Nat /\ n > 0 /\ N = o[n]
  BY <1>1 DEF TasksTyped, Last
<1>3. Len(Front(o)) = n - 1 /\ \A i \in 1 .. (n - 1) : Front(o)[i] = o[i]
  BY <1>1, <1>2 DEF Front
<1>4. opened'[t] = Front(o) /\ \A u \in Task : u # t => opened'[u] = opened[u]
  BY <1>1, <1>2
<1>5. ASSUME NEW u \in Task, NEW i \in 1 .. Len(opened'[u])
      PROVE  i \in 1 .. Len(opened[u]) /\ opened'[u][i] = opened[u][i] /\ ~(u = t /\ i = n)
  <2>1. CASE u = t
    BY <1>1, <1>2, <1>3, <1>4, <1>5, <2>1
  <2>2. CASE u # t
    BY <1>4, <1>5, <2>2
  <2>. QED
    BY <2>1, <2>2
<1>6. \A u \in Task : \A i \in 1 .. Len(opened[u]) : opened[u][i] = N => u = t /\ i = n
  <2>1. n \in 1 .. Len(opened[t]) /\ opened[t][n] = N
    BY <1>1, <1>2
  <2>. QED
    BY <2>1 DEF NamesApart
<1>7. Entered(N)
  <2>1. n \in 1 .. Len(opened[t]) /\ opened[t][n] = N
    BY <1>1, <1>2
  <2>. QED
    BY <2>1 DEF NamesApart
<1>8. ASSUME NEW u \in Task, NEW i \in 1 .. Len(opened'[u]), NEW m, m = opened'[u][i]
      PROVE  Entered(m)' /\ m \notin left'
  <2>1. i \in 1 .. Len(opened[u]) /\ m = opened[u][i] /\ m # N
    BY <1>5, <1>6, <1>8
  <2>. QED
    BY <1>1, <1>8, <2>1 DEF NamesApart
<1>9. ASSUME NEW m \in left' PROVE Entered(m)'
  BY <1>1, <1>7, <1>9 DEF NamesApart
<1>10. ASSUME NEW u \in Task, NEW m, m = home'[u] PROVE m = NoNursery \/ Entered(m)'
  BY <1>10 DEF NamesApart
<1>11. \A u, v \in Task : \A i \in 1 .. Len(opened'[u]), j \in 1 .. Len(opened'[v]) :
         opened'[u][i] = opened'[v][j] => u = v /\ i = j
  BY <1>5 DEF NamesApart
<1>12. \A u \in Task : \A i \in 1 .. Len(opened'[u]) : Entered(opened[u][i])' /\ opened'[u][i] \notin left'
  BY <1>8 DEF Entered
<1>13. \A m \in left' : Entered(m)'
  BY <1>9
<1>14. \A u \in Task : home'[u] = NoNursery \/ Entered(home[u])'
  BY <1>10 DEF Entered
<1>. QED
  BY <1>11, <1>12, <1>13, <1>14 DEF NamesApart

LEMMA NamesOpened ==
  ASSUME NamesApart, TasksTyped, \A n : Entered(n) => Entered(n)', NEW t \in Task,
         NEW N \in Nursery, ~Entered(N), Entered(N)',
         opened' = [opened EXCEPT ![t] = Append(opened[t], N)], home' = home, left' = left
  PROVE  NamesApart'
<1>1. PICK o, n : o = opened[t] /\ n = Len(opened[t])
  OBVIOUS
<1>2. opened \in [Task -> Seq(Nursery)] /\ o \in Seq(Nursery) /\ n \in Nat
  BY <1>1 DEF TasksTyped
<1>3. Len(Append(o, N)) = n + 1 /\ Append(o, N)[n + 1] = N /\ \A i \in 1 .. n : Append(o, N)[i] = o[i]
  BY <1>1, <1>2
<1>4. opened'[t] = Append(o, N) /\ \A u \in Task : u # t => opened'[u] = opened[u]
  BY <1>1, <1>2
<1>5. ASSUME NEW u \in Task, NEW i \in 1 .. Len(opened'[u])
      PROVE  \/ i \in 1 .. Len(opened[u]) /\ opened'[u][i] = opened[u][i] /\ opened'[u][i] # N
             \/ u = t /\ i = n + 1 /\ opened'[u][i] = N
  <2>1. \A j \in 1 .. Len(opened[u]) : opened[u][j] # N
    BY DEF NamesApart
  <2>2. CASE u = t
    BY <1>1, <1>2, <1>3, <1>4, <1>5, <2>1, <2>2
  <2>3. CASE u # t
    BY <1>4, <1>5, <2>1, <2>3
  <2>. QED
    BY <2>2, <2>3
<1>6. N \notin left
  BY DEF NamesApart
<1>7. ASSUME NEW u \in Task, NEW i \in 1 .. Len(opened'[u]), NEW m, m = opened'[u][i]
      PROVE  Entered(m)' /\ m \notin left'
  BY <1>5, <1>6, <1>7 DEF NamesApart
<1>8. ASSUME NEW m \in left' PROVE Entered(m)'
  BY <1>8 DEF NamesApart
<1>9. ASSUME NEW u \in Task, NEW m, m = home'[u] PROVE m = NoNursery \/ Entered(m)'
  BY <1>9 DEF NamesApart
<1>10. \A u, v \in Task : \A i \in 1 .. Len(opened'[u]), j \in 1 .. Len(opened'[v]) :
         opened'[u][i] = opened'[v][j] => u = v /\ i = j
  BY <1>5 DEF NamesApart
<1>11. \A u \in Task : \A i \in 1 .. Len(opened'[u]) : Entered(opened[u][i])' /\ opened'[u][i] \notin left'
  BY <1>7 DEF Entered
<1>12. \A m \in left' : Entered(m)'
  BY <1>8
<1>13. \A u \in Task : home'[u] = NoNursery \/ Entered(home[u])'
  BY <1>9 DEF Entered
<1>. QED
  BY <1>10, <1>11, <1>12, <1>13 DEF NamesApart

LEMMA NamesSpawned ==
  ASSUME NamesApart, TasksTyped, \A n : Entered(n) => Entered(n)', NEW t \in Task,
         \A u \in Task : home'[u] = home[u] \/ home'[u] = Scope(t), opened' = opened, left' = left
  PROVE  NamesApart'
<1>1. Scope(t) = NoNursery \/ Entered(Scope(t))
  <2>1. CASE opened[t] = <<>>
    BY <2>1 DEF Scope, NamesApart
  <2>2. CASE opened[t] # <<>>
    <3>1. Len(opened[t]) \in 1 .. Len(opened[t])
      BY <2>2 DEF TasksTyped
    <3>2. Scope(t) = opened[t][Len(opened[t])]
      BY <2>2 DEF Scope, Last
    <3>. QED
      BY <3>1, <3>2 DEF NamesApart
  <2>. QED
    BY <2>1, <2>2
<1>3. ASSUME NEW u \in Task, NEW m, m = home'[u] PROVE m = NoNursery \/ Entered(m)'
  BY <1>1, <1>3 DEF NamesApart
<1>4. ASSUME NEW u \in Task, NEW i \in 1 .. Len(opened'[u]), NEW m, m = opened'[u][i]
      PROVE  Entered(m)' /\ m \notin left'
  BY <1>4 DEF NamesApart
<1>5. ASSUME NEW m \in left' PROVE Entered(m)'
  BY <1>5 DEF NamesApart
<1>6. \A u, v \in Task : \A i \in 1 .. Len(opened'[u]), j \in 1 .. Len(opened'[v]) :
         opened'[u][i] = opened'[v][j] => u = v /\ i = j
  BY DEF NamesApart
<1>. QED
  BY <1>3, <1>4, <1>5, <1>6 DEF NamesApart, Entered

-----------------------------------------------------------------------------
(* What a nursery promises: the bodies *)

BodyAt(k, r, lo, hi, n) ==
  /\ \A t \in Crew(k) : opened[t] # <<>> => Active(k) /\ t = Runner(k)
  /\ Active(k) => /\ Runner(k) = r /\ Low(k) = lo /\ High(k) = hi /\ Len(opened[r]) = n
                  /\ lo + n <= hi
                  /\ ~exiting => lo + n = hi
                  /\ \A i \in 1 .. n : \A t \in Task :
                       home[t] = opened[r][i] /\ t \notin ended =>
                         \E j \in 1 .. Len(groups[hi - n + i]) : groups[hi - n + i][j] = t

LEMMA BodyIntro ==
  ASSUME NEW k, NEW r, NEW lo \in Int, NEW hi \in Int, NEW n \in Nat, BodyAt(k, r, lo, hi, n)'
  PROVE  BodyHolds(k)'
<1>1. CASE ~Active(k)'
  BY <1>1 DEF BodyAt, BodyHolds
<1>2. CASE Active(k)'
  <2>1. /\ Runner(k)' = r /\ Low(k)' = lo /\ High(k)' = hi /\ Len(opened'[r]) = n
        /\ lo + n <= hi /\ (~exiting' => lo + n = hi)
        /\ \A t \in Crew(k)' : opened'[t] # <<>> => Active(k)' /\ t = Runner(k)'
    BY <1>2 DEF BodyAt
  <2>2. \A i \in 1 .. n : \A t \in Task : home'[t] = opened'[r][i] /\ t \notin ended' =>
          \E j \in 1 .. Len(groups'[hi - n + i]) : groups'[hi - n + i][j] = t
    BY <1>2 DEF BodyAt
  <2>3. /\ Low(k)' + Len(opened'[Runner(k)']) <= High(k)'
        /\ ~exiting' => Low(k)' + Len(opened'[Runner(k)']) = High(k)'
    BY <2>1
  <2>4. \A i \in 1 .. Len(opened'[Runner(k)']) : \A t \in Task :
          home'[t] = opened'[Runner(k)'][i] /\ t \notin ended' =>
            \E j \in 1 .. Len(groups'[High(k)' - Len(opened'[Runner(k)']) + i]) :
              groups'[High(k)' - Len(opened'[Runner(k)']) + i][j] = t
    BY <2>1, <2>2
  <2>. QED
    BY <2>1, <2>3, <2>4 DEF BodyHolds, InGroup
<1>. QED
  BY <1>1, <1>2

LEMMA BodyKept ==
  ASSUME NEW k, BodyHolds(k), Low(k) \in Int, High(k) \in Int,
         Crew(k)' \subseteq Crew(k), Low(k)' = Low(k), High(k)' = High(k), Active(k)' <=> Active(k),
         \A t \in Crew(k)' : opened'[t] = opened[t],
         Active(k) => /\ Runner(k)' = Runner(k)
                      /\ opened'[Runner(k)] = opened[Runner(k)] /\ Len(opened[Runner(k)]) \in Nat,
         ~exiting' => ~exiting,
         \A t \in Task : t \notin ended' => t \notin ended,
         Active(k) => \A t \in Task : \A i \in 1 .. Len(opened[Runner(k)]) :
                        home'[t] = opened[Runner(k)][i] => home[t] = home'[t],
         \A t : \A d \in (Low(k) + 1) .. High(k) : InGroup(t, d) => InGroup(t, d)'
  PROVE  BodyHolds(k)'
<1>1. \A t \in Crew(k)' : opened'[t] # <<>> => Active(k)' /\ t = Runner(k)'
  BY DEF BodyHolds
<1>2. CASE ~Active(k)
  BY <1>1, <1>2 DEF BodyHolds
<1>3. CASE Active(k)
  <2>1. PICK r : r = Runner(k)
    OBVIOUS
  <2>2. PICK lo \in Int, hi \in Int, n \in Nat : lo = Low(k) /\ hi = High(k) /\ n = Len(opened[r])
    BY <1>3, <2>1
  <2>3. /\ Runner(k)' = r /\ Low(k)' = lo /\ High(k)' = hi /\ opened'[r] = opened[r] /\ Len(opened'[r]) = n
    BY <1>3, <2>1, <2>2
  <2>4. /\ lo + n <= hi
        /\ ~exiting => lo + n = hi
        /\ \A i \in 1 .. n : \A t \in Task :
             home[t] = opened[r][i] /\ t \notin ended => InGroup(t, hi - n + i)
    BY <1>3, <2>1, <2>2 DEF BodyHolds
  <2>5. ASSUME NEW i \in 1 .. n, NEW t \in Task, home'[t] = opened'[r][i], t \notin ended',
               NEW d \in Int, d = hi - n + i
        PROVE  InGroup(t, d)'
    <3>1. home[t] = opened[r][i] /\ t \notin ended
      BY <1>3, <2>1, <2>2, <2>3, <2>5
    <3>2. InGroup(t, d)
      BY <2>4, <2>5, <3>1
    <3>3. d \in (lo + 1) .. hi
      BY <2>2, <2>4, <2>5
    <3>. QED
      BY <2>2, <3>2, <3>3
  <2>6. lo + n <= hi /\ (~exiting' => lo + n = hi)
    BY <2>4
  <2>7. \A i \in 1 .. n : \A t \in Task : \A d \in Int :
          d = hi - n + i /\ home'[t] = opened'[r][i] /\ t \notin ended' => InGroup(t, d)'
    BY <2>5
  <2>8. \A i \in 1 .. n : hi - n + i \in Int
    BY <2>2
  <2>9. BodyAt(k, r, lo, hi, n)'
    BY <1>1, <1>3, <2>3, <2>6, <2>7, <2>8 DEF BodyAt, InGroup
  <2>. QED
    BY <2>2, <2>9, BodyIntro
<1>. QED
  BY <1>2, <1>3

LEMMA CompleteKept ==
  ASSUME NEW k, CompleteAt(k), loops'[k] = loops[k], groups'[loops[k].g] = groups[loops[k].g],
         ended \subseteq ended'
  PROVE  CompleteAt(k)'
<1>1. PICK l : l = loops[k] /\ l = loops'[k]
  OBVIOUS
<1>2. l.n = Len(groups[l.g]) /\ \A i \in l.done : i \in 1 .. l.n /\ groups[l.g][i] \in ended
  BY <1>1 DEF CompleteAt, TaskAt
<1>3. groups'[l.g] = groups[l.g]
  BY <1>1
<1>. QED
  BY <1>1, <1>2, <1>3 DEF CompleteAt, TaskAt

\* What a body may assume of the task that runs in it.
LEMMA RunnerTyped ==
  ASSUME GroupsOK, LoopsOK, Stacked, TasksTyped, NEW k \in 0 .. Len(loops), Active(k)
  PROVE  Runner(k) \in Crew(k) /\ Runner(k) \in Task /\ opened[Runner(k)] \in Seq(Nursery)
         /\ Len(opened[Runner(k)]) \in Nat /\ Low(k) \in Int /\ High(k) \in Int
<1>1. Runner(k) \in Crew(k) /\ Runner(k) \in Task
  BY RunnerInCrew, CrewTyped DEF Active
<1>2. opened[Runner(k)] \in Seq(Nursery)
  BY <1>1 DEF TasksTyped
<1>. QED
  BY <1>1, <1>2, NumbersTyped

\* A step that leaves the bodies as they are.
LEMMA ScopesSame ==
  ASSUME GroupsOK, LoopsOK, Stacked, TasksTyped, ScopesHold, loops' = loops, picking' = picking, opened' = opened,
         home' = home, ended' = ended, groups' = groups, depth' = depth, exiting' = exiting
  PROVE  ScopesHold'
<1>1. \A k : Crew(k)' = Crew(k) /\ Runner(k)' = Runner(k) /\ Low(k)' = Low(k) /\ High(k)' = High(k)
             /\ (Active(k)' <=> Active(k))
  BY SameLoop DEF High, Active
<1>2. \A t, d : InGroup(t, d)' <=> InGroup(t, d)
  BY DEF InGroup
<1>3. ASSUME NEW k \in 0 .. Len(loops) PROVE BodyHolds(k)'
  <2>1. BodyHolds(k) /\ Low(k) \in Int /\ High(k) \in Int
    BY <1>3, NumbersTyped DEF ScopesHold
  <2>2. Active(k) => Len(opened[Runner(k)]) \in Nat
    BY <1>3, RunnerTyped
  <2>. QED
    BY <1>1, <1>2, <2>1, <2>2, BodyKept
<1>4. ASSUME NEW k \in 1 .. Len(loops) PROVE CompleteAt(k)'
  BY <1>4, CompleteKept DEF ScopesHold
<1>5. Reached'
  <2>1. ~exiting =>
          /\ picking => depth = Low(Len(loops))
          /\ \A t \in Task : home[t] # NoNursery /\ t \notin ended => \E d \in 1 .. depth : InGroup(t, d)
    BY DEF ScopesHold, Reached
  <2>2. Low(Len(loops))' = Low(Len(loops))
    BY <1>1
  <2>. QED
    BY <1>2, <2>1, <2>2 DEF Reached
<1>. QED
  BY <1>3, <1>4, <1>5 DEF ScopesHold

LEMMA LevelsWithin ==
  ASSUME GroupsOK, LoopsOK, Stacked, NEW k \in 0 .. Len(loops), NEW d \in (Low(k) + 1) .. High(k)
  PROVE  d \in 1 .. depth
<1>1. Len(loops) \in Nat /\ depth \in Nat /\ Low(k) \in Int /\ High(k) \in Int
  BY NumbersTyped
<1>2. Low(k) >= 0
  <2>1. CASE k = 0
    BY <2>1 DEF Low
  <2>2. CASE k # 0
    <3>1. k \in 1 .. Len(loops)
      BY <1>1, <2>2
    <3>. QED
      BY <1>1, <2>2, <3>1, LoopTyped DEF Low
  <2>. QED
    BY <2>1, <2>2
<1>3. High(k) <= depth
  <2>1. CASE k = Len(loops)
    BY <1>1, <2>1 DEF High
  <2>2. CASE k # Len(loops)
    <3>1. k + 1 \in 1 .. Len(loops)
      BY <1>1, <2>2
    <3>. QED
      BY <1>1, <2>2, <3>1, LoopTyped DEF High
  <2>. QED
    BY <2>1, <2>2
<1>. QED
  BY <1>1, <1>2, <1>3

HomesTyped == home \in [Task -> Nursery \union {NoNursery}] /\ left \subseteq Nursery

\* The bodies below that of the task that runs, when it executes a statement.
LEMMA BelowKept ==
  ASSUME code \in Programs, ProgramOK, GroupsOK, LoopsOK, GroupsHold, ScopesHold, ~picking,
         NEW t \in Task, t = current, NEW k \in 0 .. Len(loops), k # Len(loops),
         loops' = loops, picking' = picking, exiting' = exiting, ended' = ended,
         Crew(k)' = Crew(k), Runner(k)' = Runner(k), Low(k)' = Low(k), High(k)' = High(k),
         \A u \in Task \ {t} : opened'[u] = opened[u],
         \A u \in Task : \A i \in 1 .. Len(opened[Runner(k)]) :
           home'[u] = opened[Runner(k)][i] => home[u] = home'[u],
         \A u : \A d \in 1 .. depth : InGroup(u, d) => InGroup(u, d)'
  PROVE  BodyHolds(k)'
<1>1. Stacked /\ TasksTyped /\ Active(k) /\ Active(k)' /\ BodyHolds(k)
  BY DEF GroupsHold, ScopesHold, Active
<1>2. /\ Runner(k) \in Crew(k) /\ Len(opened[Runner(k)]) \in Nat
      /\ Low(k) \in Int /\ High(k) \in Int /\ Crew(k) \subseteq Task
  BY <1>1, RunnerTyped, CrewTyped
<1>3. t \notin Crew(k)
  <2>1. k \in 0 .. (Len(loops) - 1)
    BY <1>1, NumbersTyped
  <2>. QED
    BY <2>1, CurrentOnTop
<1>4. \A u \in Crew(k) : opened'[u] = opened[u]
  BY <1>2, <1>3
<1>5. \A u : \A d \in (Low(k) + 1) .. High(k) : InGroup(u, d) => InGroup(u, d)'
  BY <1>1, LevelsWithin
<1>. QED
  BY <1>1, <1>2, <1>4, <1>5, BodyKept

\* The new level has no task, and the new nursery is nobody's home.
LEMMA OpenScopes ==
  ASSUME code \in Programs, ProgramOK, GroupsOK, LoopsOK, GroupsHold, ScopesHold, NamesApart, HomesTyped,
         NEW t \in Task, Open(t), outcome' = "running"
  PROVE  ScopesHold'
<1>1. PICK K, N : K = Len(loops) /\ N = Op(t).n
  OBVIOUS
<1>2. /\ ~picking /\ t = current /\ pc[t] \in DOMAIN code[t] /\ Op(t).op = "open" /\ depth < MaxDepth
      /\ code' = code /\ pc' = [pc EXCEPT ![t] = pc[t] + 1] /\ loops' = loops /\ picking' = picking
      /\ current' = current /\ depth' = depth + 1 /\ groups' = [groups EXCEPT ![depth + 1] = <<>>]
      /\ opened' = [opened EXCEPT ![t] = Append(opened[t], N)]
      /\ ended' = ended /\ home' = home /\ exiting' = exiting
  BY <1>1, TaskAssumption DEF Open, Running, Advance, Fails, GroupsOK
<1>3. /\ depth \in Nat /\ Stacked /\ TasksTyped /\ depth + 1 \in 1 .. MaxDepth
      /\ K \in Nat /\ K \in 0 .. K
  BY <1>1, <1>2, NumbersTyped, TaskAssumption DEF GroupsHold, GroupsOK
<1>4. N \in Nursery /\ ~Entered(N)
  BY <1>1, <1>2, <1>3, NurseryIsNew
<1>5. opened[t] \in Seq(Nursery) /\ Len(opened[t]) \in Nat
  BY <1>3 DEF TasksTyped
<1>6. opened'[t] = Append(opened[t], N) /\ \A u \in Task \ {t} : opened'[u] = opened[u]
  BY <1>2, <1>3 DEF TasksTyped
<1>7. /\ \A d \in 1 .. depth : groups'[d] = groups[d]
      /\ \A d \in 1 .. MaxDepth : Len(groups'[d]) \in Nat
  <2>1. \A d \in 1 .. MaxDepth : groups'[d] = (IF d = depth + 1 THEN <<>> ELSE groups[d])
    BY <1>2 DEF GroupsOK
  <2>2. \A d \in 1 .. MaxDepth : Len(groups[d]) \in Nat
    BY DEF GroupsOK
  <2>3. \A d \in 1 .. depth : d \in 1 .. MaxDepth /\ d # depth + 1
    BY <1>3, MemberTyped
  <2>4. Len(<<>>) \in Nat
    OBVIOUS
  <2>. QED
    BY <2>1, <2>2, <2>3, <2>4
<1>8. ASSUME NEW k \in 1 .. Len(loops)
      PROVE  /\ loops[k].g <= depth' /\ groups'[loops[k].g] = groups[loops[k].g]
             /\ Len(groups[loops[k].g]) <= Len(groups'[loops[k].g])
             /\ \A i \in 1 .. Len(groups[loops[k].g]) : groups'[loops[k].g][i] = groups[loops[k].g][i]
  <2>1. loops[k].g \in 1 .. depth /\ Len(groups[loops[k].g]) \in Nat
    BY <1>3, <1>8, LoopTyped
  <2>. QED
    BY <1>2, <1>3, <1>7, <2>1
<1>9. /\ \A k \in 0 .. K : /\ Crew(k)' = Crew(k) /\ Runner(k)' = Runner(k) /\ Low(k)' = Low(k)
                           /\ k # K => High(k)' = High(k)
      /\ High(K)' = depth' /\ High(K) = depth
  <2>1. depth' \in Nat /\ Op(t).op # "join"
    BY <1>2, <1>3
  <2>. QED
    BY <1>1, <1>2, <1>7, <1>8, <2>1, StatementStacked
<1>10. \A u : \A d \in 1 .. depth : InGroup(u, d) => InGroup(u, d)'
  BY <1>7 DEF InGroup
<1>11. ASSUME NEW k \in 0 .. K, k # K PROVE BodyHolds(k)'
  BY <1>1, <1>2, <1>6, <1>9, <1>10, <1>11, BelowKept
<1>12. BodyHolds(K)'
  <2>1. PICK lo \in Int, hi \in Int, n \in Nat : lo = Low(K) /\ hi = depth + 1 /\ n = Len(opened[t]) + 1
    BY <1>1, <1>3, <1>5, NumbersTyped
  <2>2. Runner(K) = t /\ Active(K) /\ Active(K)' /\ BodyHolds(K)
    BY <1>1, <1>2, <1>3 DEF Stacked, Active, ScopesHold
  <2>3. Runner(K)' = t /\ Low(K)' = lo /\ High(K)' = hi /\ Len(opened'[t]) = n
    BY <1>2, <1>3, <1>5, <1>6, <1>9, <2>1, <2>2
  <2>4. /\ lo + Len(opened[t]) <= depth /\ (~exiting => lo + Len(opened[t]) = depth)
        /\ \A i \in 1 .. Len(opened[t]) : \A u \in Task :
             home[u] = opened[t][i] /\ u \notin ended => InGroup(u, depth - Len(opened[t]) + i)
    BY <1>9, <2>1, <2>2 DEF BodyHolds
  <2>5. lo + n <= hi /\ (~exiting' => lo + n = hi)
    BY <1>2, <1>3, <1>5, <2>1, <2>4
  <2>6. ASSUME NEW u \in Crew(K)', opened'[u] # <<>> PROVE u = t
    <3>1. u \in Crew(K) /\ u \in Task
      BY <1>1, <1>3, <1>9, <2>6, CrewTyped
    <3>. QED
      BY <1>6, <2>2, <2>6, <3>1 DEF BodyHolds
  <2>7. ASSUME NEW i \in 1 .. n, NEW u \in Task, home'[u] = opened'[t][i], u \notin ended',
               NEW d \in Int, d = hi - n + i
        PROVE  InGroup(u, d)'
    <3>1. CASE i = n
      <4>1. home[u] = N
        BY <1>2, <1>4, <1>5, <1>6, <2>1, <2>7, <3>1
      <4>. QED
        BY <1>4, <4>1, TaskAssumption DEF NamesApart, TaskAssumption
    <3>2. CASE i # n
      <4>1. i \in 1 .. Len(opened[t]) /\ d = depth - Len(opened[t]) + i
        BY <1>3, <1>5, <2>1, <2>7, <3>2
      <4>2. opened'[t][i] = opened[t][i]
        BY <1>4, <1>5, <1>6, <4>1
      <4>3. InGroup(u, d)
        BY <1>2, <2>4, <2>7, <4>1, <4>2
      <4>4. d \in (lo + 1) .. depth
        <5>1. PICK a \in Nat, e \in Nat : a = Len(opened[t]) /\ e = depth
          BY <1>3, <1>5
        <5>2. lo + a <= e /\ i \in 1 .. a /\ d = e - a + i
          BY <2>4, <4>1, <5>1
        <5>3. PICK j \in Int : j = i /\ 1 <= j /\ j <= a
          BY ONLY <5>1, <5>2
        <5>4. lo + 1 <= d /\ d <= e
          <6>1. d = e - a + j /\ lo + a <= e
            BY ONLY <5>2, <5>3
          <6>. QED
            BY ONLY lo \in Int, d \in Int, a \in Nat, e \in Nat, j \in Int, <5>3, <6>1
        <5>. QED
          BY <2>7, <5>1, <5>4
      <4>5. d \in 1 .. depth
        BY <1>1, <1>3, <1>9, <2>1, <4>4, LevelsWithin
      <4>. QED
        BY <1>10, <4>3, <4>5
    <3>. QED
      BY <3>1, <3>2
  <2>8. \A i \in 1 .. n : hi - n + i \in Int
    BY <2>1
  <2>9. \A i \in 1 .. n : \A u \in Task : home'[u] = opened'[t][i] /\ u \notin ended' =>
          \E j \in 1 .. Len(groups'[hi - n + i]) : groups'[hi - n + i][j] = u
    BY <2>7, <2>8 DEF InGroup
  <2>10. BodyAt(K, t, lo, hi, n)'
    BY <2>2, <2>3, <2>5, <2>6, <2>9 DEF BodyAt
  <2>. QED
    BY <2>1, <2>10, BodyIntro
<1>13. ASSUME NEW k \in 1 .. K PROVE CompleteAt(k)'
  BY <1>1, <1>2, <1>8, <1>13, CompleteKept DEF ScopesHold
<1>14. Reached'
  <2>1. \A d \in 1 .. depth : d \in 1 .. depth'
    BY <1>2, <1>3
  <2>2. ~exiting => \A u \in Task : home[u] # NoNursery /\ u \notin ended => \E d \in 1 .. depth : InGroup(u, d)
    BY DEF ScopesHold, Reached
  <2>3. ~exiting' => \A u \in Task : home'[u] # NoNursery /\ u \notin ended' =>
          \E d \in 1 .. depth' : InGroup(u, d)'
    BY <1>2, <1>10, <2>1, <2>2
  <2>. QED
    BY <1>2, <2>3 DEF Reached
<1>. QED
  BY <1>1, <1>2, <1>11, <1>12, <1>13, <1>14 DEF ScopesHold
\* The child's home is the last nursery of the task that spawns it, whose level is the
\* innermost one.
LEMMA SpawnScopes ==
  ASSUME code \in Programs, ProgramOK, GroupsOK, LoopsOK, GroupsHold, ScopesHold, NamesApart, HomesTyped,
         NEW t \in Task, Spawn(t), outcome' = "running", ~crossed'
  PROVE  ScopesHold'
<1>1. PICK K, c, n, N : K = Len(loops) /\ c = Op(t).child /\ n = Len(opened[t]) /\ N = Last(opened[t])
  OBVIOUS
<1>2. /\ ~picking /\ t = current /\ pc[t] \in DOMAIN code[t] /\ Op(t).op = "spawn" /\ depth >= 1
      /\ code' = code /\ pc' = [pc EXCEPT ![t] = pc[t] + 1] /\ loops' = loops /\ picking' = picking
      /\ current' = current /\ depth' = depth
      /\ groups' = [groups EXCEPT ![depth] = Append(groups[depth], c)]
      /\ opened' = opened /\ opened[t] # <<>> /\ home' = [home EXCEPT ![c] = N]
      /\ ended' = ended /\ exiting' = exiting
  <2>1. depth \in Int /\ ~TooMany
    BY TaskAssumption DEF Spawn, Fails, GroupsOK
  <2>2. opened[t] # <<>>
    BY <2>1 DEF Spawn
  <2>3. Scope(t) = N
    BY <1>1, <2>2 DEF Scope
  <2>4. depth >= 1
    BY <2>1 DEF TooMany
  <2>. QED
    BY <1>1, <2>1, <2>2, <2>3, <2>4 DEF Spawn, Running, Advance
<1>3. /\ depth \in 1 .. depth /\ depth \in Nat /\ Stacked /\ TasksTyped /\ K \in Nat /\ K \in 0 .. K
  BY <1>1, <1>2, NumbersTyped DEF GroupsHold
<1>4. c \in Task
  BY <1>1, <1>2, <1>3, ChildIsNew
<1>5. n \in Nat /\ n > 0 /\ n \in 1 .. n /\ N = opened[t][n] /\ opened[t] \in Seq(Nursery)
  BY <1>1, <1>2, <1>3 DEF TasksTyped, Last
<1>6. home'[c] = N /\ \A u \in Task : u # c => home'[u] = home[u]
  BY <1>2, <1>4 DEF HomesTyped
<1>7. /\ groups[depth] \in Seq(Task) /\ Len(groups[depth]) \in Nat /\ depth \in 1 .. MaxDepth
      /\ groups'[depth] = Append(groups[depth], c)
      /\ \A d \in 1 .. MaxDepth : d # depth => groups'[d] = groups[d]
      /\ \A d \in 1 .. MaxDepth : Len(groups[d]) \in Nat
  BY <1>2, <1>3, MemberTyped DEF GroupsOK
<1>8. \A d \in 1 .. MaxDepth : Len(groups'[d]) \in Nat
  <2>1. Len(Append(groups[depth], c)) \in Nat
    BY <1>4, <1>7
  <2>. QED
    BY <1>7, <2>1
<1>9. Low(K) < depth
  BY <1>1, <1>2, LevelLeft
<1>10. ASSUME NEW k \in 1 .. Len(loops)
      PROVE  /\ loops[k].g <= depth' /\ groups'[loops[k].g] = groups[loops[k].g]
             /\ Len(groups[loops[k].g]) <= Len(groups'[loops[k].g])
             /\ \A i \in 1 .. Len(groups[loops[k].g]) : groups'[loops[k].g][i] = groups[loops[k].g][i]
  <2>1. loops[k].g \in 1 .. depth /\ loops[k].g \in 1 .. MaxDepth /\ Len(groups[loops[k].g]) \in Nat
    BY <1>3, <1>10, LoopTyped
  <2>2. loops[k].g <= Low(K)
    BY <1>1, <1>2, <1>10, CurrentKnown
  <2>3. Low(K) \in Int
    BY <1>1, <1>3, NumbersTyped
  <2>4. loops[k].g # depth
    BY <1>3, <1>9, <2>1, <2>2, <2>3
  <2>. QED
    BY <1>2, <1>3, <1>7, <2>1, <2>4
<1>11. /\ \A k \in 0 .. K : /\ Crew(k)' = Crew(k) /\ Runner(k)' = Runner(k) /\ Low(k)' = Low(k)
                            /\ k # K => High(k)' = High(k)
       /\ High(K)' = depth' /\ High(K) = depth
  <2>1. depth' \in Nat /\ Op(t).op # "join"
    BY <1>2, <1>3
  <2>. QED
    BY <1>1, <1>2, <1>8, <1>10, <2>1, StatementStacked
<1>12. \A u : \A d \in 1 .. depth : InGroup(u, d) => InGroup(u, d)'
  <2>1. ASSUME NEW u, NEW d \in 1 .. depth, NEW i \in 1 .. Len(groups[d]), groups[d][i] = u
        PROVE  i \in 1 .. Len(groups'[d]) /\ groups'[d][i] = u
    <3>1. d \in 1 .. MaxDepth
      BY <2>1, MemberTyped
    <3>2. CASE d = depth
      BY <1>4, <1>7, <2>1, <3>2
    <3>3. CASE d # depth
      BY <1>7, <2>1, <3>1, <3>3
    <3>. QED
      BY <3>2, <3>3
  <2>. QED
    BY <2>1 DEF InGroup
<1>13. InGroup(c, depth)'
  <2>1. PICK i : i = Len(groups[depth]) + 1
    OBVIOUS
  <2>2. i \in 1 .. Len(groups'[depth]) /\ groups'[depth][i] = c
    BY <1>4, <1>7, <2>1
  <2>3. \E j \in 1 .. Len(groups'[depth]) : groups'[depth][j] = c
    BY <2>2
  <2>. QED
    BY <1>2, <2>3 DEF InGroup
<1>14. ASSUME NEW k \in 0 .. K, k # K PROVE BodyHolds(k)'
  <2>1. Runner(k) # t /\ Runner(k) \in Task
    <3>1. k \in 0 .. (K - 1) /\ Active(k)
      BY <1>1, <1>3, <1>14 DEF Active
    <3>2. Runner(k) \in Crew(k) /\ Runner(k) \in Task
      BY <1>1, <1>3, <1>14, <3>1, RunnerTyped
    <3>3. t \notin Crew(k)
      BY <1>1, <1>2, <3>1, CurrentOnTop
    <3>. QED
      BY <3>2, <3>3
  <2>2. PICK r \in Task : r = Runner(k) /\ r # t
    BY <2>1
  <2>3. \A i \in 1 .. Len(opened[r]) : opened[r][i] # N
    BY <1>1, <1>5, <2>2 DEF NamesApart
  <2>4. \A u \in Task : \A i \in 1 .. Len(opened[r]) : home'[u] = opened[r][i] => home[u] = home'[u]
    BY <1>6, <2>3
  <2>. QED
    BY <1>1, <1>2, <1>11, <1>12, <1>14, <2>2, <2>4, BelowKept
<1>15. BodyHolds(K)'
  <2>1. PICK lo \in Int, hi \in Int : lo = Low(K) /\ hi = depth
    BY <1>1, <1>3, NumbersTyped
  <2>2. Runner(K) = t /\ Active(K) /\ Active(K)' /\ BodyHolds(K)
    BY <1>1, <1>2, <1>3 DEF Stacked, Active, ScopesHold
  <2>3. Runner(K)' = t /\ Low(K)' = lo /\ High(K)' = hi /\ Len(opened'[t]) = n
    BY <1>1, <1>2, <1>3, <1>11, <2>1, <2>2
  <2>4. /\ lo + n <= hi /\ (~exiting => lo + n = hi)
        /\ \A i \in 1 .. n : \A u \in Task :
             home[u] = opened[t][i] /\ u \notin ended => InGroup(u, hi - n + i)
        /\ \A u \in Crew(K) : opened[u] # <<>> => u = t
    BY <1>1, <1>11, <2>1, <2>2 DEF BodyHolds
  <2>5. ASSUME NEW i \in 1 .. n, NEW u \in Task, home'[u] = opened'[t][i], u \notin ended',
               NEW d \in Int, d = hi - n + i
        PROVE  InGroup(u, d)'
    <3>1. CASE u = c
      <4>1. opened[t][i] = opened[t][n]
        BY <1>2, <1>5, <1>6, <2>5, <3>1
      <4>2. i = n
        <5>1. i \in 1 .. Len(opened[t]) /\ n \in 1 .. Len(opened[t])
          BY ONLY <1>1, <1>5, <2>5
        <5>2. \A a, b \in 1 .. Len(opened[t]) : opened[t][a] = opened[t][b] => a = b
          BY <1>1 DEF NamesApart
        <5>. QED
          BY <4>1, <5>1, <5>2
      <4>3. d = depth
        BY <1>5, <2>1, <2>5, <4>2
      <4>. QED
        BY <1>2, <1>13, <3>1, <4>3 DEF InGroup
    <3>2. CASE u # c
      <4>1. InGroup(u, d)
        BY <1>2, <1>6, <2>4, <2>5, <3>2
      <4>2. d \in (lo + 1) .. depth
        BY <1>5, <2>1, <2>4, <2>5
      <4>3. d \in 1 .. depth
        BY <1>1, <1>3, <1>11, <2>1, <4>2, LevelsWithin
      <4>. QED
        BY <1>12, <4>1, <4>3
    <3>. QED
      BY <3>1, <3>2
  <2>6. \A i \in 1 .. n : hi - n + i \in Int
    BY <1>5, <2>1
  <2>7. \A i \in 1 .. n : \A u \in Task : home'[u] = opened'[t][i] /\ u \notin ended' =>
          \E j \in 1 .. Len(groups'[hi - n + i]) : groups'[hi - n + i][j] = u
    BY <2>5, <2>6 DEF InGroup
  <2>8. \A u \in Crew(K)' : opened'[u] # <<>> => u = t
    BY <1>2, <1>3, <1>11, <2>4
  <2>9. BodyAt(K, t, lo, hi, n)'
    BY <1>2, <2>2, <2>3, <2>4, <2>7, <2>8 DEF BodyAt
  <2>. QED
    BY <1>5, <2>1, <2>9, BodyIntro
<1>16. ASSUME NEW k \in 1 .. K PROVE CompleteAt(k)'
  BY <1>1, <1>2, <1>10, <1>16, CompleteKept DEF ScopesHold
<1>17. Reached'
  <2>1. ~exiting => \A u \in Task : home[u] # NoNursery /\ u \notin ended => \E d \in 1 .. depth : InGroup(u, d)
    BY DEF ScopesHold, Reached
  <2>2. ASSUME ~exiting', NEW u \in Task, home'[u] # NoNursery, u \notin ended'
        PROVE  \E d \in 1 .. depth : InGroup(u, d)'
    BY <1>2, <1>3, <1>6, <1>12, <1>13, <2>1, <2>2
  <2>. QED
    BY <1>2, <2>2 DEF Reached
<1>. QED
  BY <1>1, <1>2, <1>14, <1>15, <1>16, <1>17 DEF ScopesHold

\* The new loop has the tasks of the innermost level, which have run nothing.
LEMMA JoinScopes ==
  ASSUME code \in Programs, ProgramOK, GroupsOK, LoopsOK, GroupsHold, ScopesHold, NEW t \in Task, Join(t)
  PROVE  ScopesHold'
<1>1. PICK K, D, L, M : K = Len(loops) /\ D = depth /\ L = loops /\ M = loops'
  OBVIOUS
<1>2. PICK l : l = [g |-> D, n |-> Len(groups[D]), owner |-> t, done |-> {}, at |-> 1, progressed |-> FALSE]
  OBVIOUS
<1>3. /\ ~picking /\ t = current /\ pc[t] \in DOMAIN code[t] /\ Op(t).op = "join" /\ D > 0
      /\ M = Append(L, l) /\ picking' /\ depth' = D /\ groups' = groups /\ opened' = opened
      /\ home' = home /\ ended' = ended /\ exiting' = exiting
  BY <1>1, <1>2 DEF Join, Running, Kept, history
<1>4. /\ K \in Nat /\ D \in Nat /\ D \in 1 .. D /\ K \in 0 .. K /\ L \in Seq(Loop)
      /\ Stacked /\ TasksTyped /\ Counted
  BY <1>1, <1>3, NumbersTyped DEF GroupsHold, LoopsOK
<1>5. Len(M) = K + 1 /\ M[K + 1] = l /\ \A k \in 1 .. K : M[k] = L[k]
  BY <1>1, <1>3, <1>4
<1>6. \A k \in 1 .. K : L[k].g < D
  <2>1. opened[t] # <<>>
    BY <1>3, <1>4, OpenedSome
  <2>2. Low(K) < D /\ Low(K) \in Int
    BY <1>1, <1>3, <1>4, <2>1, LevelLeft, NumbersTyped
  <2>3. \A k \in 1 .. K : L[k].g <= Low(K) /\ L[k].g \in 1 .. D
    BY <1>1, <1>3, CurrentKnown
  <2>. QED
    BY <1>4, <2>2, <2>3
<1>7. \A k \in 0 .. K : Crew(k)' = Crew(k) /\ Runner(k)' = Runner(k) /\ Low(k)' = Low(k)
  BY <1>1, <1>3, <1>4, <1>5, SameLoop
<1>8. \A t1, d : InGroup(t1, d)' <=> InGroup(t1, d)
  BY <1>3 DEF InGroup
<1>9. ASSUME NEW k \in 0 .. K PROVE BodyHolds(k)'
  <2>1. Active(k) /\ Active(k)' /\ BodyHolds(k)
    BY <1>1, <1>3, <1>4, <1>5, <1>9 DEF Active, ScopesHold
  <2>2. Low(k) \in Int /\ High(k) \in Int /\ Len(opened[Runner(k)]) \in Nat
    BY <1>1, <1>4, <1>9, <2>1, RunnerTyped
  <2>3. High(k)' = High(k)
    BY <1>1, <1>2, <1>3, <1>4, <1>5, <1>9 DEF High
  <2>. QED
    BY <1>3, <1>7, <1>8, <1>9, <2>1, <2>2, <2>3, BodyKept
<1>10. BodyHolds(K + 1)'
  <2>1. ~Active(K + 1)'
    BY <1>1, <1>3, <1>4, <1>5 DEF Active
  <2>2. Crew(K + 1)' = {groups[D][i] : i \in 1 .. Len(groups[D])}
    BY <1>1, <1>2, <1>3, <1>4, <1>5 DEF Crew, TaskAt, Remaining
  <2>3. \A i \in 1 .. Len(groups[D]) : opened[groups[D][i]] = <<>>
    <3>1. \A k \in 1 .. K : L[k].g # D
      BY <1>4, <1>6
    <3>. QED
      BY <1>1, <1>4, <3>1 DEF GroupsHold, Fresh
  <2>4. \A u \in Crew(K + 1)' : opened'[u] = <<>>
    BY <1>3, <2>2, <2>3
  <2>. QED
    BY <2>1, <2>4 DEF BodyHolds
<1>11. ASSUME NEW k \in 1 .. K PROVE CompleteAt(k)'
  BY <1>1, <1>3, <1>5, <1>11, CompleteKept DEF ScopesHold
<1>12. CompleteAt(K + 1)'
  BY <1>1, <1>2, <1>3, <1>5 DEF CompleteAt
<1>13. Reached'
  <2>1. Low(K + 1)' = D
    BY <1>1, <1>2, <1>4, <1>5 DEF Low
  <2>2. ~exiting => \A u \in Task : home[u] # NoNursery /\ u \notin ended => \E d \in 1 .. depth : InGroup(u, d)
    BY DEF ScopesHold, Reached
  <2>3. Low(Len(loops))' = D
    BY <1>1, <1>5, <2>1
  <2>. QED
    BY <1>1, <1>3, <1>8, <2>2, <2>3 DEF Reached
<1>. QED
  <2>1. \A k \in 0 .. (K + 1) : k \in 0 .. K \/ k = K + 1
    BY <1>4
  <2>2. \A k \in 1 .. (K + 1) : k \in 1 .. K \/ k = K + 1
    BY <1>4
  <2>. QED
    BY <1>1, <1>5, <1>9, <1>10, <1>11, <1>12, <1>13, <2>1, <2>2 DEF ScopesHold

\* What the innermost loop does between two of its tasks, when none of those it may
\* still run has a nursery open.
LEMMA TurnScopes ==
  ASSUME GroupsOK, LoopsOK, Stacked, TasksTyped, ScopesHold, loops # <<>>,
         NEW l, l.g = Top.g, l.n = Top.n, loops' = Append(Front(loops), l),
         groups' = groups, depth' = depth, opened' = opened, home' = home,
         ended \subseteq ended', exiting => exiting',
         \A i \in 1 .. l.n : i \notin l.done => opened[groups[l.g][i]] = <<>>,
         \A i \in l.done : i \in 1 .. l.n /\ groups[l.g][i] \in ended',
         ~exiting' => depth = l.g,
         ~picking' => l.at \in 1 .. l.n /\ l.at \notin l.done
  PROVE  ScopesHold'
<1>1. PICK K, D, L, M : K = Len(loops) /\ D = depth /\ L = loops /\ M = loops'
  OBVIOUS
<1>2. K \in Nat /\ K > 0 /\ K \in 1 .. K /\ K \in 0 .. K /\ K # 0 /\ D \in Nat /\ L \in Seq(Loop)
  BY <1>1, NumbersTyped DEF LoopsOK
<1>3. Top = L[K]
  BY <1>1 DEF Top, Last
<1>4. Len(M) = K /\ M[K] = l /\ \A k \in 1 .. K : k # K => M[k] = L[k]
  BY <1>1, <1>2 DEF Front
<1>5. \A k \in 0 .. K : k # K => Crew(k)' = Crew(k) /\ Runner(k)' = Runner(k) /\ Low(k)' = Low(k)
  BY <1>1, <1>2, <1>4, SameLoop
<1>6. \A u, d : InGroup(u, d)' <=> InGroup(u, d)
  BY DEF InGroup
<1>7. ASSUME NEW k \in 0 .. K, k # K PROVE BodyHolds(k)'
  <2>1. Active(k) /\ Active(k)' /\ BodyHolds(k)
    BY <1>1, <1>2, <1>4, <1>7 DEF Active, ScopesHold
  <2>2. Low(k) \in Int /\ High(k) \in Int /\ Len(opened[Runner(k)]) \in Nat
    BY <1>1, <1>7, <2>1, RunnerTyped
  <2>3. High(k)' = High(k)
    <3>1. k + 1 \in 1 .. K
      BY <1>2, <1>7
    <3>2. M[k + 1].g = L[k + 1].g
      BY <1>3, <1>4, <3>1
    <3>. QED
      BY <1>1, <1>4, <1>7, <3>2 DEF High
  <2>. QED
    BY <1>5, <1>6, <1>7, <2>1, <2>2, <2>3, BodyKept
<1>8. Low(K)' = l.g /\ High(K)' = D /\ l.g \in 1 .. D
  BY <1>1, <1>2, <1>3, <1>4, LoopTyped DEF Low, High
<1>9. BodyHolds(K)'
  <2>1. Crew(K)' = {groups[l.g][i] : i \in {j \in 1 .. l.n : j \notin l.done}}
    BY <1>1, <1>2, <1>4 DEF Crew, TaskAt, Remaining
  <2>2. \A u \in Crew(K)' : opened'[u] = <<>>
    BY <2>1
  <2>3. CASE ~Active(K)'
    BY <2>2, <2>3 DEF BodyHolds
  <2>4. CASE Active(K)'
    <3>1. ~picking'
      BY <1>1, <1>4, <2>4 DEF Active
    <3>2. PICK r : r = groups[l.g][l.at]
      OBVIOUS
    <3>3. Runner(K)' = r
      BY <1>1, <1>2, <1>4, <3>2 DEF Runner, TaskAt
    <3>4. opened'[r] = <<>> /\ Len(opened'[r]) = 0
      BY <3>1, <3>2
    <3>5. PICK lo \in Int : lo = l.g
      BY <1>8
    <3>6. lo + 0 <= D /\ (~exiting' => lo + 0 = D)
      BY <1>1, <1>2, <1>8, <3>5
    <3>7. BodyAt(K, r, lo, D, 0)'
      BY <1>8, <2>2, <3>3, <3>4, <3>5, <3>6 DEF BodyAt
    <3>. QED
      BY <1>2, <3>5, <3>7, BodyIntro
  <2>. QED
    BY <2>3, <2>4
<1>10. ASSUME NEW k \in 1 .. K PROVE CompleteAt(k)'
  <2>1. CompleteAt(k)
    BY <1>1, <1>10 DEF ScopesHold
  <2>2. CASE k # K
    BY <1>1, <1>4, <1>10, <2>1, <2>2, CompleteKept
  <2>3. CASE k = K
    <3>1. l.n = Len(groups[l.g])
      BY <1>1, <1>3, <2>1, <2>3 DEF CompleteAt
    <3>. QED
      BY <1>1, <1>4, <2>3, <3>1 DEF CompleteAt, TaskAt
  <2>. QED
    BY <2>2, <2>3
<1>11. Reached'
  <2>1. ~exiting => \A u \in Task : home[u] # NoNursery /\ u \notin ended => \E d \in 1 .. depth : InGroup(u, d)
    BY DEF ScopesHold, Reached
  <2>2. Low(Len(loops))' = l.g
    BY <1>1, <1>4, <1>8
  <2>. QED
    BY <1>6, <2>1, <2>2 DEF Reached
<1>. QED
  BY <1>1, <1>4, <1>7, <1>9, <1>10, <1>11 DEF ScopesHold

\* The tasks a loop may still run, beside the one that runs.
LEMMA CrewIdle ==
  ASSUME GroupsOK, LoopsOK, Stacked, ScopesHold, loops # <<>>
  PROVE  /\ Len(loops) \in Nat /\ Len(loops) > 0 /\ Len(loops) \in 1 .. Len(loops)
         /\ Top = loops[Len(loops)] /\ Low(Len(loops)) = Top.g /\ High(Len(loops)) = depth
         /\ depth \in Nat /\ Top.g \in 1 .. depth
         /\ \A i \in 1 .. Top.n : i \notin Top.done =>
              opened[groups[Top.g][i]] = <<>> \/ (~picking /\ groups[Top.g][i] = current)
         /\ \A i \in Top.done : i \in 1 .. Top.n /\ groups[Top.g][i] \in ended
<1>1. /\ Len(loops) \in Nat /\ Len(loops) > 0 /\ Len(loops) \in 1 .. Len(loops) /\ Len(loops) # 0
      /\ Len(loops) \in 0 .. Len(loops) /\ depth \in Nat
  BY NumbersTyped DEF LoopsOK
<1>2. Top = loops[Len(loops)] /\ Low(Len(loops)) = Top.g /\ High(Len(loops)) = depth /\ Top.g \in 1 .. depth
  BY <1>1, LoopTyped DEF Top, Last, Low, High
<1>3. ASSUME NEW i \in 1 .. Top.n, i \notin Top.done
      PROVE  opened[groups[Top.g][i]] = <<>> \/ (~picking /\ groups[Top.g][i] = current)
  <2>1. groups[Top.g][i] \in Crew(Len(loops))
    BY <1>1, <1>2, <1>3 DEF Crew, Remaining, TaskAt
  <2>2. BodyHolds(Len(loops))
    BY <1>1 DEF ScopesHold
  <2>3. ~picking => current = Runner(Len(loops))
    BY DEF Stacked
  <2>. QED
    BY <1>1, <2>1, <2>2, <2>3 DEF BodyHolds, Active
<1>4. \A i \in Top.done : i \in 1 .. Top.n /\ groups[Top.g][i] \in ended
  BY <1>1, <1>2 DEF ScopesHold, CompleteAt, TaskAt
<1>. QED
  BY <1>1, <1>2, <1>3, <1>4

\* A task with no nursery open is at its loop's level.
LEMMA LevelBack ==
  ASSUME GroupsOK, LoopsOK, Stacked, ScopesHold, loops # <<>>, ~picking, ~exiting, opened[current] = <<>>
  PROVE  depth = Top.g
<1>1. PICK K : K = Len(loops)
  OBVIOUS
<1>2. K \in 0 .. K /\ Low(K) = Top.g /\ High(K) = depth /\ Top.g \in Nat
  BY <1>1, CrewIdle
<1>3. Active(K) /\ BodyHolds(K) /\ current = Runner(K)
  BY <1>1, <1>2 DEF Active, ScopesHold, Stacked
<1>4. Low(K) + Len(opened[current]) = High(K)
  BY <1>3 DEF BodyHolds
<1>5. Len(opened[current]) = 0
  OBVIOUS
<1>. QED
  BY <1>2, <1>4, <1>5

\* A task that ends, in its loop; what it has open is nobody's any more.
LEMMA EndsScopes ==
  ASSUME code \in Programs, GroupsOK, LoopsOK, GroupsHold, ScopesHold, NEW t \in Task, Ends(t), t = current,
         ~picking, outcome' = "running", home' = home, opened' = opened, exiting => exiting',
         exiting' \/ opened[t] = <<>>
  PROVE  ScopesHold'
<1>1. loops # <<>> /\ Stacked /\ TasksTyped /\ OneGroup
  BY DEF Ends, GroupsHold
<1>2. PICK l : l = [Top EXCEPT !.done = Top.done \union {Top.at}, !.at = Top.at + 1, !.progressed = Ran(t)]
  OBVIOUS
<1>3. /\ loops' = Append(Front(loops), l) /\ picking'
      /\ groups' = groups /\ depth' = depth /\ ended' = ended \union {t}
  BY <1>1, <1>2 DEF Ends, SetTop
<1>4. Top \in Loop
  BY <1>1, TopTyped
<1>5. l.g = Top.g /\ l.n = Top.n /\ l.done = Top.done \union {Top.at}
  BY <1>2, <1>4 DEF Loop
<1>6. PICK g, a : g = Top.g /\ a = Top.at
  OBVIOUS
<1>7. a \in 1 .. Top.n /\ groups[g][a] = t
  BY <1>1, <1>6, CrewIdle DEF Stacked, Runner, TaskAt, Remaining
<1>8. ASSUME NEW i \in 1 .. l.n, i \notin l.done PROVE opened[groups[l.g][i]] = <<>>
  <2>1. i \in 1 .. Top.n /\ i \notin Top.done /\ i # a
    BY <1>5, <1>6, <1>8
  <2>2. i \in 1 .. Len(groups[g]) /\ a \in 1 .. Len(groups[g]) /\ g \in 1 .. depth
    BY <1>1, <1>6, <1>7, <2>1, CrewIdle DEF ScopesHold, CompleteAt
  <2>3. groups[g][i] # t
    BY <1>1, <1>7, <2>1, <2>2 DEF OneGroup
  <2>. QED
    BY <1>1, <1>5, <1>6, <2>1, <2>3, CrewIdle
<1>9. \A i \in l.done : i \in 1 .. l.n /\ groups[l.g][i] \in ended'
  BY <1>1, <1>3, <1>5, <1>6, <1>7, CrewIdle
<1>10. ~exiting' => depth = l.g
  BY <1>1, <1>5, LevelBack
<1>. QED
  BY <1>1, <1>3, <1>5, <1>8, <1>9, <1>10, TurnScopes

\* A task that yields has no nursery open, unless that crosses one.
LEMMA YieldsScopes ==
  ASSUME code \in Programs, GroupsOK, LoopsOK, GroupsHold, ScopesHold, NEW t \in Task, Yields(t), t = current,
         ~picking, outcome' = "running", exiting' = exiting, ~crossed'
  PROVE  ScopesHold'
<1>1. loops # <<>> /\ Stacked /\ TasksTyped
  BY DEF Yields, GroupsHold
<1>2. PICK l : l = [Top EXCEPT !.at = Top.at + 1, !.progressed = Ran(t)]
  OBVIOUS
<1>3. /\ loops' = Append(Front(loops), l) /\ picking' /\ groups' = groups /\ depth' = depth
      /\ ended' = ended /\ home' = home /\ opened' = opened /\ opened[t] = <<>>
  BY <1>1, <1>2 DEF Yields, SetTop
<1>4. Top \in Loop
  BY <1>1, TopTyped
<1>5. l.g = Top.g /\ l.n = Top.n /\ l.done = Top.done
  BY <1>2, <1>4 DEF Loop
<1>6. \A i \in 1 .. l.n : i \notin l.done => opened[groups[l.g][i]] = <<>>
  BY <1>1, <1>3, <1>5, CrewIdle
<1>7. \A i \in l.done : i \in 1 .. l.n /\ groups[l.g][i] \in ended'
  BY <1>1, <1>3, <1>5, CrewIdle
<1>8. ~exiting' => depth = l.g
  BY <1>1, <1>3, <1>5, LevelBack
<1>. QED
  BY <1>1, <1>3, <1>5, <1>6, <1>7, <1>8, TurnScopes

LEMMA ResumeScopes ==
  ASSUME GroupsOK, LoopsOK, GroupsHold, ScopesHold, loops # <<>>, Resume
  PROVE  ScopesHold'
<1>1. Stacked /\ TasksTyped /\ picking
  BY DEF GroupsHold, Resume, InLoop
<1>2. PICK i \in Upcoming(Top) : SetTop([Top EXCEPT !.at = i])
  BY DEF Resume
<1>3. PICK l : l = [Top EXCEPT !.at = i]
  OBVIOUS
<1>4. /\ loops' = Append(Front(loops), l) /\ groups' = groups /\ depth' = depth
      /\ ended' = ended /\ home' = home /\ opened' = opened /\ exiting' = exiting
  BY <1>2, <1>3 DEF Resume, SetTop, history
<1>5. Top \in Loop
  BY TopTyped
<1>6. l.g = Top.g /\ l.n = Top.n /\ l.done = Top.done /\ l.at = i
  BY <1>3, <1>5 DEF Loop
<1>7. l.at \in 1 .. l.n /\ l.at \notin l.done
  BY <1>2, <1>6 DEF Upcoming, Runnable
<1>8. \A j \in 1 .. l.n : j \notin l.done => opened[groups[l.g][j]] = <<>>
  BY <1>1, <1>6, CrewIdle
<1>9. \A j \in l.done : j \in 1 .. l.n /\ groups[l.g][j] \in ended'
  BY <1>1, <1>4, <1>6, CrewIdle
<1>10. ~exiting' => depth = l.g
  BY <1>1, <1>4, <1>6, CrewIdle DEF ScopesHold, Reached
<1>. QED
  BY <1>1, <1>4, <1>6, <1>7, <1>8, <1>9, <1>10, TurnScopes

LEMMA PassScopes ==
  ASSUME GroupsOK, LoopsOK, GroupsHold, ScopesHold, loops # <<>>, NextPass
  PROVE  ScopesHold'
<1>1. Stacked /\ TasksTyped /\ picking
  BY DEF GroupsHold, NextPass, EndOfPass, InLoop
<1>2. PICK l : l = [Top EXCEPT !.at = 1, !.progressed = ProgressReset(Top)]
  OBVIOUS
<1>3. /\ loops' = Append(Front(loops), l) /\ picking' /\ groups' = groups /\ depth' = depth
      /\ ended' = ended /\ home' = home /\ opened' = opened /\ exiting' = exiting
  BY <1>1, <1>2 DEF NextPass, SetTop, history
<1>4. Top \in Loop
  BY TopTyped
<1>5. l.g = Top.g /\ l.n = Top.n /\ l.done = Top.done
  BY <1>2, <1>4 DEF Loop
<1>6. \A j \in 1 .. l.n : j \notin l.done => opened[groups[l.g][j]] = <<>>
  BY <1>1, <1>5, CrewIdle
<1>7. \A j \in l.done : j \in 1 .. l.n /\ groups[l.g][j] \in ended'
  BY <1>1, <1>3, <1>5, CrewIdle
<1>8. ~exiting' => depth = l.g
  BY <1>1, <1>3, <1>5, CrewIdle DEF ScopesHold, Reached
<1>. QED
  BY <1>1, <1>3, <1>5, <1>6, <1>7, <1>8, TurnScopes

\* The loop that goes is done with all tasks of its level, which is that of its
\* owner's last nursery.
LEMMA EndScopes ==
  ASSUME code \in Programs, ProgramOK, GroupsOK, LoopsOK, loops # <<>>, GroupsHold, ScopesHold, EndNursery
  PROVE  ScopesHold' /\ (TasksEndFirst => TasksEndFirst')
<1>1. PICK K, D, L, M, t : K = Len(loops) /\ D = Top.g /\ L = loops /\ M = loops' /\ t = Top.owner
  OBVIOUS
<1>2. PICK n, N : n = Len(opened[t]) /\ N = Last(opened[t])
  OBVIOUS
<1>3. /\ K \in Nat /\ K > 0 /\ K \in 1 .. K /\ K \in 0 .. K /\ L \in Seq(Loop) /\ depth \in Nat
      /\ Stacked /\ OneGroup /\ GroupsSpawned /\ TasksTyped /\ Counted
      /\ Top = L[K] /\ D \in 1 .. depth /\ High(K) = depth /\ Low(K) = D
  BY <1>1, CrewIdle DEF GroupsHold, LoopsOK
<1>4. /\ picking /\ Remaining(Top) = {}
      /\ M = Front(L) /\ depth' = D - 1 /\ ~picking' /\ groups' = groups
      /\ opened' = [opened EXCEPT ![t] = Front(opened[t])] /\ left' = left \union {N}
      /\ ended' = ended /\ home' = home /\ exiting' = exiting
  BY <1>1, <1>2 DEF EndNursery, EndOfPass, InLoop
<1>5. PICK J \in Nat : J = K - 1
  BY <1>3
<1>6. Len(M) = J /\ \A k \in 1 .. J : M[k] = L[k]
  BY <1>1, <1>3, <1>4, <1>5 DEF Front
<1>7. J \in 0 .. K /\ J < K /\ K = J + 1 /\ \A k \in 0 .. J : k \in 0 .. K /\ k < K
  BY <1>3, <1>5
<1>8. t \in Task /\ t = Runner(J) /\ t \in Crew(J) /\ Joining(t)
  <2>1. t = Runner(K - 1) /\ Joining(t)
    BY <1>1, <1>3 DEF Stacked
  <2>2. Runner(J) \in Crew(J) /\ Crew(J) \subseteq Task
    BY <1>1, <1>3, <1>7, RunnerInCrew, CrewTyped
  <2>. QED
    BY <1>5, <2>1, <2>2
<1>9. opened[t] \in Seq(Nursery) /\ opened[t] # <<>> /\ n \in Nat /\ n > 0 /\ N = opened[t][n]
  BY <1>2, <1>3, <1>8, OpenedSome DEF TasksTyped, Joining, Last
<1>10. /\ opened'[t] = Front(opened[t]) /\ Len(opened'[t]) = n - 1
       /\ \A i \in 1 .. (n - 1) : opened'[t][i] = opened[t][i]
       /\ \A u \in Task \ {t} : opened'[u] = opened[u]
  <2>1. opened'[t] = Front(opened[t]) /\ \A u \in Task \ {t} : opened'[u] = opened[u]
    BY <1>3, <1>4, <1>8 DEF TasksTyped
  <2>. QED
    BY <1>2, <1>9, <2>1 DEF Front
<1>11. \A k \in 0 .. J : Crew(k)' = Crew(k) /\ Runner(k)' = Runner(k) /\ Low(k)' = Low(k)
  BY <1>1, <1>4, <1>6, SameLoop
<1>12. \A u, d : InGroup(u, d)' <=> InGroup(u, d)
  BY <1>4 DEF InGroup
<1>13. \A k \in 0 .. J : Active(k) /\ Active(k)' /\ BodyHolds(k)
  BY <1>1, <1>4, <1>7 DEF Active, ScopesHold
<1>14. \A u \in Task : InGroup(u, D) => u \in ended
  <2>1. CompleteAt(K)
    BY <1>1, <1>3 DEF ScopesHold
  <2>2. \A i \in 1 .. Len(groups[D]) : groups[D][i] \in ended
    BY <1>1, <1>3, <1>4, <2>1 DEF CompleteAt, Remaining, TaskAt
  <2>. QED
    BY <2>2 DEF InGroup
<1>15. ASSUME NEW k \in 0 .. J, k # J PROVE BodyHolds(k)'
  <2>1. Low(k) \in Int /\ High(k) \in Int /\ Len(opened[Runner(k)]) \in Nat /\ Runner(k) \in Crew(k)
    BY <1>1, <1>3, <1>7, <1>13, <1>15, RunnerTyped
  <2>2. High(k)' = High(k)
    <3>1. k + 1 \in 1 .. J /\ k # K
      BY <1>7, <1>15
    <3>. QED
      BY <1>1, <1>6, <1>15, <3>1 DEF High
  <2>3. \A u \in Crew(k) : opened'[u] = opened[u]
    <3>1. t \notin Crew(k)
      BY <1>1, <1>3, <1>7, <1>8, <1>15, RunnerAlone
    <3>2. Crew(k) \subseteq Task
      BY <1>1, <1>3, <1>7, <1>15, CrewTyped
    <3>. QED
      BY <1>10, <3>1, <3>2
  <2>. QED
    BY <1>4, <1>11, <1>12, <1>13, <1>15, <2>1, <2>2, <2>3, BodyKept
<1>16. PICK lo \in Int : lo = Low(J)
  BY <1>1, <1>3, <1>7, NumbersTyped
<1>17. /\ lo + n <= D /\ (~exiting => lo + n = D)
       /\ \A i \in 1 .. n : \A u \in Task : home[u] = opened[t][i] /\ u \notin ended => InGroup(u, D - n + i)
       /\ \A u \in Crew(J) : opened[u] # <<>> => u = t
  <2>1. High(J) = D /\ BodyHolds(J) /\ Active(J)
    BY <1>1, <1>3, <1>7, <1>13 DEF High
  <2>. QED
    BY <1>2, <1>8, <1>16, <2>1 DEF BodyHolds
<1>18. BodyHolds(J)'
  <2>1. PICK m \in Nat, hi \in Int : m = n - 1 /\ hi = D - 1
    BY <1>3, <1>9
  <2>2. Runner(J)' = t /\ Low(J)' = lo /\ High(J)' = hi /\ Len(opened'[t]) = m
    BY <1>1, <1>4, <1>6, <1>7, <1>8, <1>10, <1>11, <1>16, <2>1 DEF High
  <2>3. lo + m <= hi /\ (~exiting' => lo + m = hi)
    BY <1>3, <1>4, <1>9, <1>17, <2>1
  <2>4. ASSUME NEW i \in 1 .. m, NEW u \in Task, home'[u] = opened'[t][i], u \notin ended'
        PROVE  \E j \in 1 .. Len(groups'[hi - m + i]) : groups'[hi - m + i][j] = u
    <3>1. i \in 1 .. n /\ i \in 1 .. (n - 1) /\ hi - m + i = D - n + i
      BY <1>3, <1>9, <2>1, <2>4
    <3>2. InGroup(u, D - n + i)
      BY <1>4, <1>10, <1>17, <2>4, <3>1
    <3>. QED
      BY <1>4, <3>1, <3>2 DEF InGroup
  <2>5. \A u \in Crew(J)' : opened'[u] # <<>> => u = t
    <3>1. Crew(J)' = Crew(J) /\ Crew(J) \subseteq Task
      BY <1>1, <1>3, <1>7, <1>11, CrewTyped
    <3>. QED
      BY <1>10, <1>17, <3>1
  <2>6. \A u \in Crew(J)' : opened'[u] # <<>> => Active(J)' /\ u = Runner(J)'
    <3>1. Active(J)'
      BY <1>7, <1>13
    <3>. QED
      BY <2>2, <2>5, <3>1
  <2>7. BodyAt(J, t, lo, hi, m)'
    BY <2>2, <2>3, <2>4, <2>6 DEF BodyAt
  <2>. QED
    BY <1>16, <2>1, <2>7, BodyIntro
<1>19. ASSUME NEW k \in 1 .. J PROVE CompleteAt(k)'
  <2>1. k \in 1 .. K
    BY <1>7, <1>19
  <2>. QED
    BY <1>1, <1>4, <1>6, <1>19, <2>1, CompleteKept DEF ScopesHold
<1>20. Reached'
  <2>1. ~exiting => depth = D
    BY <1>1, <1>3, <1>4 DEF ScopesHold, Reached
  <2>2. ASSUME ~exiting, NEW u \in Task, home[u] # NoNursery, u \notin ended
        PROVE  \E d \in 1 .. (D - 1) : InGroup(u, d)
    <3>1. PICK d \in 1 .. depth : InGroup(u, d)
      BY <2>2 DEF ScopesHold, Reached
    <3>2. d # D
      BY <1>14, <2>2, <3>1
    <3>3. d \in 1 .. (D - 1)
      BY <1>3, <2>1, <2>2, <3>1, <3>2
    <3>. QED
      BY <3>1, <3>3
  <2>. QED
    BY <1>4, <1>12, <2>2 DEF Reached
<1>21. TasksEndFirst => TasksEndFirst'
  <2>1. ASSUME NEW u \in Task, home[u] = N PROVE u \in ended
    <3>1. n \in 1 .. n /\ D - n + n = D
      BY <1>3, <1>9
    <3>. QED
      BY <1>9, <1>14, <1>17, <2>1, <3>1
  <2>. QED
    BY <1>4, <2>1 DEF TasksEndFirst
<1>. QED
  BY <1>1, <1>6, <1>15, <1>18, <1>19, <1>20, <1>21 DEF ScopesHold

\* A function that returns has left the nurseries it opened.
LEMMA NothingOpen ==
  ASSUME code \in Programs, ProgramOK, TasksTyped, Counted, NEW t \in Task, pc[t] \notin DOMAIN code[t]
  PROVE  opened[t] = <<>>
<1>1. PICK e : e = Len(code[t]) + 1
  OBVIOUS
<1>2. pc[t] = e /\ e \in Nat \ {0} /\ code[t] \in Seq(Ops)
  BY <1>1, CodeTyped DEF Counted, TasksTyped
<1>3. Opens(code[t], e) = Closes(code[t], e)
  BY <1>1, ProgramAssumption DEF Bracketed
<1>4. Opens(code[t], e) \in Nat /\ Closes(code[t], e) \in Nat
  BY <1>2, BracketStep
<1>5. Len(opened[t]) + Closes(code[t], e) = Opens(code[t], e)
  BY <1>2 DEF Counted
<1>6. opened[t] \in Seq(Nursery) /\ Len(opened[t]) = 0
  BY <1>3, <1>4, <1>5 DEF TasksTyped
<1>. QED
  BY <1>6

LEMMA TaskScopes ==
  ASSUME code \in Programs, ProgramOK, GroupsOK, LoopsOK, GroupsHold, ScopesHold, NamesApart, HomesTyped,
         outcome = "running", NEW t \in Task, Step(t), outcome' = "running", ~crossed'
  PROVE  ScopesHold'
<1>0. Stacked /\ TasksTyped /\ Counted
  BY DEF GroupsHold
<1>1. CASE SendClosed(t) \/ Fail(t)
  BY <1>1 DEF SendClosed, Fail, Fails
<1>2. CASE SendBlocks(t) \/ RecvBlocks(t)
  BY <1>2, YieldsScopes DEF SendBlocks, RecvBlocks, Running
<1>3. CASE \/ SendPuts(t) \/ RecvTakes(t) \/ Poll(t) \/ Close(t)
           \/ (CallBuiltin(t) /\ ~exiting)
  <2>1. /\ loops' = loops /\ picking' = picking /\ opened' = opened /\ home' = home
        /\ ended' = ended /\ groups' = groups /\ depth' = depth /\ exiting' = exiting
    BY <1>3 DEF SendPuts, RecvTakes, Poll, Close, CallBuiltin, sched, history
  <2>. QED
    BY <1>0, <2>1, ScopesSame
<1>4. CASE Open(t)
  BY <1>4, OpenScopes
<1>5. CASE Spawn(t)
  BY <1>5, SpawnScopes
<1>6. CASE Join(t)
  BY <1>6, JoinScopes
<1>7. CASE Leave(t)
  BY <1>7 DEF Leave
<1>8. CASE Return(t)
  <2>1. /\ Ends(t) /\ t = current /\ ~picking /\ home' = home /\ opened' = opened /\ exiting' = exiting
        /\ pc[t] \notin DOMAIN code[t]
    BY <1>8 DEF Return, history
  <2>. QED
    BY <1>0, <2>1, NothingOpen, EndsScopes
<1>9. CASE Exit(t) \/ (CallBuiltin(t) /\ exiting)
  <2>1. Ends(t) /\ t = current /\ ~picking /\ home' = home /\ opened' = opened /\ exiting'
    BY <1>9 DEF Exit, CallBuiltin, Running, history
  <2>. QED
    BY <2>1, EndsScopes
<1>. QED
  BY <1>1, <1>2, <1>3, <1>4, <1>5, <1>6, <1>7, <1>8, <1>9 DEF Step

LEMMA LoopScopes ==
  ASSUME code \in Programs, ProgramOK, GroupsOK, LoopsOK, PassesStartOver, GroupsHold, ScopesHold,
         Schedule, outcome' = "running"
  PROVE  ScopesHold'
<1>1. loops # <<>>
  BY DEF Schedule, Resume, NextPass, Deadlock, EndNursery, EndOfPass, InLoop, PassesStartOver
<1>2. ~Deadlock
  BY DEF Deadlock, Fails
<1>3. Resume => ScopesHold'
  BY <1>1, ResumeScopes
<1>4. NextPass => ScopesHold'
  BY <1>1, PassScopes
<1>5. EndNursery => ScopesHold'
  BY <1>1, EndScopes
<1>. QED
  BY <1>2, <1>3, <1>4, <1>5 DEF Schedule

-----------------------------------------------------------------------------
(* What a nursery promises: the theorems *)

\* What a step does to the names: it opens a nursery, ends one, spawns, or nothing.
LEMMA NamesChange ==
  ASSUME GroupsInv, [Next]_vars
  PROVE  \/ opened' = opened /\ home' = home /\ left' = left
         \/ /\ outcome = "running"
            /\ \E t \in Task :
                 \/ Open(t) /\ opened' # opened
                 \/ Spawn(t) /\ home' # home
                 \/ Leave(t)
                 \/ EndNursery /\ t = Top.owner
<1>1. CASE UNCHANGED vars
  BY <1>1 DEF vars, history
<1>2. ASSUME NEW t \in Task, Step(t)
      PROVE  \/ opened' = opened /\ home' = home /\ left' = left
             \/ outcome = "running" /\ ((Open(t) /\ opened' # opened) \/ (Spawn(t) /\ home' # home) \/ Leave(t))
  <2>1. CASE Open(t)
    BY <2>1 DEF Open, Running, Fails, history
  <2>2. CASE Spawn(t)
    BY <2>2 DEF Spawn, Running, Fails, history
  <2>3. CASE Leave(t)
    BY <2>3 DEF Leave, Running
  <2>4. CASE ~Open(t) /\ ~Spawn(t) /\ ~Leave(t)
    BY <1>2, <2>4 DEF Step, SendClosed, SendBlocks, SendPuts, RecvBlocks, RecvTakes, Poll, Close, Join,
       Return, Fail, Exit, CallBuiltin, Yields, Fails, history
  <2>. QED
    BY <2>1, <2>2, <2>3, <2>4
<1>3. CASE Schedule
  <2>1. CASE EndNursery
    <3>1. loops # <<>> /\ outcome = "running"
      BY <2>1 DEF EndNursery, EndOfPass, InLoop, GroupsInv, VerdictInv, PassesStartOver
    <3>2. Top.owner \in Task
      BY <3>1, TopTyped DEF GroupsInv, VerdictInv, Loop
    <3>. QED
      BY <2>1, <3>1, <3>2
  <2>2. CASE ~EndNursery
    BY <1>3, <2>2 DEF Schedule, Resume, NextPass, Deadlock, Fails, history
  <2>. QED
    BY <2>1, <2>2
<1>. QED
  BY <1>1, <1>2, <1>3 DEF Next, Over

LEMMA EnteredStep ==
  ASSUME GroupsInv, [Next]_vars
  PROVE  \A n : Entered(n) => Entered(n)'
<1>0. ProgramOK /\ LoopsOK /\ code' = code
  BY CodeFixed DEF GroupsInv, VerdictInv
<1>1. CASE pc' = pc
  BY <1>0, <1>1 DEF Entered
<1>2. CASE \E t \in Task : outcome = "running" /\ pc' = [pc EXCEPT ![t] = pc[t] + 1]
  <2>1. TasksTyped
    BY <1>2 DEF GroupsInv, GroupInv, GroupsHold
  <2>. QED
    BY <1>0, <1>2, <2>1, EnteredStays
<1>3. ASSUME NEW t \in Task, Step(t), pc' # pc
      PROVE  outcome = "running" /\ pc' = [pc EXCEPT ![t] = pc[t] + 1]
  BY <1>3 DEF Step, SendClosed, SendBlocks, SendPuts, RecvBlocks, RecvTakes, Poll, Close, Open, Spawn,
     Join, Leave, Return, Fail, Exit, CallBuiltin, Yields, Fails, Running, Advance
<1>4. ASSUME Schedule, pc' # pc
      PROVE  outcome = "running" /\ Top.owner \in Task /\ pc' = [pc EXCEPT ![Top.owner] = pc[Top.owner] + 1]
  <2>1. EndNursery
    BY <1>4 DEF Schedule, Resume, NextPass, Deadlock, Fails
  <2>2. loops # <<>> /\ outcome = "running"
    BY <2>1 DEF EndNursery, EndOfPass, InLoop, GroupsInv, VerdictInv, PassesStartOver
  <2>3. Top.owner \in Task
    BY <1>0, <2>2, TopTyped DEF Loop
  <2>. QED
    BY <2>1, <2>2, <2>3 DEF EndNursery, Advance
<1>5. UNCHANGED vars \/ Over => pc' = pc
  BY DEF vars, Over
<1>. QED
  BY <1>1, <1>2, <1>3, <1>4, <1>5 DEF Next

LEMMA NamesStep ==
  ASSUME GroupsInv, NamesApart, HomesTyped, [Next]_vars
  PROVE  NamesApart' /\ HomesTyped'
<1>1. \A n : Entered(n) => Entered(n)'
  BY EnteredStep
<1>2. code \in Programs /\ ProgramOK /\ GroupsOK /\ LoopsOK /\ PassesStartOver /\ code' = code
  BY CodeFixed DEF GroupsInv, VerdictInv
<1>3. CASE opened' = opened /\ home' = home /\ left' = left
  BY <1>1, <1>3, NamesKept DEF HomesTyped
<1>4. ASSUME outcome = "running", NEW t \in Task,
             \/ Open(t) /\ opened' # opened
             \/ Spawn(t) /\ home' # home
             \/ Leave(t)
             \/ EndNursery /\ t = Top.owner
      PROVE  NamesApart' /\ HomesTyped'
  <2>0. GroupsHold /\ TasksTyped /\ Counted /\ Stacked
    BY <1>4 DEF GroupsInv, GroupInv, GroupsHold
  <2>1. CASE Open(t) /\ opened' # opened
    <3>1. PICK N : N = Op(t).n
      OBVIOUS
    <3>2. /\ pc[t] \in DOMAIN code[t] /\ Op(t).op = "open" /\ Op(t) = code[t][pc[t]]
          /\ pc' = [pc EXCEPT ![t] = pc[t] + 1]
          /\ opened' = [opened EXCEPT ![t] = Append(opened[t], N)] /\ home' = home /\ left' = left
      BY <2>1, <3>1 DEF Open, Running, Advance, Fails, history, Op
    <3>3. N \in Nursery /\ ~Entered(N)
      BY <1>2, <2>0, <3>1, <3>2, NurseryIsNew
    <3>4. pc[t] < pc'[t]
      BY <2>0, <3>2 DEF TasksTyped
    <3>5. Entered(N)'
      BY <1>2, <3>1, <3>2, <3>4 DEF Entered
    <3>. QED
      BY <1>1, <2>0, <3>2, <3>3, <3>5, NamesOpened DEF HomesTyped
  <2>2. CASE Spawn(t) /\ home' # home
    <3>1. PICK c : c = Op(t).child
      OBVIOUS
    <3>2. /\ home' = [home EXCEPT ![c] = Scope(t)] /\ opened' = opened /\ left' = left
      BY <2>2, <3>1 DEF Spawn, Fails, history
    <3>3. Scope(t) \in Nursery \union {NoNursery}
      <4>1. CASE opened[t] = <<>>
        BY <4>1 DEF Scope, HomesTyped
      <4>2. CASE opened[t] # <<>>
        <5>1. opened[t] \in Seq(Nursery) /\ Len(opened[t]) \in 1 .. Len(opened[t])
          BY <2>0, <4>2 DEF TasksTyped
        <5>. QED
          BY <4>2, <5>1 DEF Scope, Last
      <4>. QED
        BY <4>1, <4>2
    <3>4. \A u \in Task : home'[u] = home[u] \/ home'[u] = Scope(t)
      BY <3>2 DEF HomesTyped
    <3>5. NamesApart'
      BY <1>1, <2>0, <3>2, <3>4, NamesSpawned
    <3>. QED
      BY <3>2, <3>3, <3>5 DEF HomesTyped
  <2>3. CASE Leave(t) \/ (EndNursery /\ t = Top.owner)
    <3>1. opened[t] # <<>>
      <4>1. CASE Leave(t)
        BY <1>2, <2>0, <4>1, OpenedSome DEF Leave, Running
      <4>2. CASE EndNursery /\ t = Top.owner
        <5>1. loops # <<>>
          BY <1>2, <4>2 DEF EndNursery, EndOfPass, InLoop, PassesStartOver
        <5>2. Len(loops) \in 1 .. Len(loops) /\ Top = loops[Len(loops)]
          BY <1>2, <5>1 DEF LoopsOK, Top, Last
        <5>3. Joining(t)
          BY <2>0, <4>2, <5>2 DEF Stacked
        <5>. QED
          BY <1>2, <2>0, <5>3, OpenedSome DEF Joining
      <4>. QED
        BY <2>3, <4>1, <4>2
    <3>2. /\ opened' = [opened EXCEPT ![t] = Front(opened[t])] /\ home' = home
          /\ left' = left \union {Last(opened[t])}
      BY <2>3 DEF Leave, EndNursery
    <3>3. Last(opened[t]) \in Nursery
      <4>1. opened[t] \in Seq(Nursery) /\ Len(opened[t]) \in 1 .. Len(opened[t])
        BY <2>0, <3>1 DEF TasksTyped
      <4>. QED
        BY <4>1 DEF Last
    <3>4. NamesApart'
      BY <1>1, <2>0, <3>1, <3>2, NamesLeft
    <3>. QED
      BY <3>2, <3>3, <3>4 DEF HomesTyped
  <2>. QED
    BY <1>4, <2>1, <2>2, <2>3
<1>. QED
  BY <1>3, <1>4, NamesChange

LEMMA OnlyGrow ==
  ASSUME [Next]_vars
  PROVE  ended \subseteq ended' /\ (crossed => crossed')
<1>1. ASSUME NEW t \in Task, Step(t) PROVE ended \subseteq ended' /\ (crossed => crossed')
  <2>1. CASE Ends(t) /\ UNCHANGED history
    BY <2>1 DEF Ends, history
  <2>2. CASE Yields(t) \/ Spawn(t) \/ Leave(t)
    BY <2>2 DEF Yields, Spawn, Leave, Fails, history
  <2>3. CASE ~(Ends(t) /\ UNCHANGED history) /\ ~Yields(t) /\ ~Spawn(t) /\ ~Leave(t)
    <3>1. ended' = ended /\ crossed' = crossed
      BY <1>1, <2>3 DEF Step, SendClosed, SendBlocks, SendPuts, RecvBlocks, RecvTakes, Poll, Close, Open,
         Join, Return, Fail, Exit, CallBuiltin, Fails, history
    <3>. QED
      BY <3>1
  <2>. QED
    BY <2>1, <2>2, <2>3
<1>2. Schedule => ended' = ended /\ crossed' = crossed
  BY DEF Schedule, Resume, NextPass, Deadlock, EndNursery, Fails, history
<1>. QED
  BY <1>1, <1>2 DEF Next, Over, vars, history

\* The whole of it: the groups, the names and, while no nursery is crossed, the bodies.
FullInv == GroupsInv /\ HomesTyped /\ ScopeInv

LEMMA BodiesStep ==
  ASSUME FullInv, [Next]_vars, outcome' = "running", ~crossed'
  PROVE  ScopesHold'
<1>0. /\ code \in Programs /\ ProgramOK /\ GroupsOK /\ LoopsOK /\ PassesStartOver
      /\ NamesApart /\ HomesTyped /\ ~crossed
      /\ outcome = "running" => GroupsHold /\ Stacked /\ TasksTyped /\ ScopesHold
  BY OnlyGrow DEF FullInv, ScopeInv, GroupsInv, VerdictInv, GroupInv, GroupsHold
<1>1. CASE UNCHANGED vars
  <2>1. /\ loops' = loops /\ picking' = picking /\ opened' = opened /\ home' = home /\ ended' = ended
        /\ groups' = groups /\ depth' = depth /\ exiting' = exiting /\ outcome = "running"
    BY <1>1 DEF vars, sched, history
  <2>. QED
    BY <1>0, <2>1, ScopesSame
<1>2. ASSUME NEW t \in Task, Step(t) PROVE ScopesHold'
  <2>1. outcome = "running"
    BY <1>2 DEF Step, SendClosed, SendBlocks, SendPuts, RecvBlocks, RecvTakes, Poll, Close, Open, Spawn,
       Join, Leave, Return, Fail, Exit, CallBuiltin, Running
  <2>. QED
    BY <1>0, <1>2, <2>1, TaskScopes
<1>3. CASE Schedule
  <2>1. outcome = "running"
    BY <1>3 DEF Schedule, Resume, NextPass, Deadlock, EndNursery, EndOfPass, InLoop
  <2>. QED
    BY <1>0, <1>3, <2>1, LoopScopes
<1>. QED
  BY <1>1, <1>2, <1>3 DEF Next, Over

LEMMA EndFirstStep ==
  ASSUME FullInv, [Next]_vars
  PROVE  TasksEndFirstUncrossed'
<1>0. SUFFICES ASSUME ~crossed' PROVE TasksEndFirst'
  BY DEF TasksEndFirstUncrossed
<1>1. /\ code \in Programs /\ ProgramOK /\ GroupsOK /\ LoopsOK /\ PassesStartOver
      /\ NamesApart /\ HomesTyped /\ ~crossed /\ TasksEndFirst /\ ended \subseteq ended'
      /\ outcome = "running" => GroupsHold /\ TasksTyped /\ ScopesHold
  BY <1>0, OnlyGrow
  DEF FullInv, ScopeInv, GroupsInv, VerdictInv, GroupInv, GroupsHold, TasksEndFirstUncrossed
<1>2. CASE home' = home /\ left' = left
  BY <1>1, <1>2 DEF TasksEndFirst
<1>3. ASSUME outcome = "running", NEW t \in Task, Spawn(t), home' # home PROVE TasksEndFirst'
  <2>1. PICK c, N : c = Op(t).child /\ N = Last(opened[t])
    OBVIOUS
  <2>2. opened[t] # <<>> /\ home' = [home EXCEPT ![c] = N] /\ left' = left
    BY <1>0, <1>3, <2>1 DEF Spawn, Fails, history, Scope
  <2>3. N \notin left
    <3>1. Len(opened[t]) \in 1 .. Len(opened[t]) /\ N = opened[t][Len(opened[t])]
      BY <1>1, <1>3, <2>1, <2>2 DEF TasksTyped, Last
    <3>. QED
      BY <1>1, <3>1 DEF NamesApart
  <2>. QED
    BY <1>1, <2>2, <2>3 DEF TasksEndFirst, HomesTyped
<1>4. CASE EndNursery
  <2>1. loops # <<>> /\ outcome = "running"
    BY <1>1, <1>4 DEF EndNursery, EndOfPass, InLoop, PassesStartOver
  <2>. QED
    BY <1>1, <1>4, <2>1, EndScopes
<1>5. ASSUME NEW t \in Task, Open(t) \/ Leave(t) PROVE home' = home /\ left' = left
  BY <1>0, <1>5 DEF Open, Leave, Fails, history
<1>. QED
  BY <1>2, <1>3, <1>4, <1>5, NamesChange DEF FullInv

LEMMA StuckStep ==
  ASSUME FullInv, [Next]_vars
  PROVE  ProgramIsStuck'
<1>0. SUFFICES ASSUME outcome' = "deadlock", Len(loops') = 1, Top'.g = 1, ~crossed', ~exiting'
      PROVE  \A t \in Task : home'[t] # NoNursery => t \in ended' \/ Stuck(t)'
  BY DEF ProgramIsStuck, Top
<1>1. /\ GroupsOK /\ LoopsOK /\ PassesStartOver /\ ProgramIsStuck /\ ~crossed
      /\ outcome = "running" => GroupsHold /\ Stacked /\ ScopesHold
  BY <1>0, OnlyGrow DEF FullInv, ScopeInv, GroupsInv, VerdictInv, GroupInv, GroupsHold
<1>2. CASE UNCHANGED vars
  BY <1>0, <1>1, <1>2 DEF vars, sched, channels, history, ProgramIsStuck, Stuck, Op, Top, Empty
<1>3. CASE Deadlock
  <2>1. /\ outcome = "running" /\ picking /\ loops # <<>> /\ ~exiting
        /\ loops' = loops /\ groups' = groups /\ home' = home /\ ended' = ended
    BY <1>0, <1>1, <1>3 DEF Deadlock, EndOfPass, InLoop, Fails, history, PassesStartOver
  <2>2. PICK l : l = Top
    OBVIOUS
  <2>3. l.g = 1 /\ depth = 1
    BY <1>0, <1>1, <2>1, <2>2, CrewIdle DEF Top, ScopesHold, Reached
  <2>4. l.n = Len(groups[1]) /\ \A i \in l.done : groups[1][i] \in ended
    <3>1. CompleteAt(Len(loops))
      BY <1>1, <2>1, CrewIdle DEF ScopesHold
    <3>. QED
      BY <1>1, <2>1, <2>2, <2>3, <3>1, CrewIdle DEF CompleteAt
  <2>5. DeadlockIsReal'
    BY VerdictInvStep DEF FullInv, GroupsInv, VerdictInv
  <2>6. ASSUME NEW i \in 1 .. l.n, i \notin l.done, NEW u, u = groups[1][i]
        PROVE  Stuck(u)'
    <3>1. \A j \in Remaining(Top)' : Stuck(TaskAt(Top, j))'
      BY <1>0, <2>1, <2>5 DEF DeadlockIsReal
    <3>2. i \in Remaining(Top)'
      BY <2>1, <2>2, <2>6 DEF Remaining, Top
    <3>3. u = TaskAt(Top, i)'
      BY <2>1, <2>2, <2>3, <2>6 DEF TaskAt, Top
    <3>. QED
      BY <3>1, <3>2, <3>3 DEF Stuck, Op, TaskAt
  <2>7. ASSUME NEW t \in Task, home[t] # NoNursery, t \notin ended PROVE Stuck(t)'
    <3>1. PICK d \in 1 .. depth : InGroup(t, d)
      BY <1>1, <2>1, <2>7 DEF ScopesHold, Reached
    <3>2. InGroup(t, 1)
      BY <2>3, <3>1
    <3>3. PICK i \in 1 .. l.n : groups[1][i] = t
      BY <2>4, <3>2 DEF InGroup
    <3>. QED
      BY <2>4, <2>6, <2>7, <3>3
  <2>. QED
    BY <2>1, <2>7
<1>4. ASSUME NEW t \in Task, Step(t) PROVE FALSE
  <2>1. loops' = <<>>
    BY <1>0, <1>4 DEF Step, SendClosed, SendBlocks, SendPuts, RecvBlocks, RecvTakes, Poll, Close, Open, Spawn,
       Join, Leave, Return, Fail, Exit, CallBuiltin, Yields, Ends, Fails, Running
  <2>. QED
    BY <1>0, <2>1
<1>5. ~Resume /\ ~NextPass /\ ~EndNursery
  BY <1>0 DEF Resume, NextPass, EndNursery, EndOfPass, InLoop
<1>. QED
  BY <1>2, <1>3, <1>4, <1>5 DEF Next, Schedule, Over

LEMMA FullInvStep ==
  ASSUME FullInv, [Next]_vars
  PROVE  FullInv'
<1>1. GroupsInv' /\ NamesApart' /\ HomesTyped'
  BY GroupsInvStep, NamesStep DEF FullInv, ScopeInv
<1>2. outcome' = "running" /\ ~crossed' => ScopesHold'
  BY BodiesStep
<1>3. TasksEndFirstUncrossed' /\ ProgramIsStuck'
  BY EndFirstStep, StuckStep
<1>. QED
  BY <1>1, <1>2, <1>3 DEF FullInv, ScopeInv

LEMMA FullInvInit == ASSUME Init PROVE FullInv
<1>1. /\ loops = <<>> /\ depth = 0 /\ ~picking /\ current = Main /\ Len(loops) = 0
      /\ ended = {} /\ left = {} /\ outcome = "running" /\ pc = [t \in Task |-> 1]
      /\ opened = [t \in Task |-> <<>>] /\ home = [t \in Task |-> NoNursery]
  BY DEF Init
<1>2. GroupsInv
  BY GroupsInvInit
<1>3. HomesTyped /\ NamesApart
  BY <1>1 DEF HomesTyped, NamesApart
<1>4. BodyHolds(0)
  <2>1. Crew(0) = {Main} /\ Runner(0) = Main /\ Low(0) = 0 /\ High(0) = 0 /\ opened[Main] = <<>>
    BY <1>1, TaskAssumption DEF Crew, Runner, Low, High, TaskAssumption
  <2>. QED
    BY <2>1 DEF BodyHolds
<1>5. ScopesHold
  BY <1>1, <1>4 DEF ScopesHold, Reached
<1>6. TasksEndFirstUncrossed /\ ProgramIsStuck
  BY <1>1 DEF TasksEndFirstUncrossed, TasksEndFirst, ProgramIsStuck
<1>. QED
  BY <1>2, <1>3, <1>5, <1>6 DEF FullInv, ScopeInv

\* A nursery is left only after its tasks have ended, as long as no task is
\* suspended in a nursery's body, jumps out of one or spawns from outside of one:
\* then the innermost level of the VM belongs to the task that runs, and the loop of
\* a nursery has the tasks of that nursery (docs/language.md:1498).
THEOREM TasksStayInScope == Spec => []TasksEndFirstUncrossed
<1>1. Init => FullInv
  BY FullInvInit
<1>2. FullInv => TasksEndFirstUncrossed
  BY DEF FullInv, ScopeInv
<1>. QED
  BY <1>1, <1>2, FullInvStep, PTL DEF Spec

\* When the loop of the outermost nursery reports a deadlock every task of the
\* program that has not ended is stuck, not only those that the loop looked at
\* (vm.c:4274).
THEOREM DeadlockIsTotal == Spec => []ProgramIsStuck
<1>1. Init => FullInv
  BY FullInvInit
<1>2. FullInv => ProgramIsStuck
  BY DEF FullInv, ScopeInv
<1>. QED
  BY <1>1, <1>2, FullInvStep, PTL DEF Spec


=============================================================================
