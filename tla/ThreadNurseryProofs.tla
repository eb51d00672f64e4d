------------------------ MODULE ThreadNurseryProofs ------------------------
(***************************************************************************)
(* Proofs about the 1:1 runtime: its types, that the VM's deadlock verdict *)
(* is never a false one while a single nursery is open, and that no thread *)
(* sleeps on a channel past the last signal that could have woken it.      *)
(***************************************************************************)
EXTENDS ThreadNursery, SequenceTheorems, FiniteSetTheorems, TLAPS

\* At most one nursery is open at a time.  With two, a task of the inner one
\* may wait for a task of the outer one, which the detector does not see.
OneNursery ==
  \A t, u \in Thread : opened[t] # <<>> /\ opened[u] # <<>> =>
    t = u /\ Len(opened[t]) = 1

-----------------------------------------------------------------------------
(* The inductive invariants *)

\* A thread inside an operation is at that operation of its script.
AtItsOp(t) ==
  /\ stage[t] \in {"test", "park", "doze", "asleep", "woken", "act"} =>
       /\ pc[t] \in DOMAIN setup.code[t]
       /\ Op(t) \in [op : {"send", "recv"}, ch : Channel]
  /\ stage[t] = "inline" =>
       /\ pc[t] \in DOMAIN setup.code[t]
       /\ Op(t) \in [op : {"spawn"}, child : Thread]
  /\ stage[t] = "join" => opened[t] # <<>>

\* A task of a compiled program that fails takes the process with it.
NoNativeFailure == setup.native => failed = {}

TypeInv == TypeOK /\ \A t \in Thread : AtItsOp(t)

\* The rest is about the VM.  A channel never holds more than its capacity.
WithinCapacity == \A c \in Channel : Len(buf[c]) <= Capacity[c]

\* A task is tracked in the group it belongs to, and is active there only
\* while it waits.
Membership ==
  /\ \A n \in Nursery : \A t \in group[n].tasks : nursery[t] = n /\ stage[t] # "unborn"
  /\ \A n \in Nursery : \A t \in group[n].active :
       /\ t \in group[n].tasks /\ t \in parked
       /\ stage[t] \in {"test", "doze", "asleep", "woken"}
  /\ \A t \in Thread : stage[t] = "park" => t \in parked

\* A sealed group has its parent in the join.
SealedInJoin ==
  \A n \in Nursery : group[n].sealed =>
    \E t \in Thread : opened[t] = <<n>> /\ stage[t] = "join"

\* A thread that lives is the main one or a task of an open nursery.
LiveInGroup ==
  /\ stage[Main] # "unborn" /\ nursery[Main] = NoNursery
  /\ \A t \in Thread : \/ stage[t] \in {"unborn", "ended"} \/ t = Main
                       \/ \E u \in Thread : /\ opened[u] # <<>>
                                            /\ t \in group[Head(opened[u])].tasks

VerdictSealed == \A n \in Nursery : group[n].deadlocked => group[n].sealed

Tracked == Membership /\ SealedInJoin /\ LiveInGroup /\ VerdictSealed

GroupInv == WithinCapacity /\ Tracked /\ VerdictIsReal

-----------------------------------------------------------------------------
(* What the helpers do *)

GroupBlock == [tasks : SUBSET Thread, active : SUBSET Thread,
               sealed : BOOLEAN, deadlocked : BOOLEAN]

\* t goes to s; the others stay where they are, or are woken.
Moves(t, s) ==
  /\ stage' \in [Thread -> Stages]
  /\ stage'[t] = s
  /\ \A u \in Thread \ {t} : \/ stage'[u] = stage[u]
                             \/ stage[u] = "asleep" /\ stage'[u] = "woken"

\* What a running thread finds in its script.
LEMMA OpType ==
  ASSUME TypeOK, NEW t \in Thread, pc[t] \in DOMAIN setup.code[t]
  PROVE  Op(t) \in Ops
  BY SetupAssumption DEF TypeOK, Op

\* The operations with a channel, with a nursery, and with a child.
LEMMA OpShape ==
  ASSUME NEW o \in Ops
  PROVE  /\ o.op \in {"send", "recv"} => o \in [op : {"send", "recv"}, ch : Channel]
         /\ o.op \in {"send", "recv", "poll", "close"} => o.ch \in Channel
         /\ o.op = "open" => o.n \in Nursery
         /\ o.op = "spawn" => o \in [op : {"spawn"}, child : Thread]
  BY DEF Ops

LEMMA GotoMoves ==
  ASSUME TypeOK, NEW t \in Thread, NEW s \in Stages, Goto(t, s)
  PROVE  Moves(t, s)
  BY DEF TypeOK, Goto, Moves

LEMMA WakingMoves ==
  ASSUME TypeOK, NEW t \in Thread, NEW s \in Stages, NEW W,
         \A u \in W : stage[u] = "asleep", GotoWaking(t, s, W)
  PROVE  Moves(t, s)
<1>1. "woken" \in Stages
  BY DEF Stages
<1> QED
  BY <1>1 DEF TypeOK, GotoWaking, Moves

LEMMA SignalledAsleep ==
  ASSUME NEW c, NEW op, NEW W \in Signalled(c, op)
  PROVE  \A u \in W : stage[u] = "asleep"
  BY DEF Signalled, Asleep

\* The detector records its block, with or without the verdict.
LEMMA DetectMoves ==
  ASSUME TypeOK, NEW t \in Thread, NEW n \in Nursery, NEW g \in GroupBlock,
         NEW s \in Stages, Detect(t, n, g, s)
  PROVE  /\ \/ Moves(t, s)
            \/ Moves(t, "dying") /\ setup.native
         /\ \/ group' = [group EXCEPT ![n] = g]
            \/ Stuck(g) /\ group' = [group EXCEPT ![n] = [g EXCEPT !.deadlocked = TRUE]]
         /\ group' \in [Nursery -> GroupBlock]
<1> DEFINE Sleepers == {u \in Thread : \E v \in g.active : u \in Asleep(Op(v).ch, Op(v).op)}
<1>1. \A u \in Sleepers : stage[u] = "asleep"
  BY DEF Asleep
<1>2. "dying" \in Stages
  BY DEF Stages
<1>3. [g EXCEPT !.deadlocked = TRUE] \in GroupBlock
  BY DEF GroupBlock
<1>4. group \in [Nursery -> GroupBlock]
  BY DEF TypeOK, GroupBlock
<1>5. CASE Stuck(g)
  <2>1. group' = [group EXCEPT ![n] = [g EXCEPT !.deadlocked = TRUE]]
    BY <1>5 DEF Detect
  <2>2. CASE setup.native
    <3>1. Goto(t, "dying")
      BY <1>5, <2>2 DEF Detect
    <3> QED
      BY <1>2, <1>3, <1>4, <1>5, <2>1, <2>2, <3>1, GotoMoves
  <2>3. CASE ~setup.native
    <3>1. GotoWaking(t, s, Sleepers)
      BY <1>5, <2>3 DEF Detect
    <3>2. Moves(t, s)
      BY ONLY TypeOK, t \in Thread, s \in Stages, <1>1, <3>1, WakingMoves
    <3> QED
      BY <1>3, <1>4, <1>5, <2>1, <3>2
  <2> QED
    BY <2>2, <2>3
<1>6. CASE ~Stuck(g)
  <2>1. group' = [group EXCEPT ![n] = g] /\ Goto(t, s)
    BY <1>6 DEF Detect
  <2> QED
    BY <1>4, <2>1, GotoMoves
<1> QED
  BY <1>5, <1>6

\* The places of the threads that do not move stay right.
LEMMA KeptAtOp ==
  ASSUME TypeInv, NEW t \in Thread, NEW s, Moves(t, s), setup' = setup,
         \A u \in Thread \ {t} : pc'[u] = pc[u] /\ opened'[u] = opened[u],
         AtItsOp(t)'
  PROVE  \A u \in Thread : AtItsOp(u)'
<1> TAKE u \in Thread
<1>1. CASE u = t
  BY <1>1
<1>2. CASE u # t
  <2>1. AtItsOp(u)
    BY DEF TypeInv
  <2>2. stage'[u] = stage[u] \/ (stage[u] = "asleep" /\ stage'[u] = "woken")
    BY <1>2 DEF Moves
  <2>3. pc'[u] = pc[u] /\ opened'[u] = opened[u]
    BY <1>2
  <2> QED
    BY <2>1, <2>2, <2>3 DEF AtItsOp, Op
<1> QED
  BY <1>1, <1>2

LEMMA ErrsMoves ==
  ASSUME TypeOK, NEW t \in Thread, Errs(t)
  PROVE  /\ up' \in BOOLEAN
         /\ \/ setup.native /\ UNCHANGED <<stage, failed>>
            \/ ~setup.native /\ Moves(t, "ended") /\ failed' = failed \cup {t}
<1>1. "ended" \in Stages
  BY DEF Stages
<1>2. CASE setup.native
  BY <1>2 DEF Errs
<1>3. CASE ~setup.native
  <2>1. Goto(t, "ended") /\ up' = (t # Main) /\ failed' = failed \cup {t}
    BY <1>3 DEF Errs, Ends
  <2> QED
    BY <1>1, <1>3, <2>1, GotoMoves
<1> QED
  BY <1>2, <1>3

-----------------------------------------------------------------------------
(* Type correctness *)

LEMMA InitTypeInv == Init => TypeInv
  BY ThreadAssumption, SetupAssumption
  DEF Init, TypeInv, TypeOK, AtItsOp, Stages, NewGroup

\* When nobody moves and no script position changes, nothing is disturbed.
LEMMA StillAtOp ==
  ASSUME TypeInv, UNCHANGED <<setup, pc, stage, opened>>
  PROVE  \A u \in Thread : AtItsOp(u)'
  BY DEF TypeInv, AtItsOp, Op

LEMMA ErrsKeepsTypes ==
  ASSUME TypeInv, NEW t \in Thread, Errs(t), owner' \in [Channel -> Thread \cup {NoThread}],
         UNCHANGED <<setup, pc, parked, nursery, opened, group, buf, closed>>
  PROVE  TypeInv'
<1>1. TypeOK
  BY DEF TypeInv
<1>2. CASE setup.native /\ UNCHANGED <<stage, failed>>
  BY <1>1, <1>2, ErrsMoves, StillAtOp DEF TypeInv, TypeOK
<1>3. CASE Moves(t, "ended") /\ failed' = failed \cup {t}
  <2>1. TypeOK'
    BY <1>1, <1>3, ErrsMoves DEF TypeOK, Moves
  <2>2. AtItsOp(t)'
    BY <1>3 DEF AtItsOp, Moves
  <2> QED
    BY <1>3, <2>1, <2>2, KeptAtOp DEF TypeInv
<1> QED
  BY <1>1, <1>2, <1>3, ErrsMoves

LEMMA SendRecvTypes ==
  ASSUME TypeInv, NEW t \in Thread,
         \/ SendClosed(t) \/ Enter(t) \/ Register(t) \/ KeepWaiting(t)
         \/ StopWaiting(t) \/ Sleep(t) \/ SpuriousWakeup(t) \/ Reacquire(t)
  PROVE  TypeInv'
<1> USE DEF Stages
<1>0. TypeOK /\ AtItsOp(t)
  BY DEF TypeInv
<1>1. CASE SendClosed(t)
  BY <1>0, <1>1, ErrsKeepsTypes DEF SendClosed, TypeOK
<1>2. CASE Enter(t)
  <2>1. Moves(t, "test")
    BY <1>0, <1>2, GotoMoves DEF Enter
  <2>2. pc[t] \in DOMAIN setup.code[t] /\ Op(t).op \in {"send", "recv"}
    BY <1>2 DEF Enter, Running
  <2>3. Op(t) \in [op : {"send", "recv"}, ch : Channel]
    BY <1>0, <2>2, OpType, OpShape
  <2>4. TypeOK'
    BY <1>0, <1>2, <2>1, <2>3 DEF Enter, TypeOK, Moves
  <2>5. AtItsOp(t)'
    BY <1>2, <2>1, <2>2, <2>3 DEF Enter, AtItsOp, Moves, Op
  <2> QED
    BY <1>2, <2>1, <2>4, <2>5, KeptAtOp DEF Enter, TypeInv
<1>3. CASE Register(t)
  <2>1. Moves(t, "park")
    BY <1>0, <1>3, GotoMoves DEF Register
  <2>2. TypeOK'
    BY <1>0, <1>3, <2>1 DEF Register, TypeOK, Moves
  <2>3. AtItsOp(t)'
    BY <1>0, <1>3, <2>1 DEF Register, Inside, AtItsOp, Moves, Op
  <2> QED
    BY <1>3, <2>1, <2>2, <2>3, KeptAtOp DEF Register, TypeInv
<1>4. CASE KeepWaiting(t)
  <2>1. Moves(t, "doze")
    BY <1>0, <1>4, GotoMoves DEF KeepWaiting
  <2>2. TypeOK'
    BY <1>0, <1>4, <2>1 DEF KeepWaiting, TypeOK, Moves
  <2>3. AtItsOp(t)'
    BY <1>0, <1>4, <2>1 DEF KeepWaiting, Inside, AtItsOp, Moves, Op
  <2> QED
    BY <1>4, <2>1, <2>2, <2>3, KeptAtOp DEF KeepWaiting, TypeInv
<1>5. CASE StopWaiting(t)
  <2>1. Moves(t, "act")
    BY <1>0, <1>5, GotoMoves DEF StopWaiting
  <2>2. group' \in [Nursery -> GroupBlock]
    <3>1. CASE group' = group
      BY <1>0, <3>1 DEF TypeOK, GroupBlock
    <3>2. CASE /\ nursery[t] # NoNursery
               /\ group' = [group EXCEPT ![nursery[t]].active = @ \ {t}]
      <4>1. nursery[t] \in Nursery /\ group \in [Nursery -> GroupBlock]
        BY <1>0, <3>2 DEF TypeOK, GroupBlock
      <4> QED
        BY <3>2, <4>1 DEF GroupBlock
    <3> QED
      BY <1>5, <3>1, <3>2 DEF StopWaiting
  <2>3. TypeOK'
    BY <1>0, <1>5, <2>1, <2>2 DEF StopWaiting, TypeOK, Moves, GroupBlock
  <2>4. AtItsOp(t)'
    BY <1>0, <1>5, <2>1 DEF StopWaiting, Inside, AtItsOp, Moves, Op
  <2> QED
    BY <1>5, <2>1, <2>3, <2>4, KeptAtOp DEF StopWaiting, TypeInv
<1>6. CASE Sleep(t)
  <2>1. Moves(t, "asleep")
    BY <1>0, <1>6, GotoMoves DEF Sleep
  <2>2. TypeOK'
    BY <1>0, <1>6, <2>1 DEF Sleep, TypeOK, Moves
  <2>3. AtItsOp(t)'
    BY <1>0, <1>6, <2>1 DEF Sleep, Inside, AtItsOp, Moves, Op
  <2> QED
    BY <1>6, <2>1, <2>2, <2>3, KeptAtOp DEF Sleep, TypeInv
<1>7. CASE SpuriousWakeup(t)
  <2>1. Moves(t, "woken")
    BY <1>0, <1>7, GotoMoves DEF SpuriousWakeup
  <2>2. TypeOK'
    BY <1>0, <1>7, <2>1 DEF SpuriousWakeup, TypeOK, Moves
  <2>3. AtItsOp(t)'
    BY <1>0, <1>7, <2>1 DEF SpuriousWakeup, Inside, AtItsOp, Moves, Op
  <2> QED
    BY <1>7, <2>1, <2>2, <2>3, KeptAtOp DEF SpuriousWakeup, TypeInv
<1>8. CASE Reacquire(t)
  <2>1. Moves(t, "test")
    BY <1>0, <1>8, GotoMoves DEF Reacquire
  <2>2. TypeOK'
    BY <1>0, <1>8, <2>1 DEF Reacquire, TypeOK, Moves
  <2>3. AtItsOp(t)'
    BY <1>0, <1>8, <2>1 DEF Reacquire, Inside, AtItsOp, Moves, Op
  <2> QED
    BY <1>8, <2>1, <2>2, <2>3, KeptAtOp DEF Reacquire, TypeInv
<1> QED
  BY <1>1, <1>2, <1>3, <1>4, <1>5, <1>6, <1>7, <1>8

\* The ring stays a sequence of values.
LEMMA StoredType ==
  ASSUME TypeOK, NEW c \in Channel, NEW v \in Thread
  PROVE  Stored(c, v) \in Seq(Thread)
<1>1. buf[c] \in Seq(Thread) /\ Capacity[c] \in Nat \ {0}
  BY ThreadAssumption DEF TypeOK
<1>2. CASE Len(buf[c]) < Capacity[c]
  BY <1>1, <1>2 DEF Stored
<1>3. CASE ~(Len(buf[c]) < Capacity[c])
  <2> DEFINE i == Len(buf[c]) - Capacity[c] + 1
  <2>1. i \in 1..Len(buf[c])
    BY <1>1, <1>3
  <2>2. [buf[c] EXCEPT ![i] = v] \in Seq(Thread)
    BY <1>1, <2>1, ExceptSeq
  <2> QED
    BY <1>3, <2>2 DEF Stored
<1> QED
  BY <1>2, <1>3

\* A step that ends an operation: t is between operations, at its next one.
LEMMA DoneAtOp ==
  ASSUME TypeInv, NEW t \in Thread, Moves(t, "run"), Advance(t),
         UNCHANGED <<setup, opened>>
  PROVE  /\ \A u \in Thread : AtItsOp(u)'
         /\ pc' \in [Thread -> Nat \ {0}]
<1>1. pc' \in [Thread -> Nat \ {0}]
  BY DEF TypeInv, TypeOK, Advance
<1>2. AtItsOp(t)'
  BY DEF AtItsOp, Moves
<1>3. \A u \in Thread \ {t} : pc'[u] = pc[u]
  BY DEF TypeInv, TypeOK, Advance
<1> QED
  BY <1>1, <1>2, <1>3, KeptAtOp

\* Who is signalled is moved.
LEMMA SignalMoves ==
  ASSUME TypeOK, NEW t \in Thread, NEW c, NEW op,
         \E woken \in Signalled(c, op) : GotoWaking(t, "run", woken)
  PROVE  Moves(t, "run")
<1>1. PICK W \in Signalled(c, op) : GotoWaking(t, "run", W)
  OBVIOUS
<1>2. \A u \in W : stage[u] = "asleep"
  BY SignalledAsleep
<1>3. "run" \in Stages
  BY DEF Stages
<1> QED
  BY ONLY TypeOK, t \in Thread, <1>1, <1>2, <1>3, WakingMoves

LEMMA ParkTypes ==
  ASSUME TypeInv, NEW t \in Thread, NurseryPark(t)
  PROVE  TypeInv'
<1>0. TypeOK /\ AtItsOp(t) /\ stage[t] = "park"
  BY DEF TypeInv, NurseryPark, Inside
<1>1. /\ \/ Moves(t, "test")
         \/ Moves(t, "dying")
      /\ group' \in [Nursery -> GroupBlock]
  <2>0. "test" \in Stages
    BY DEF Stages
  <2>1. CASE nursery[t] = NoNursery
    <3>1. Goto(t, "test") /\ group' = group
      BY <2>1 DEF NurseryPark
    <3> QED
      BY <1>0, <2>0, <3>1, GotoMoves DEF TypeOK, GroupBlock
  <2>2. CASE nursery[t] # NoNursery
    <3> DEFINE n == nursery[t]
               g == [group[n] EXCEPT !.active = @ \cup {t}]
    <3>1. Detect(t, n, g, "test")
      BY <2>2 DEF NurseryPark
    <3>2. n \in Nursery /\ group[n] \in GroupBlock
      BY <1>0, <2>2 DEF TypeOK, GroupBlock
    <3>3. g \in GroupBlock
      BY <3>2 DEF GroupBlock
    <3> HIDE DEF n, g
    <3> QED
      BY <1>0, <2>0, <3>1, <3>2, <3>3, DetectMoves
  <2> QED
    BY <2>1, <2>2
<1>2. UNCHANGED <<setup, up, pc, parked, failed, nursery, opened, owner, buf, closed>>
  BY DEF NurseryPark
<1>3. TypeOK'
  BY <1>0, <1>1, <1>2 DEF TypeOK, Moves, GroupBlock
<1>4. AtItsOp(t)'
  BY <1>0, <1>1, <1>2 DEF AtItsOp, Moves, Op
<1> QED
  BY <1>1, <1>2, <1>3, <1>4, KeptAtOp DEF TypeInv

LEMMA ActTypes ==
  ASSUME TypeInv, NEW t \in Thread,
         \/ SendPut(t) \/ SendRefused(t) \/ RecvValue(t) \/ RecvNone(t) \/ RecvRefused(t)
  PROVE  TypeInv'
<1> DEFINE c == Op(t).ch
<1>0. TypeOK /\ AtItsOp(t) /\ "run" \in Stages
  BY DEF TypeInv, Stages
<1>1. stage[t] = "act" /\ c \in Channel
  BY <1>0 DEF SendPut, SendRefused, RecvValue, RecvNone, RecvRefused, Acting, Inside, AtItsOp
<1>2. owner' \in [Channel -> Thread \cup {NoThread}]
  BY <1>0, <1>1 DEF TypeOK, Unlock, SendPut, SendRefused, RecvValue, RecvNone, RecvRefused
<1> HIDE DEF c
<1>3. CASE SendPut(t)
  <2>1. Moves(t, "run")
    BY <1>0, <1>3, SignalMoves DEF SendPut
  <2>2. buf' \in [Channel -> Seq(Thread)]
    BY <1>0, <1>1, <1>3, StoredType DEF SendPut, TypeOK, c
  <2>3. (\A u \in Thread : AtItsOp(u)') /\ pc' \in [Thread -> Nat \ {0}]
    BY <1>3, <2>1, DoneAtOp DEF SendPut
  <2>4. TypeOK'
    BY <1>0, <1>2, <1>3, <2>1, <2>2, <2>3 DEF SendPut, TypeOK, Moves
  <2> QED
    BY <2>3, <2>4 DEF TypeInv
<1>4. CASE RecvValue(t)
  <2>1. Moves(t, "run")
    BY <1>0, <1>4, SignalMoves DEF RecvValue
  <2>2. buf' \in [Channel -> Seq(Thread)]
    BY <1>0, <1>1, <1>4 DEF RecvValue, TypeOK, c
  <2>3. (\A u \in Thread : AtItsOp(u)') /\ pc' \in [Thread -> Nat \ {0}]
    BY <1>4, <2>1, DoneAtOp DEF RecvValue
  <2>4. TypeOK'
    BY <1>0, <1>2, <1>4, <2>1, <2>2, <2>3 DEF RecvValue, TypeOK, Moves
  <2> QED
    BY <2>3, <2>4 DEF TypeInv
<1>5. CASE RecvNone(t)
  <2>1. Moves(t, "run")
    BY <1>0, <1>5, GotoMoves DEF RecvNone
  <2>3. (\A u \in Thread : AtItsOp(u)') /\ pc' \in [Thread -> Nat \ {0}]
    BY <1>5, <2>1, DoneAtOp DEF RecvNone
  <2>4. TypeOK'
    BY <1>0, <1>2, <1>5, <2>1, <2>3 DEF RecvNone, TypeOK, Moves
  <2> QED
    BY <2>3, <2>4 DEF TypeInv
<1>6. CASE SendRefused(t)
  BY <1>2, <1>6, ErrsKeepsTypes DEF SendRefused
<1>7. CASE RecvRefused(t)
  BY <1>2, <1>7, ErrsKeepsTypes DEF RecvRefused
<1> QED
  BY <1>3, <1>4, <1>5, <1>6, <1>7

LEMMA PollCloseTypes ==
  ASSUME TypeInv, NEW t \in Thread,
         PollValue(t) \/ PollNone(t) \/ CloseChannel(t)
  PROVE  TypeInv'
<1> DEFINE c == Op(t).ch
<1>0. TypeOK /\ "run" \in Stages
  BY DEF TypeInv, Stages
<1>1. stage[t] = "run" /\ c \in Channel
  <2>1. /\ stage[t] = "run" /\ pc[t] \in DOMAIN setup.code[t]
        /\ Op(t).op \in {"poll", "close"}
    BY DEF PollValue, PollNone, CloseChannel, Running
  <2> QED
    BY <1>0, <2>1, OpType, OpShape
<1> HIDE DEF c
<1>2. CASE PollValue(t)
  <2>1. Moves(t, "run")
    BY <1>0, <1>2, SignalMoves DEF PollValue
  <2>2. buf' \in [Channel -> Seq(Thread)]
    BY <1>0, <1>1, <1>2 DEF PollValue, TypeOK, c
  <2>3. (\A u \in Thread : AtItsOp(u)') /\ pc' \in [Thread -> Nat \ {0}]
    BY <1>2, <2>1, DoneAtOp DEF PollValue
  <2>4. TypeOK'
    BY <1>0, <1>2, <2>1, <2>2, <2>3 DEF PollValue, TypeOK, Moves
  <2> QED
    BY <2>3, <2>4 DEF TypeInv
<1>3. CASE PollNone(t)
  <2>1. Moves(t, "run")
    BY <1>0, <1>1, <1>3 DEF PollNone, Moves, TypeOK
  <2>3. (\A u \in Thread : AtItsOp(u)') /\ pc' \in [Thread -> Nat \ {0}]
    BY <1>3, <2>1, DoneAtOp DEF PollNone
  <2>4. TypeOK'
    BY <1>0, <1>3, <2>1, <2>3 DEF PollNone, TypeOK, Moves
  <2> QED
    BY <2>3, <2>4 DEF TypeInv
<1>4. CASE CloseChannel(t)
  <2>1. Moves(t, "run")
    <3>1. \A u \in Asleep(c, "recv") \cup Asleep(c, "send") : stage[u] = "asleep"
      BY DEF Asleep
    <3>2. GotoWaking(t, "run", Asleep(c, "recv") \cup Asleep(c, "send"))
      BY <1>4 DEF CloseChannel, c
    <3> QED
      BY ONLY t \in Thread, <1>0, <3>1, <3>2, WakingMoves
  <2>2. closed' \in [Channel -> BOOLEAN]
    BY <1>0, <1>4 DEF CloseChannel, TypeOK
  <2>3. (\A u \in Thread : AtItsOp(u)') /\ pc' \in [Thread -> Nat \ {0}]
    BY <1>4, <2>1, DoneAtOp DEF CloseChannel
  <2>4. TypeOK'
    BY <1>0, <1>4, <2>1, <2>2, <2>3 DEF CloseChannel, TypeOK, Moves
  <2> QED
    BY <2>3, <2>4 DEF TypeInv
<1> QED
  BY <1>2, <1>3, <1>4

LEMMA OpenJoinTypes ==
  ASSUME TypeInv, NoNativeFailure, NEW t \in Thread, Open(t) \/ InlineDone(t) \/ Seal(t) \/ Join(t)
  PROVE  TypeInv'
<1> DEFINE n == Head(opened[t])
<1>0. TypeOK /\ AtItsOp(t) /\ "run" \in Stages /\ "join" \in Stages
  BY DEF TypeInv, Stages
<1>a. group \in [Nursery -> GroupBlock] /\ NewGroup \in GroupBlock
  BY <1>0 DEF TypeOK, GroupBlock, NewGroup
<1>b. opened[t] # <<>> => n \in Nursery /\ Tail(opened[t]) \in Seq(Nursery)
  BY <1>0 DEF TypeOK
<1> HIDE DEF n
<1>1. CASE Open(t)
  <2>1. Op(t).n \in Nursery
    BY <1>0, <1>1, OpType, OpShape DEF Open, Running
  <2>2. /\ stage[t] = "run" /\ stage' = stage
        /\ opened' \in [Thread -> Seq(Nursery)]
        /\ group' \in [Nursery -> GroupBlock]
        /\ \A u \in Thread \ {t} : opened'[u] = opened[u]
    <3>1. <<Op(t).n>> \o opened[t] \in Seq(Nursery)
      BY <1>0, <2>1 DEF TypeOK
    <3> QED
      BY <1>0, <1>1, <1>a, <2>1, <3>1 DEF Open, Running, TypeOK
  <2>3. pc' \in [Thread -> Nat \ {0}] /\ \A u \in Thread \ {t} : pc'[u] = pc[u]
    BY <1>0, <1>1 DEF Open, Advance, TypeOK
  <2>4. Moves(t, "run")
    BY <1>0, <2>2 DEF Moves, TypeOK
  <2>5. AtItsOp(t)'
    BY <2>4 DEF Moves, AtItsOp
  <2>6. TypeOK'
    BY <1>0, <1>1, <2>2, <2>3 DEF Open, TypeOK, GroupBlock
  <2> QED
    BY <1>1, <2>2, <2>3, <2>4, <2>5, <2>6, KeptAtOp DEF Open, TypeInv
<1>2. CASE InlineDone(t)
  <2>1. Moves(t, "run")
    BY <1>0, <1>2, GotoMoves DEF InlineDone
  <2>2. (\A u \in Thread : AtItsOp(u)') /\ pc' \in [Thread -> Nat \ {0}]
    BY <1>2, <2>1, DoneAtOp DEF InlineDone
  <2>3. TypeOK'
    BY <1>0, <1>2, <2>1, <2>2 DEF InlineDone, TypeOK, Moves
  <2> QED
    BY <2>2, <2>3 DEF TypeInv
<1>3. CASE Seal(t)
  <2> DEFINE g == [group[n] EXCEPT !.sealed = TRUE]
  <2>1. n \in Nursery /\ opened[t] # <<>> /\ Detect(t, n, g, "join")
    BY <1>3, <1>b DEF Seal, n
  <2>2. g \in GroupBlock
    BY <1>a, <2>1 DEF GroupBlock
  <2> HIDE DEF g
  <2>3. /\ Moves(t, "join") \/ Moves(t, "dying")
        /\ group' \in [Nursery -> GroupBlock]
    BY <1>0, <2>1, <2>2, DetectMoves
  <2>4. AtItsOp(t)'
    BY <1>3, <2>1, <2>3 DEF Seal, Moves, AtItsOp
  <2>5. TypeOK'
    BY <1>0, <1>3, <2>3 DEF Seal, TypeOK, Moves, GroupBlock
  <2> QED
    BY <1>3, <2>3, <2>4, <2>5, KeptAtOp DEF Seal, TypeInv
<1>4. CASE Join(t)
  <2>1. n \in Nursery /\ Tail(opened[t]) \in Seq(Nursery) /\ stage[t] = "join"
    BY <1>0, <1>4, <1>b DEF Join, Inside, AtItsOp
  <2>2. /\ opened' \in [Thread -> Seq(Nursery)]
        /\ group' \in [Nursery -> GroupBlock]
        /\ \A u \in Thread \ {t} : opened'[u] = opened[u]
    BY <1>0, <1>4, <1>a, <2>1 DEF Join, TypeOK
  <2>3. \/ Errs(t) /\ UNCHANGED pc
        \/ Goto(t, "run") /\ Advance(t) /\ UNCHANGED <<up, failed>>
    BY <1>4 DEF Join
  <2>5. CASE /\ Errs(t) /\ UNCHANGED pc
             /\ Moves(t, "ended") /\ failed' = failed \cup {t}
    <3>1. up' \in BOOLEAN
      BY <1>0, <2>5, ErrsMoves
    <3>2. TypeOK'
      BY <1>0, <1>4, <2>2, <2>5, <3>1 DEF Join, TypeOK, GroupBlock, Moves
    <3>3. AtItsOp(t)'
      BY <2>5 DEF Moves, AtItsOp
    <3> QED
      BY <1>4, <2>2, <2>5, <3>2, <3>3, KeptAtOp DEF Join, TypeInv
  <2>6. CASE Goto(t, "run") /\ Advance(t) /\ UNCHANGED <<up, failed>>
    <3>1. Moves(t, "run")
      BY <1>0, <2>6, GotoMoves
    <3>2. pc' \in [Thread -> Nat \ {0}] /\ \A u \in Thread \ {t} : pc'[u] = pc[u]
      BY <1>0, <2>6 DEF Advance, TypeOK
    <3>3. AtItsOp(t)'
      BY <3>1 DEF Moves, AtItsOp
    <3>4. TypeOK'
      BY <1>0, <1>4, <2>2, <2>6, <3>1, <3>2 DEF Join, TypeOK, GroupBlock, Moves
    <3> QED
      BY <1>4, <2>2, <3>1, <3>2, <3>3, <3>4, KeptAtOp DEF Join, TypeInv
  <2>7. ~setup.native \/ ~Errs(t) \/ (Goto(t, "run") /\ Advance(t) /\ UNCHANGED <<up, failed>>)
    BY <1>4 DEF Join, NoNativeFailure
  <2> QED
    BY <1>0, <2>3, <2>5, <2>6, <2>7, ErrsMoves
<1> QED
  BY <1>1, <1>2, <1>3, <1>4

LEMMA SpawnTypes ==
  ASSUME TypeInv, NEW t \in Thread, Spawn(t)
  PROVE  TypeInv'
<1> DEFINE n == Head(opened[t])
           u == Op(t).child
<1>0. TypeOK /\ stage[t] = "run" /\ pc[t] \in DOMAIN setup.code[t] /\ Op(t).op = "spawn"
  BY DEF TypeInv, Spawn, Running
<1>1. Op(t) \in [op : {"spawn"}, child : Thread] /\ u \in Thread
  BY <1>0, OpType, OpShape
<1>2. n \in Nursery /\ stage[u] = "unborn" /\ u # t
  BY <1>0 DEF Spawn, TypeOK
<1>3. group' \in [Nursery -> GroupBlock] /\ nursery' \in [Thread -> Nursery \cup {NoNursery}]
  <2>1. group \in [Nursery -> GroupBlock]
    BY <1>0 DEF TypeOK, GroupBlock
  <2>2. group' = [group EXCEPT ![n].tasks = group[n].tasks \cup {u}]
    BY DEF Spawn
  <2>3. nursery' = [nursery EXCEPT ![u] = n]
    BY DEF Spawn
  <2> HIDE DEF n, u
  <2>4. group' \in [Nursery -> GroupBlock]
    BY <1>1, <1>2, <2>1, <2>2 DEF GroupBlock
  <2> QED
    BY <1>0, <1>1, <1>2, <2>3, <2>4 DEF TypeOK
<1>4. UNCHANGED <<setup, up, parked, failed, opened, owner, buf, closed>>
  BY DEF Spawn
<1>5. \/ stage' = [stage EXCEPT ![t] = "inline", ![u] = "run"] /\ UNCHANGED pc
      \/ Goto(u, "run") /\ Advance(t)
  BY DEF Spawn
<1> HIDE DEF n, u
<1>6. /\ stage' \in [Thread -> Stages]
      /\ pc' \in [Thread -> Nat \ {0}]
      /\ stage'[u] = "run"
      /\ \A v \in Thread \ {t, u} : stage'[v] = stage[v] /\ pc'[v] = pc[v]
      /\ (stage'[t] = "inline" /\ UNCHANGED pc) \/ stage'[t] = "run"
  <2>1. CASE stage' = [stage EXCEPT ![t] = "inline", ![u] = "run"] /\ UNCHANGED pc
    BY <1>0, <1>1, <1>2, <2>1 DEF TypeOK, Stages
  <2>2. CASE Goto(u, "run") /\ Advance(t)
    <3>1. stage'[t] = "run" /\ stage' \in [Thread -> Stages]
      BY <1>0, <1>1, <1>2, <2>2 DEF TypeOK, Stages, Goto
    <3>2. pc' \in [Thread -> Nat \ {0}] /\ \A v \in Thread \ {t} : pc'[v] = pc[v]
      BY <1>0, <2>2 DEF TypeOK, Advance
    <3> QED
      BY <1>0, <1>1, <2>2, <3>1, <3>2 DEF TypeOK, Goto
  <2> QED
    BY <1>5, <2>1, <2>2
<1>7. TypeOK'
  BY <1>0, <1>3, <1>4, <1>6 DEF TypeOK, GroupBlock
<1>8. ASSUME NEW v \in Thread PROVE AtItsOp(v)'
  <2>1. AtItsOp(v)
    BY DEF TypeInv
  <2>2. CASE v = t
    BY <1>0, <1>1, <1>4, <1>6, <2>2 DEF AtItsOp, Op
  <2>3. CASE v = u
    BY <1>6, <2>3 DEF AtItsOp
  <2>4. CASE v \notin {t, u}
    BY <1>4, <1>6, <2>1, <2>4 DEF AtItsOp, Op
  <2> QED
    BY <2>2, <2>3, <2>4
<1> QED
  BY <1>7, <1>8 DEF TypeInv

LEMMA EndTypes ==
  ASSUME TypeInv, NEW t \in Thread,
         SpawnPanic(t) \/ Return(t) \/ Fail(t) \/ Exit(t) \/ Die(t)
  PROVE  TypeInv'
<1>0. TypeOK /\ "ended" \in Stages
  BY DEF TypeInv, Stages
<1>1. CASE Fail(t)
  BY <1>0, <1>1, ErrsKeepsTypes DEF Fail, TypeOK
<1> DEFINE Exits == /\ up' = FALSE
                    /\ UNCHANGED <<setup, pc, stage, parked, failed, nursery, opened,
                                   group, owner, buf, closed>>
           Finishes == /\ Goto(t, "ended") /\ up' = (t # Main)
                       /\ UNCHANGED <<setup, pc, parked, failed, nursery, opened,
                                      group, owner, buf, closed>>
<1>2. CASE Exits
  BY <1>0, <1>2, StillAtOp DEF TypeInv, TypeOK
<1>3. CASE Finishes
  <2>1. Moves(t, "ended")
    BY <1>0, <1>3, GotoMoves
  <2>2. AtItsOp(t)'
    BY <2>1 DEF Moves, AtItsOp
  <2>3. TypeOK'
    BY <1>0, <1>3, <2>1 DEF Moves, TypeOK
  <2> QED
    BY <1>3, <2>1, <2>2, <2>3, KeptAtOp DEF TypeInv
<1>4. SpawnPanic(t) \/ Return(t) \/ Exit(t) \/ Die(t) => Exits \/ Finishes
  BY DEF SpawnPanic, Return, Exit, Die, Ends
<1> QED
  BY <1>1, <1>2, <1>3, <1>4

LEMMA StepNoNativeFailure == NoNativeFailure /\ [Next]_vars => NoNativeFailure'
<1> SUFFICES ASSUME NoNativeFailure, [Next]_vars PROVE NoNativeFailure'
  OBVIOUS
<1>1. CASE UNCHANGED vars
  BY <1>1 DEF vars, NoNativeFailure
<1>2. ASSUME NEW t \in Thread, Step(t) \/ SpuriousWakeup(t)
      PROVE  setup' = setup /\ (failed' = failed \/ ~setup.native)
  <2>1. Errs(t) => failed' = failed \/ ~setup.native
    BY DEF Errs
  <2> QED
    BY <1>2, <2>1 DEF Step, SendClosed, Enter, Register, KeepWaiting, StopWaiting,
       NurseryPark, Sleep, SpuriousWakeup, Reacquire, SendPut, SendRefused, RecvValue,
       RecvNone, RecvRefused, PollValue, PollNone, CloseChannel, Open, Spawn,
       SpawnPanic, InlineDone, Seal, Join, Return, Fail, Exit, Die
<1> QED
  BY <1>1, <1>2 DEF Next, Gone, NoNativeFailure, vars

LEMMA StepTypeInv == TypeInv /\ NoNativeFailure /\ [Next]_vars => TypeInv'
<1> SUFFICES ASSUME TypeInv, NoNativeFailure, [Next]_vars PROVE TypeInv'
  OBVIOUS
<1>1. CASE UNCHANGED vars
  BY <1>1 DEF vars, TypeInv, TypeOK, AtItsOp, Op
<1>2. CASE \E t \in Thread : Step(t) \/ SpuriousWakeup(t)
  <2>1. PICK t \in Thread : Step(t) \/ SpuriousWakeup(t)
    BY <1>2
  <2> QED
    BY <2>1, SendRecvTypes, ParkTypes, ActTypes, PollCloseTypes, OpenJoinTypes,
       SpawnTypes, EndTypes DEF Step
<1> QED
  BY <1>1, <1>2 DEF Next, Gone

\* Every variable keeps its type, and a thread inside an operation is at that
\* operation of its script.
THEOREM TypeInvariant == Spec => []TypeInv
<1>1. Init => TypeInv
  BY InitTypeInv
<1>2. TypeInv /\ NoNativeFailure /\ [Next]_vars => TypeInv'
  BY StepTypeInv
<1>3. Init => NoNativeFailure
  BY DEF Init, NoNativeFailure
<1>4. NoNativeFailure /\ [Next]_vars => NoNativeFailure'
  BY StepNoNativeFailure
<1> QED
  BY <1>1, <1>2, <1>3, <1>4, PTL DEF Spec

THEOREM TypeCorrect == Spec => []TypeOK
<1>1. TypeInv => TypeOK
  BY DEF TypeInv
<1> QED
  BY <1>1, TypeInvariant, PTL

-----------------------------------------------------------------------------
(* The verdict *)

LEMMA InitGroupInv == Init => GroupInv
  BY ThreadAssumption
  DEF Init, GroupInv, WithinCapacity, Tracked, Membership, SealedInJoin, LiveInGroup,
      VerdictSealed, VerdictIsReal, NewGroup

\* While a verdict stands nobody can change a channel: the main thread is in
\* its join, the other threads that live are tasks of that group and blocked.
LEMMA Frozen ==
  ASSUME TypeInv, OneNursery, Tracked, VerdictIsReal, ~setup.native,
         NEW n \in Nursery, group[n].deadlocked, NEW t \in Thread
  PROVE  \/ t = Main /\ stage[t] = "join" /\ opened[t] = <<n>>
         \/ /\ t \in group[n].tasks /\ nursery[t] = n
            /\ stage[t] \in {"test", "doze", "asleep", "woken", "act"} /\ Blocked(Op(t))
         \/ stage[t] \in {"unborn", "ended"}
<1>1. PICK p \in Thread : opened[p] = <<n>> /\ stage[p] = "join"
  BY DEF Tracked, VerdictSealed, SealedInJoin
<1>2. \A u \in Thread : opened[u] # <<>> => u = p
  BY <1>1 DEF OneNursery
<1>3. Head(opened[p]) = n
  BY <1>1
<1>4. \A v \in Thread : \/ stage[v] \in {"unborn", "ended"} \/ v = Main
                        \/ v \in group[n].tasks
  BY <1>2, <1>3 DEF Tracked, LiveInGroup
<1>5. \A v \in group[n].tasks :
        /\ nursery[v] = n
        /\ \/ stage[v] = "ended"
           \/ stage[v] \in {"test", "doze", "asleep", "woken", "act"} /\ Blocked(Op(v))
  BY DEF Tracked, Membership, VerdictIsReal
<1>6. p = Main
  BY <1>1, <1>4, <1>5
<1> QED
  BY <1>1, <1>4, <1>5, <1>6

\* Steps that leave the groups alone.
LEMMA KeepsTracked ==
  ASSUME TypeInv, Tracked, NEW t \in Thread, NEW s, Moves(t, s),
         UNCHANGED <<nursery, opened, group>>,
         stage[t] \notin {"unborn", "ended", "join"}, s # "unborn",
         \A u \in Thread \ {t} : u \in parked => u \in parked',
         s = "park" => t \in parked',
         \A n \in Nursery : t \in group[n].active =>
           t \in parked' /\ s \in {"test", "doze", "asleep", "woken"}
  PROVE  Tracked'
<1>1. \A u \in Thread \ {t} : \/ stage'[u] = stage[u]
                              \/ stage[u] = "asleep" /\ stage'[u] = "woken"
  BY DEF Moves
<1>2. stage'[t] = s
  BY DEF Moves
<1>3. \A n \in Nursery : group[n].tasks \subseteq Thread /\ group[n].active \subseteq Thread
  BY DEF TypeInv, TypeOK
<1>4. Membership'
  BY <1>1, <1>2, <1>3 DEF Tracked, Membership
<1>5. SealedInJoin'
  BY <1>1 DEF Tracked, SealedInJoin
<1>6. LiveInGroup'
  BY <1>1, <1>2, ThreadAssumption DEF Tracked, LiveInGroup
<1> QED
  BY <1>4, <1>5, <1>6 DEF Tracked, VerdictSealed

\* Without a verdict before and after there is nothing to show.
NoVerdict == \A n \in Nursery : ~group[n].deadlocked

LEMMA NoVerdictIsReal ==
  ASSUME NoVerdict, UNCHANGED group
  PROVE  VerdictIsReal'
  BY DEF NoVerdict, VerdictIsReal

\* A thread that runs, or could change a channel, shows that there is none.
LEMMA BusyNoVerdict ==
  ASSUME TypeInv, OneNursery, Tracked, VerdictIsReal, ~setup.native, NEW t \in Thread,
         \/ stage[t] \in {"run", "inline", "park"}
         \/ stage[t] \in {"test", "act"} /\ ~Blocked(Op(t))
         \/ stage[t] \in {"test", "act"} /\ ~Deadlocked(t)
  PROVE  NoVerdict
<1> SUFFICES ASSUME NEW n \in Nursery, group[n].deadlocked PROVE FALSE
  BY DEF NoVerdict
<1>1. n # NoNursery
  BY ThreadAssumption
<1> QED
  BY <1>1, Frozen DEF Deadlocked

\* A thread that waits goes on waiting, or gives up with the error.
LEMMA KeepsVerdict ==
  ASSUME TypeInv, Tracked, VerdictIsReal, ~setup.native, NEW t \in Thread, NEW s, Moves(t, s),
         UNCHANGED <<setup, pc, buf, closed, group>>, failed \subseteq failed',
         stage[t] # "ended",
         \/ s \in {"test", "doze", "asleep", "woken", "act"}
         \/ s = "ended" /\ t \in failed'
  PROVE  VerdictIsReal'
<1> SUFFICES ASSUME NEW n \in Nursery, group[n].deadlocked, NEW v \in group[n].tasks
             PROVE  \/ stage'[v] = "ended" /\ v \in failed'
                    \/ /\ stage'[v] \in {"test", "doze", "asleep", "woken", "act"}
                       /\ Blocked(Op(v))'
  BY DEF VerdictIsReal
<1>1. v \in Thread /\ (Blocked(Op(v))' <=> Blocked(Op(v)))
  BY DEF TypeInv, TypeOK, Blocked, Op
<1>2. \/ stage[v] = "ended" /\ v \in failed
      \/ /\ stage[v] \in {"test", "doze", "asleep", "woken", "act"}
         /\ Blocked(Op(v))
  BY DEF VerdictIsReal
<1>3. CASE v = t
  BY <1>1, <1>2, <1>3 DEF Moves
<1>4. CASE v # t
  BY <1>1, <1>2, <1>4 DEF Moves
<1> QED
  BY <1>3, <1>4

LEMMA WaitGroupInv ==
  ASSUME TypeInv, OneNursery, GroupInv, ~setup.native, NEW t \in Thread,
         \/ Enter(t) \/ Register(t) \/ KeepWaiting(t)
         \/ Sleep(t) \/ SpuriousWakeup(t) \/ Reacquire(t)
  PROVE  GroupInv'
<1> USE DEF Stages
<1>0. TypeOK /\ WithinCapacity /\ Tracked /\ VerdictIsReal
  BY DEF TypeInv, GroupInv
<1>a. /\ UNCHANGED <<setup, pc, failed, nursery, opened, group, buf, closed>>
      /\ parked \subseteq parked'
  BY DEF Enter, Register, KeepWaiting, Sleep, SpuriousWakeup, Reacquire
<1>b. \A n \in Nursery : t \in group[n].active =>
        t \in parked /\ stage[t] \in {"test", "doze", "asleep", "woken"}
  BY <1>0 DEF Tracked, Membership
<1>1. CASE Enter(t)
  <2>1. Moves(t, "test") /\ stage[t] = "run"
    BY <1>0, <1>1, GotoMoves DEF Enter, Running
  <2>2. Tracked'
    BY <1>0, <1>a, <1>b, <2>1, KeepsTracked
  <2> QED
    BY <1>0, <1>a, <2>1, <2>2, BusyNoVerdict, NoVerdictIsReal DEF GroupInv, WithinCapacity
<1>2. CASE Register(t)
  <2>1. /\ Moves(t, "park") /\ stage[t] = "test" /\ ~Deadlocked(t)
        /\ t \notin parked /\ t \in parked'
    BY <1>0, <1>2, GotoMoves DEF Register, Inside
  <2>2. Tracked'
    BY <1>0, <1>a, <1>b, <2>1, KeepsTracked
  <2> QED
    BY <1>0, <1>a, <2>1, <2>2, BusyNoVerdict, NoVerdictIsReal DEF GroupInv, WithinCapacity
<1>3. CASE \/ KeepWaiting(t) \/ Sleep(t) \/ SpuriousWakeup(t) \/ Reacquire(t)
  <2>1. PICK z \in {"test", "doze", "asleep", "woken"} : Moves(t, z)
    BY <1>0, <1>3, GotoMoves DEF KeepWaiting, Sleep, SpuriousWakeup, Reacquire
  <2>2. stage[t] \in {"test", "doze", "asleep", "woken"}
    BY <1>3 DEF KeepWaiting, Sleep, SpuriousWakeup, Reacquire, Inside
  <2>3. Tracked'
    BY <1>0, <1>a, <1>b, <2>1, <2>2, KeepsTracked
  <2>4. VerdictIsReal'
    BY <1>0, <1>a, <2>1, <2>2, KeepsVerdict
  <2> QED
    BY <1>0, <1>a, <2>3, <2>4 DEF GroupInv, WithinCapacity
<1> QED
  BY <1>1, <1>2, <1>3

\* Leaving the loop takes the task out of the active ones.
LEMMA StopWaitingGroupInv ==
  ASSUME TypeInv, OneNursery, GroupInv, ~setup.native, NEW t \in Thread, StopWaiting(t)
  PROVE  GroupInv'
<1>0. TypeOK /\ WithinCapacity /\ Tracked /\ VerdictIsReal
  BY DEF TypeInv, GroupInv
<1>1. /\ UNCHANGED <<setup, pc, failed, nursery, opened, buf, closed>>
      /\ parked' = parked \ {t} /\ stage[t] = "test"
  BY DEF StopWaiting, Inside
<1>2. Moves(t, "act")
  BY <1>0, GotoMoves DEF StopWaiting, Stages
<1>3. \A u \in Thread \ {t} : \/ stage'[u] = stage[u]
                              \/ stage[u] = "asleep" /\ stage'[u] = "woken"
  BY <1>2 DEF Moves
<1>4. stage'[t] = "act"
  BY <1>2 DEF Moves
<1>5. /\ \A n \in Nursery : /\ group'[n].tasks = group[n].tasks
                            /\ group'[n].sealed = group[n].sealed
                            /\ group'[n].deadlocked = group[n].deadlocked
                            /\ group'[n].active \subseteq group[n].active
      /\ t \in parked /\ nursery[t] # NoNursery => t \notin group'[nursery[t]].active
  <2>1. group \in [Nursery -> GroupBlock]
    BY <1>0 DEF TypeOK, GroupBlock
  <2>2. CASE t \in parked /\ nursery[t] # NoNursery
    <3>1. nursery[t] \in Nursery
      BY <1>0, <2>2 DEF TypeOK
    <3>2. group' = [group EXCEPT ![nursery[t]].active = group[nursery[t]].active \ {t}]
      BY <2>2 DEF StopWaiting
    <3> QED
      BY <2>1, <3>1, <3>2 DEF GroupBlock
  <2>3. CASE ~(t \in parked /\ nursery[t] # NoNursery)
    BY <2>3 DEF StopWaiting
  <2> QED
    BY <2>2, <2>3
<1>6. \A n \in Nursery : group[n].tasks \subseteq Thread /\ group[n].active \subseteq Thread
  BY <1>0 DEF TypeOK
<1>7. Membership'
  <2>1. \A n \in Nursery : t \notin group'[n].active
    <3> SUFFICES ASSUME NEW n \in Nursery, t \in group'[n].active PROVE FALSE
      OBVIOUS
    <3>1. t \in group[n].active /\ t \in parked /\ nursery[t] = n
      BY <1>0, <1>5 DEF Tracked, Membership
    <3> QED
      BY <1>5, <3>1, ThreadAssumption
  <2>2. \A n \in Nursery : \A u \in group'[n].tasks : nursery'[u] = n /\ stage'[u] # "unborn"
    BY <1>0, <1>1, <1>3, <1>4, <1>5, <1>6 DEF Tracked, Membership
  <2>3. \A n \in Nursery : \A u \in group'[n].active :
          /\ u \in group'[n].tasks /\ u \in parked'
          /\ stage'[u] \in {"test", "doze", "asleep", "woken"}
    <3> SUFFICES ASSUME NEW n \in Nursery, NEW u \in group'[n].active
                 PROVE  /\ u \in group'[n].tasks /\ u \in parked'
                        /\ stage'[u] \in {"test", "doze", "asleep", "woken"}
      OBVIOUS
    <3>1. u # t /\ u \in group[n].active /\ u \in Thread
      BY <1>5, <1>6, <2>1
    <3>2. /\ u \in group[n].tasks /\ u \in parked
          /\ stage[u] \in {"test", "doze", "asleep", "woken"}
      BY <1>0, <3>1 DEF Tracked, Membership
    <3> QED
      BY <1>1, <1>3, <1>5, <3>1, <3>2
  <2>4. \A u \in Thread : stage'[u] = "park" => u \in parked'
    BY <1>0, <1>1, <1>3, <1>4 DEF Tracked, Membership
  <2> QED
    BY <2>2, <2>3, <2>4 DEF Membership
<1>8. SealedInJoin'
  BY <1>0, <1>1, <1>3, <1>5 DEF Tracked, SealedInJoin
<1>9. LiveInGroup'
  <2>1. \A u \in Thread : opened[u] # <<>> => Head(opened[u]) \in Nursery
    BY <1>0 DEF TypeOK
  <2> QED
    BY <1>0, <1>1, <1>3, <1>4, <1>5, <2>1, ThreadAssumption DEF Tracked, LiveInGroup
<1>10. VerdictSealed'
  BY <1>0, <1>5 DEF Tracked, VerdictSealed
<1>11. VerdictIsReal'
  <2> SUFFICES ASSUME NEW n \in Nursery, group[n].deadlocked, NEW v \in group[n].tasks
               PROVE  \/ stage'[v] = "ended" /\ v \in failed'
                      \/ /\ stage'[v] \in {"test", "doze", "asleep", "woken", "act"}
                         /\ Blocked(Op(v))'
    BY <1>5 DEF VerdictIsReal
  <2>1. v \in Thread /\ (Blocked(Op(v))' <=> Blocked(Op(v)))
    BY <1>1, <1>6 DEF Blocked, Op
  <2>2. \/ stage[v] = "ended" /\ v \in failed
        \/ /\ stage[v] \in {"test", "doze", "asleep", "woken", "act"}
           /\ Blocked(Op(v))
    BY <1>0 DEF VerdictIsReal
  <2> QED
    BY <1>1, <1>3, <1>4, <2>1, <2>2
<1> QED
  BY <1>0, <1>1, <1>7, <1>8, <1>9, <1>10, <1>11 DEF GroupInv, Tracked, WithinCapacity

\* A put that looks for room first stays within the capacity.
LEMMA PutKeepsCapacity ==
  ASSUME TypeInv, WithinCapacity, NEW t \in Thread, NEW c \in Channel,
         Len(buf[c]) # Capacity[c], buf' = [buf EXCEPT ![c] = Stored(c, t)]
  PROVE  WithinCapacity'
<1>1. buf \in [Channel -> Seq(Thread)] /\ Capacity[c] \in Nat
  BY ThreadAssumption DEF TypeInv, TypeOK
<1>2. Len(buf[c]) < Capacity[c]
  BY <1>1 DEF WithinCapacity
<1>3. Stored(c, t) = Append(buf[c], t)
  BY <1>2 DEF Stored
<1>4. Len(Append(buf[c], t)) <= Capacity[c]
  BY <1>1, <1>2
<1> QED
  BY <1>1, <1>3, <1>4 DEF WithinCapacity

LEMMA TakeKeepsCapacity ==
  ASSUME TypeInv, WithinCapacity, NEW c \in Channel, buf[c] # <<>>,
         buf' = [buf EXCEPT ![c] = Tail(buf[c])]
  PROVE  WithinCapacity'
<1>1. buf \in [Channel -> Seq(Thread)] /\ Capacity[c] \in Nat
  BY ThreadAssumption DEF TypeInv, TypeOK
<1>2. Len(Tail(buf[c])) <= Capacity[c]
  BY <1>1 DEF WithinCapacity
<1> QED
  BY <1>1, <1>2 DEF WithinCapacity

\* A thread that runs or acts is not active in any group.
LEMMA BusyInactive ==
  ASSUME Tracked, NEW t \in Thread, stage[t] \in {"run", "act", "inline", "park"}
  PROVE  \A n \in Nursery : t \notin group[n].active
  BY DEF Tracked, Membership

LEMMA UseGroupInv ==
  ASSUME TypeInv, OneNursery, GroupInv, ~setup.native, NEW t \in Thread,
         \/ SendPut(t) \/ RecvValue(t) \/ RecvNone(t)
         \/ PollValue(t) \/ PollNone(t) \/ CloseChannel(t) \/ InlineDone(t)
  PROVE  GroupInv'
<1> DEFINE c == Op(t).ch
<1>0. TypeOK /\ WithinCapacity /\ Tracked /\ VerdictIsReal /\ AtItsOp(t) /\ "run" \in Stages
  BY DEF TypeInv, GroupInv, Stages
<1>a. UNCHANGED <<setup, parked, nursery, opened, group>>
  BY DEF SendPut, RecvValue, RecvNone, PollValue, PollNone, CloseChannel, InlineDone
<1>b. /\ stage[t] \in {"run", "act", "inline"}
      /\ SendPut(t) \/ RecvValue(t) \/ RecvNone(t) => stage[t] = "act"
      /\ PollValue(t) \/ PollNone(t) \/ CloseChannel(t) => stage[t] = "run"
      /\ InlineDone(t) => stage[t] = "inline"
  BY DEF SendPut, RecvValue, RecvNone, PollValue, PollNone, CloseChannel, InlineDone,
         Acting, Inside, Running
<1>c. ~InlineDone(t) => c \in Channel
  <2>1. CASE stage[t] = "act"
    BY <1>0, <2>1 DEF AtItsOp
  <2>2. CASE PollValue(t) \/ PollNone(t) \/ CloseChannel(t)
    <3>1. pc[t] \in DOMAIN setup.code[t] /\ Op(t).op \in {"poll", "close"}
      BY <2>2 DEF PollValue, PollNone, CloseChannel, Running
    <3> QED
      BY <1>0, <3>1, OpType, OpShape
  <2> QED
    BY <1>b, <2>1, <2>2
<1>1. Moves(t, "run")
  <2>1. CASE SendPut(t) \/ RecvValue(t) \/ PollValue(t)
    BY <1>0, <2>1, SignalMoves DEF SendPut, RecvValue, PollValue
  <2>2. CASE RecvNone(t) \/ InlineDone(t)
    BY <1>0, <2>2, GotoMoves DEF RecvNone, InlineDone
  <2>3. CASE PollNone(t)
    BY <1>0, <1>b, <2>3 DEF PollNone, Moves, TypeOK
  <2>4. CASE CloseChannel(t)
    <3>1. \A u \in Asleep(c, "recv") \cup Asleep(c, "send") : stage[u] = "asleep"
      BY DEF Asleep
    <3>2. GotoWaking(t, "run", Asleep(c, "recv") \cup Asleep(c, "send"))
      BY <2>4 DEF CloseChannel
    <3> HIDE DEF c
    <3> QED
      BY ONLY t \in Thread, <1>0, <3>1, <3>2, WakingMoves
  <2> QED
    BY <2>1, <2>2, <2>3, <2>4
<1> HIDE DEF c
<1>2. Tracked'
  BY <1>0, <1>1, <1>a, <1>b, BusyInactive, KeepsTracked
<1>3. NoVerdict
  <2>1. CASE stage[t] # "act"
    BY <1>0, <1>b, <2>1, BusyNoVerdict
  <2>2. CASE SendPut(t)
    <3>1. ~Blocked(Op(t))
      BY <2>2 DEF SendPut, Acting, MayPut, Blocked
    <3> QED
      BY <1>0, <1>b, <2>2, <3>1, BusyNoVerdict
  <2>3. CASE RecvValue(t) \/ RecvNone(t)
    <3>1. ~Blocked(Op(t))
      BY <2>3 DEF RecvValue, RecvNone, Acting, Blocked
    <3> QED
      BY <1>0, <1>b, <2>3, <3>1, BusyNoVerdict
  <2> QED
    BY <1>b, <2>1, <2>2, <2>3
<1>4. WithinCapacity'
  <2>1. CASE SendPut(t)
    BY <1>0, <1>c, <2>1, PutKeepsCapacity DEF SendPut, MayPut, c, InlineDone, Acting, Inside
  <2>2. CASE RecvValue(t) \/ PollValue(t)
    <3>1. /\ buf[c] # <<>> /\ buf' = [buf EXCEPT ![c] = Tail(buf[c])]
          /\ c \in Channel
      BY <1>b, <1>c, <2>2 DEF RecvValue, PollValue, c
    <3> QED
      BY <1>0, <3>1, TakeKeepsCapacity
  <2>3. CASE RecvNone(t) \/ PollNone(t) \/ CloseChannel(t) \/ InlineDone(t)
    BY <1>0, <2>3 DEF RecvNone, PollNone, CloseChannel, InlineDone, WithinCapacity
  <2> QED
    BY <2>1, <2>2, <2>3
<1> QED
  BY <1>2, <1>3, <1>4, <1>a, NoVerdictIsReal DEF GroupInv

LEMMA EndGroupInv ==
  ASSUME TypeInv, OneNursery, GroupInv, ~setup.native, NEW t \in Thread,
         \/ SendClosed(t) \/ SendRefused(t) \/ RecvRefused(t) \/ Return(t) \/ Fail(t) \/ Exit(t)
  PROVE  GroupInv'
<1>0. TypeOK /\ WithinCapacity /\ Tracked /\ VerdictIsReal /\ "ended" \in Stages
  BY DEF TypeInv, GroupInv, Stages
<1>a. UNCHANGED <<setup, pc, parked, nursery, opened, group, buf, closed>>
  BY DEF SendClosed, SendRefused, RecvRefused, Return, Fail, Exit
<1>1. Moves(t, "ended") /\ (SendRefused(t) \/ RecvRefused(t) => failed' = failed \cup {t})
  BY <1>0, GotoMoves
  DEF SendClosed, SendRefused, RecvRefused, Return, Fail, Exit, Errs, Ends
<1>b. /\ stage[t] \in {"run", "act"}
      /\ stage[t] = "run" \/ SendRefused(t) \/ RecvRefused(t)
  BY DEF SendClosed, SendRefused, RecvRefused, Return, Fail, Exit, Acting, Inside, Running
<1>2. Tracked'
  BY <1>0, <1>1, <1>a, <1>b, BusyInactive, KeepsTracked
<1>3. VerdictIsReal'
  <2>1. CASE stage[t] = "run"
    BY <1>0, <1>a, <2>1, BusyNoVerdict, NoVerdictIsReal
  <2>2. CASE SendRefused(t) \/ RecvRefused(t)
    BY <1>0, <1>1, <1>a, <1>b, <2>2, KeepsVerdict
  <2> QED
    BY <1>b, <2>1, <2>2
<1> QED
  BY <1>0, <1>2, <1>3, <1>a DEF GroupInv, WithinCapacity

\* What the detector sees of a task is what the task waits for.
LEMMA NotReadyBlocked ==
  ASSUME TypeInv, WithinCapacity, NEW v \in Thread,
         stage[v] \in {"park", "test", "doze", "asleep", "woken"}, ~Ready(Op(v))
  PROVE  Blocked(Op(v))
<1>1. Op(v) \in [op : {"send", "recv"}, ch : Channel]
  BY DEF TypeInv, AtItsOp
<1>2. /\ Len(buf[Op(v).ch]) \in Nat /\ Capacity[Op(v).ch] \in Nat
      /\ Len(buf[Op(v).ch]) <= Capacity[Op(v).ch]
  BY <1>1, ThreadAssumption DEF TypeInv, TypeOK, WithinCapacity
<1> QED
  BY <1>2 DEF Ready, Blocked

\* The detector, called from a group where no verdict stands.
LEMMA DetectGroupInv ==
  ASSUME TypeInv, GroupInv, NoVerdict, ~setup.native, NEW t \in Thread,
         NEW n \in Nursery, NEW g \in GroupBlock, NEW s \in Stages \ {"unborn", "park"},
         Detect(t, n, g, s), stage[t] \in {"run", "park"},
         UNCHANGED <<setup, pc, parked, nursery, opened, buf, closed>>,
         g.tasks = group[n].tasks, ~g.deadlocked,
         \A v \in g.active : /\ v \in g.tasks /\ v \in parked
                             /\ stage[v] \in {"park", "test", "doze", "asleep", "woken"}
                             /\ v # t => stage[v] # "park",
         t \in g.active => s = "test",
         g.sealed => group[n].sealed \/ (opened[t] = <<n>> /\ s = "join")
  PROVE  GroupInv'
<1>0. TypeOK /\ WithinCapacity /\ Tracked
  BY DEF TypeInv, GroupInv
<1>1. /\ Moves(t, s)
      /\ \/ group' = [group EXCEPT ![n] = g]
         \/ Stuck(g) /\ group' = [group EXCEPT ![n] = [g EXCEPT !.deadlocked = TRUE]]
  <2>1. s \in Stages
    OBVIOUS
  <2> QED
    BY ONLY <1>0, <2>1, t \in Thread, n \in Nursery, g \in GroupBlock,
       Detect(t, n, g, s), ~setup.native, DetectMoves
<1>2. \A m \in Nursery : m # n => group'[m] = group[m]
  BY <1>0, <1>1 DEF TypeOK
<1>3. /\ group'[n].tasks = group[n].tasks /\ group'[n].active = g.active
      /\ group'[n].sealed = g.sealed
      /\ group'[n].deadlocked => Stuck(g)
  BY <1>0, <1>1 DEF TypeOK, GroupBlock
<1>4. /\ stage'[t] = s
      /\ \A u \in Thread \ {t} : \/ stage'[u] = stage[u]
                                 \/ stage[u] = "asleep" /\ stage'[u] = "woken"
  BY <1>1 DEF Moves
<1>5. \A m \in Nursery : group[m].tasks \subseteq Thread /\ group[m].active \subseteq Thread
  BY <1>0 DEF TypeOK
<1>6. Membership'
  <2>1. ASSUME NEW m \in Nursery, NEW u \in group'[m].tasks
        PROVE  nursery'[u] = m /\ stage'[u] # "unborn"
    <3>1. u \in group[m].tasks /\ u \in Thread
      BY <1>2, <1>3, <1>5
    <3> QED
      BY <1>0, <1>4, <3>1 DEF Tracked, Membership
  <2>2. ASSUME NEW m \in Nursery, NEW u \in group'[m].active
        PROVE  /\ u \in group'[m].tasks /\ u \in parked'
               /\ stage'[u] \in {"test", "doze", "asleep", "woken"}
    <3>1. CASE m = n
      <4>1. u \in g.active /\ u \in Thread
        BY <1>3, <1>5, <3>1
      <4> QED
        BY <1>3, <1>4, <3>1, <4>1
    <3>2. CASE m # n
      <4>1. u \in group[m].active /\ u \in Thread /\ u # t
        BY <1>0, <1>2, <1>5, <3>2, BusyInactive
      <4> QED
        BY <1>0, <1>2, <1>4, <3>2, <4>1 DEF Tracked, Membership
    <3> QED
      BY <3>1, <3>2
  <2>3. \A u \in Thread : stage'[u] = "park" => u \in parked'
    BY <1>0, <1>4 DEF Tracked, Membership
  <2> QED
    BY <2>1, <2>2, <2>3 DEF Membership
<1>7. SealedInJoin'
  <2> SUFFICES ASSUME NEW m \in Nursery, group'[m].sealed
               PROVE  \E p \in Thread : opened[p] = <<m>> /\ stage'[p] = "join"
    BY DEF SealedInJoin
  <2>1. CASE group[m].sealed
    <3>1. PICK p \in Thread : opened[p] = <<m>> /\ stage[p] = "join"
      BY <1>0, <2>1 DEF Tracked, SealedInJoin
    <3> QED
      BY <1>4, <3>1
  <2>2. CASE ~group[m].sealed
    BY <1>2, <1>3, <1>4, <2>2
  <2> QED
    BY <2>1, <2>2
<1>8. LiveInGroup'
  <2>1. \A m \in Nursery : group'[m].tasks = group[m].tasks
    BY <1>2, <1>3
  <2>2. \A u \in Thread : opened[u] # <<>> => Head(opened[u]) \in Nursery
    BY <1>0 DEF TypeOK
  <2> QED
    BY <1>0, <1>4, <2>1, <2>2, ThreadAssumption DEF Tracked, LiveInGroup
<1>9. \A m \in Nursery : group'[m].deadlocked => m = n
  BY <1>2 DEF NoVerdict
<1>10. VerdictSealed'
  BY <1>3, <1>9 DEF VerdictSealed, Stuck
<1>11. VerdictIsReal'
  <2> SUFFICES ASSUME Stuck(g), NEW v \in group[n].tasks
               PROVE  /\ stage'[v] \in {"test", "doze", "asleep", "woken", "act"}
                      /\ Blocked(Op(v))'
    BY <1>3, <1>9 DEF VerdictIsReal
  <2>1. v \in g.active /\ v \in Thread /\ ~Ready(Op(v))
    BY <1>5 DEF Stuck
  <2>2. stage[v] \in {"park", "test", "doze", "asleep", "woken"}
    BY <2>1
  <2>3. Blocked(Op(v))
    BY <1>0, <2>1, <2>2, NotReadyBlocked
  <2>4. Blocked(Op(v))'
    BY <2>3 DEF Blocked, Op
  <2> QED
    BY <1>4, <2>1, <2>2, <2>4
<1> QED
  BY <1>0, <1>6, <1>7, <1>8, <1>10, <1>11 DEF GroupInv, Tracked, WithinCapacity

LEMMA ParkGroupInv ==
  ASSUME TypeInv, OneNursery, GroupInv, ~setup.native, NEW t \in Thread, NurseryPark(t)
  PROVE  GroupInv'
<1>0. TypeOK /\ WithinCapacity /\ Tracked /\ VerdictIsReal /\ stage[t] = "park"
  BY DEF TypeInv, GroupInv, NurseryPark, Inside
<1>a. UNCHANGED <<setup, pc, parked, failed, nursery, opened, buf, closed>>
  BY DEF NurseryPark
<1>b. "test" \in Stages \ {"unborn", "park"}
  BY DEF Stages
<1>1. NoVerdict
  BY <1>0, BusyNoVerdict
<1>2. CASE nursery[t] = NoNursery
  <2>1. Goto(t, "test") /\ UNCHANGED group
    BY <1>2 DEF NurseryPark
  <2>2. Moves(t, "test")
    BY <1>0, <1>b, <2>1, GotoMoves
  <2>3. Tracked'
    BY <1>0, <1>a, <2>1, <2>2, BusyInactive, KeepsTracked
  <2> QED
    BY <1>0, <1>1, <1>a, <2>1, <2>3, NoVerdictIsReal DEF GroupInv, WithinCapacity
<1>3. CASE nursery[t] # NoNursery
  <2> DEFINE n == nursery[t]
             g == [group[n] EXCEPT !.active = group[n].active \cup {t}]
  <2>1. n \in Nursery /\ group[n] \in GroupBlock
    BY <1>0, <1>3 DEF TypeOK, GroupBlock
  <2>2. Detect(t, n, g, "test")
    BY <1>3 DEF NurseryPark
  <2>3. t \in group[n].tasks
    <3>1. t # Main
      BY <1>0, <1>3 DEF Tracked, LiveInGroup
    <3>2. PICK u \in Thread : opened[u] # <<>> /\ t \in group[Head(opened[u])].tasks
      BY <1>0, <3>1 DEF Tracked, LiveInGroup
    <3>3. Head(opened[u]) \in Nursery
      BY <1>0, <3>2 DEF TypeOK
    <3> QED
      BY <1>0, <3>2, <3>3 DEF Tracked, Membership
  <2>4. /\ g \in GroupBlock /\ g.tasks = group[n].tasks /\ g.sealed = group[n].sealed
        /\ g.active = group[n].active \cup {t} /\ g.deadlocked = group[n].deadlocked
    BY <2>1 DEF GroupBlock
  <2>5. ~g.deadlocked
    BY <1>1, <2>1, <2>4 DEF NoVerdict
  <2>6. \A v \in g.active : /\ v \in g.tasks /\ v \in parked
                            /\ stage[v] \in {"park", "test", "doze", "asleep", "woken"}
                            /\ v # t => stage[v] # "park"
    BY <1>0, <2>1, <2>3, <2>4 DEF Tracked, Membership
  <2> HIDE DEF n, g
  <2> QED
    BY <1>0, <1>1, <1>a, <1>b, <2>1, <2>2, <2>4, <2>5, <2>6, DetectGroupInv
<1> QED
  BY <1>2, <1>3

LEMMA SealGroupInv ==
  ASSUME TypeInv, OneNursery, GroupInv, ~setup.native, NEW t \in Thread, Seal(t)
  PROVE  GroupInv'
<1> DEFINE n == Head(opened[t])
           g == [group[n] EXCEPT !.sealed = TRUE]
<1>0. TypeOK /\ WithinCapacity /\ Tracked /\ VerdictIsReal /\ stage[t] = "run"
  BY DEF TypeInv, GroupInv, Seal, Running
<1>a. UNCHANGED <<setup, pc, parked, failed, nursery, opened, buf, closed>>
  BY DEF Seal
<1>b. "join" \in Stages \ {"unborn", "park"}
  BY DEF Stages
<1>1. NoVerdict
  BY <1>0, BusyNoVerdict
<1>2. n \in Nursery /\ group[n] \in GroupBlock /\ opened[t] = <<n>>
  <2>1. opened[t] # <<>> /\ opened[t] \in Seq(Nursery)
    BY <1>0 DEF Seal, TypeOK
  <2>2. Len(opened[t]) = 1
    BY <2>1 DEF OneNursery
  <2> QED
    BY <1>0, <2>1, <2>2 DEF TypeOK, GroupBlock
<1>3. Detect(t, n, g, "join")
  BY DEF Seal
<1>4. /\ g \in GroupBlock /\ g.tasks = group[n].tasks
      /\ g.active = group[n].active /\ g.deadlocked = group[n].deadlocked
  BY <1>2 DEF GroupBlock
<1>5. ~g.deadlocked
  BY <1>1, <1>2, <1>4 DEF NoVerdict
<1>6. t \notin g.active
  BY <1>0, <1>2, <1>4, BusyInactive
<1>7. \A v \in g.active : /\ v \in g.tasks /\ v \in parked
                          /\ stage[v] \in {"park", "test", "doze", "asleep", "woken"}
                          /\ v # t => stage[v] # "park"
  BY <1>0, <1>2, <1>4 DEF Tracked, Membership
<1> HIDE DEF n, g
<1> QED
  BY <1>0, <1>1, <1>2, <1>3, <1>4, <1>5, <1>6, <1>7, <1>a, <1>b, DetectGroupInv

\* A nursery is opened when no other is, by the only thread that lives.
LEMMA OpenGroupInv ==
  ASSUME TypeInv, OneNursery', GroupInv, ~setup.native, NEW t \in Thread, Open(t)
  PROVE  GroupInv'
<1> DEFINE n == Op(t).n
<1>0. TypeOK /\ WithinCapacity /\ Tracked /\ stage[t] = "run"
  BY DEF TypeInv, GroupInv, Open, Running
<1>a. /\ UNCHANGED <<setup, stage, parked, failed, nursery, buf, closed>>
      /\ group' = [group EXCEPT ![n] = NewGroup]
      /\ opened' = [opened EXCEPT ![t] = <<n>> \o opened[t]]
  BY DEF Open
<1>1. n \in Nursery
  BY <1>0, OpType, OpShape DEF Open, Running
<1> HIDE DEF n
<1>2. \A u \in Thread : opened[u] = <<>>
  <2>1. /\ opened[t] \in Seq(Nursery) /\ opened'[t] = <<n>> \o opened[t]
        /\ \A u \in Thread \ {t} : opened'[u] = opened[u]
    BY <1>0, <1>a DEF TypeOK
  <2>2. opened'[t] # <<>> /\ Len(opened'[t]) = 1 + Len(opened[t])
    BY <1>1, <2>1
  <2>3. Len(opened'[t]) = 1 /\ \A u \in Thread \ {t} : opened'[u] = <<>>
    BY <2>2 DEF OneNursery
  <2>4. Len(opened[t]) = 0
    BY <2>1, <2>2, <2>3
  <2> QED
    BY <2>1, <2>3, <2>4
<1>3. /\ \A u \in Thread : stage[u] \in {"unborn", "ended"} \/ u = Main
      /\ \A m \in Nursery : ~group[m].sealed /\ ~group[m].deadlocked
  BY <1>0, <1>2 DEF Tracked, LiveInGroup, SealedInJoin, VerdictSealed
<1>4. \A m \in Nursery : group'[m] = group[m] \/ group'[m] = NewGroup
  BY <1>0, <1>1, <1>a DEF TypeOK
<1>5. Membership'
  <2>1. ASSUME NEW m \in Nursery
        PROVE  /\ \A u \in group'[m].tasks : nursery[u] = m /\ stage[u] # "unborn"
               /\ \A u \in group'[m].active :
                    /\ u \in group'[m].tasks /\ u \in parked
                    /\ stage[u] \in {"test", "doze", "asleep", "woken"}
    BY <1>0, <1>4 DEF Tracked, Membership, NewGroup
  <2> QED
    BY <1>0, <1>a, <2>1 DEF Tracked, Membership
<1>6. \A m \in Nursery : ~group'[m].sealed /\ ~group'[m].deadlocked
  BY <1>3, <1>4 DEF NewGroup
<1>7. LiveInGroup'
  BY <1>0, <1>3, <1>a DEF Tracked, LiveInGroup
<1> QED
  BY <1>0, <1>5, <1>6, <1>7, <1>a
  DEF GroupInv, Tracked, WithinCapacity, SealedInJoin, VerdictSealed, VerdictIsReal

\* A task is new to every group.
LEMMA SpawnGroupInv ==
  ASSUME TypeInv, OneNursery, GroupInv, ~setup.native, NEW t \in Thread, Spawn(t)
  PROVE  GroupInv'
<1> DEFINE n == Head(opened[t])
           u == Op(t).child
<1>0. /\ TypeOK /\ WithinCapacity /\ Tracked /\ VerdictIsReal
      /\ stage[t] = "run" /\ pc[t] \in DOMAIN setup.code[t] /\ Op(t).op = "spawn"
  BY DEF TypeInv, GroupInv, Spawn, Running
<1>1. u \in Thread /\ stage[u] = "unborn" /\ u # t
  BY <1>0, OpType, OpShape DEF Spawn
<1>2. opened[t] # <<>> /\ n \in Nursery
  BY <1>0 DEF Spawn, TypeOK
<1>a. UNCHANGED <<setup, parked, failed, opened, buf, closed>>
  BY DEF Spawn
<1>3. /\ nursery' = [nursery EXCEPT ![u] = n]
      /\ group' = [group EXCEPT ![n].tasks = group[n].tasks \cup {u}]
  BY DEF Spawn
<1>4. \/ stage' = [stage EXCEPT ![t] = "inline", ![u] = "run"]
      \/ stage' = [stage EXCEPT ![u] = "run"]
  BY DEF Spawn, Goto
<1> HIDE DEF n, u
<1>5. /\ stage'[u] = "run" /\ stage'[t] \in {"run", "inline"}
      /\ \A v \in Thread \ {t, u} : stage'[v] = stage[v]
  BY <1>0, <1>1, <1>4 DEF TypeOK
<1>6. /\ nursery'[u] = n
      /\ \A v \in Thread \ {u} : nursery'[v] = nursery[v]
  BY <1>0, <1>1, <1>2, <1>3 DEF TypeOK
<1>7. /\ group'[n].tasks = group[n].tasks \cup {u}
      /\ \A m \in Nursery : /\ m # n => group'[m].tasks = group[m].tasks
                            /\ group'[m].active = group[m].active
                            /\ group'[m].sealed = group[m].sealed
                            /\ group'[m].deadlocked = group[m].deadlocked
  <2>1. group \in [Nursery -> GroupBlock]
    BY <1>0 DEF TypeOK, GroupBlock
  <2> QED
    BY <1>2, <1>3, <2>1 DEF GroupBlock
<1>8. \A m \in Nursery : group[m].tasks \subseteq Thread /\ group[m].active \subseteq Thread
  BY <1>0 DEF TypeOK
<1>9. u # Main /\ \A m \in Nursery : u \notin group[m].tasks /\ u \notin group[m].active
  BY <1>0, <1>1 DEF Tracked, Membership, LiveInGroup
<1>10. \A m \in Nursery : t \notin group[m].active
  BY <1>0, BusyInactive
<1>11. Membership'
  <2>1. ASSUME NEW m \in Nursery, NEW v \in group'[m].tasks
        PROVE  nursery'[v] = m /\ stage'[v] # "unborn"
    <3>1. CASE v = u
      <4>1. m = n
        BY <1>7, <1>9, <3>1
      <4> QED
        BY <1>5, <1>6, <3>1, <4>1
    <3>2. CASE v # u
      <4>1. v \in group[m].tasks /\ v \in Thread
        BY <1>7, <1>8, <3>2
      <4> QED
        BY <1>0, <1>5, <1>6, <3>2, <4>1 DEF Tracked, Membership
    <3> QED
      BY <3>1, <3>2
  <2>2. ASSUME NEW m \in Nursery, NEW v \in group'[m].active
        PROVE  /\ v \in group'[m].tasks /\ v \in parked'
               /\ stage'[v] \in {"test", "doze", "asleep", "woken"}
    <3>1. v \in group[m].active /\ v \in Thread /\ v # t /\ v # u
      BY <1>7, <1>8, <1>9, <1>10
    <3>2. v \in group'[m].tasks
      BY <1>0, <1>7, <3>1 DEF Tracked, Membership
    <3> QED
      BY <1>0, <1>a, <1>5, <3>1, <3>2 DEF Tracked, Membership
  <2>3. \A v \in Thread : stage'[v] = "park" => v \in parked'
    BY <1>0, <1>a, <1>5 DEF Tracked, Membership
  <2> QED
    BY <2>1, <2>2, <2>3 DEF Membership
<1>12. SealedInJoin'
  BY <1>0, <1>a, <1>1, <1>5, <1>7 DEF Tracked, SealedInJoin
<1>13. LiveInGroup'
  <2>1. stage'[Main] # "unborn" /\ nursery'[Main] = NoNursery
    BY <1>0, <1>5, <1>6, <1>9, ThreadAssumption DEF Tracked, LiveInGroup
  <2>2. ASSUME NEW v \in Thread
        PROVE  \/ stage'[v] \in {"unborn", "ended"} \/ v = Main
               \/ \E w \in Thread : opened[w] # <<>> /\ v \in group'[Head(opened[w])].tasks
    <3>1. CASE v = u
      BY <1>2, <1>7, <3>1 DEF n
    <3>2. CASE v # u /\ stage[v] \notin {"unborn", "ended"} /\ v # Main
      <4>1. PICK w \in Thread : opened[w] # <<>> /\ v \in group[Head(opened[w])].tasks
        BY <1>0, <3>2 DEF Tracked, LiveInGroup
      <4>2. Head(opened[w]) \in Nursery
        BY <1>0, <4>1 DEF TypeOK
      <4> QED
        BY <1>7, <4>1, <4>2
    <3>3. CASE v # u /\ (stage[v] \in {"unborn", "ended"} \/ v = Main)
      BY <1>0, <1>5, <3>3
    <3> QED
      BY <3>1, <3>2, <3>3
  <2> QED
    BY <1>a, <2>1, <2>2 DEF LiveInGroup
<1>14. \A m \in Nursery : ~group'[m].deadlocked
  BY <1>0, <1>7, BusyNoVerdict DEF NoVerdict
<1> QED
  BY <1>0, <1>a, <1>11, <1>12, <1>13, <1>14
  DEF GroupInv, Tracked, WithinCapacity, VerdictSealed, VerdictIsReal

\* After the join only the thread that joined lives.
LEMMA JoinGroupInv ==
  ASSUME TypeInv, OneNursery, GroupInv, ~setup.native, NEW t \in Thread, Join(t)
  PROVE  GroupInv'
<1> DEFINE n == Head(opened[t])
<1>0. TypeOK /\ WithinCapacity /\ Tracked /\ VerdictIsReal /\ stage[t] = "join"
  BY DEF TypeInv, GroupInv, Join, Inside
<1>a. UNCHANGED <<setup, parked, nursery, buf, closed>>
  BY DEF Join
<1>1. n \in Nursery /\ opened[t] = <<n>>
  <2>1. opened[t] # <<>> /\ opened[t] \in Seq(Nursery)
    BY <1>0 DEF TypeInv, AtItsOp, TypeOK
  <2>2. Len(opened[t]) = 1
    BY <2>1 DEF OneNursery
  <2> QED
    BY <1>0, <2>1, <2>2 DEF TypeOK
<1>2. \A u \in group[n].tasks : stage[u] = "ended"
  BY DEF Join
<1>3. group' = [group EXCEPT ![n] = NewGroup]
  BY DEF Join
<1>4. \/ stage' = [stage EXCEPT ![t] = "run"]
      \/ stage' = [stage EXCEPT ![t] = "ended"]
  BY DEF Join, Errs, Ends, Goto
<1> HIDE DEF n
<1>5. /\ stage'[t] \in {"run", "ended"}
      /\ \A u \in Thread \ {t} : stage'[u] = stage[u]
  BY <1>0, <1>4 DEF TypeOK
<1>6. \A u \in Thread : opened[u] # <<>> => u = t
  BY <1>1 DEF OneNursery
<1>7. \A u \in Thread : stage[u] \in {"unborn", "ended"} \/ u = Main
  BY <1>0, <1>1, <1>2, <1>6 DEF Tracked, LiveInGroup
<1>8. \A m \in Nursery : group'[m] = group[m] \/ group'[m] = NewGroup
  BY <1>0, <1>1, <1>3 DEF TypeOK
<1>9. \A m \in Nursery : ~group'[m].sealed /\ ~group'[m].deadlocked
  <2>1. \A m \in Nursery : group[m].sealed => m = n
    BY <1>0, <1>1, <1>6 DEF Tracked, SealedInJoin
  <2>2. \A m \in Nursery : group[m].deadlocked => m = n
    BY <1>0, <2>1 DEF Tracked, VerdictSealed
  <2>3. group'[n] = NewGroup
    BY <1>0, <1>1, <1>3 DEF TypeOK
  <2> QED
    BY <1>8, <2>1, <2>2, <2>3 DEF NewGroup
<1>10. \A m \in Nursery : group[m].tasks \subseteq Thread /\ group[m].active \subseteq Thread
  BY <1>0 DEF TypeOK
<1>11. Membership'
  <2>1. ASSUME NEW m \in Nursery, NEW u \in group'[m].tasks
        PROVE  nursery'[u] = m /\ stage'[u] # "unborn"
    <3>1. u \in group[m].tasks /\ u \in Thread
      BY <1>8, <1>10 DEF NewGroup
    <3> QED
      BY <1>0, <1>a, <1>5, <3>1 DEF Tracked, Membership
  <2>2. ASSUME NEW m \in Nursery, NEW u \in group'[m].active
        PROVE  /\ u \in group'[m].tasks /\ u \in parked'
               /\ stage'[u] \in {"test", "doze", "asleep", "woken"}
    <3>1. u \in group[m].active /\ u \in Thread /\ group'[m] = group[m]
      BY <1>8, <1>10 DEF NewGroup
    <3>2. /\ u \in group[m].tasks /\ u \in parked
          /\ stage[u] \in {"test", "doze", "asleep", "woken"}
      BY <1>0, <3>1 DEF Tracked, Membership
    <3> QED
      BY <1>0, <1>a, <1>5, <3>1, <3>2
  <2>3. \A u \in Thread : stage'[u] = "park" => u \in parked'
    BY <1>0, <1>a, <1>5 DEF Tracked, Membership
  <2> QED
    BY <2>1, <2>2, <2>3 DEF Membership
<1>12. LiveInGroup'
  BY <1>0, <1>a, <1>5, <1>7 DEF Tracked, LiveInGroup
<1> QED
  BY <1>0, <1>9, <1>11, <1>12, <1>a
  DEF GroupInv, Tracked, WithinCapacity, SealedInJoin, VerdictSealed, VerdictIsReal

LEMMA StepGroupInv ==
  ASSUME TypeInv, OneNursery, OneNursery', ~setup.native => GroupInv, [Next]_vars
  PROVE  ~setup'.native => GroupInv'
<1>1. CASE UNCHANGED <<setup, pc, stage, parked, failed, nursery, opened, group, buf, closed>>
  <2>1. GroupInv => GroupInv'
    <3>1. WithinCapacity => WithinCapacity'
      BY <1>1 DEF WithinCapacity
    <3>2. Tracked => Tracked'
      BY <1>1 DEF Tracked, Membership, SealedInJoin, LiveInGroup, VerdictSealed
    <3>3. VerdictIsReal => VerdictIsReal'
      BY <1>1 DEF VerdictIsReal, Blocked, Op
    <3>. QED
      BY <3>1, <3>2, <3>3 DEF GroupInv
  <2> QED
    BY <1>1, <2>1
<1>2. ASSUME NEW t \in Thread, Step(t) \/ SpuriousWakeup(t)
      PROVE  ~setup'.native => GroupInv'
  <2>1. setup' = setup
    BY <1>2 DEF Step, SendClosed, Enter, Register, KeepWaiting, StopWaiting,
       NurseryPark, Sleep, SpuriousWakeup, Reacquire, SendPut, SendRefused, RecvValue,
       RecvNone, RecvRefused, PollValue, PollNone, CloseChannel, Open, Spawn,
       SpawnPanic, InlineDone, Seal, Join, Return, Fail, Exit, Die
  <2> SUFFICES ASSUME ~setup.native PROVE GroupInv'
    BY <2>1
  <2>2. GroupInv
    OBVIOUS
  <2>3. ~SpawnPanic(t)
    BY DEF SpawnPanic
  <2>4. Die(t) => UNCHANGED <<setup, pc, stage, parked, failed, nursery, opened,
                              group, buf, closed>>
    BY DEF Die
  <2>5. CASE \/ Enter(t) \/ Register(t) \/ KeepWaiting(t)
             \/ Sleep(t) \/ SpuriousWakeup(t) \/ Reacquire(t)
    BY <2>2, <2>5, WaitGroupInv
  <2>6. CASE \/ SendPut(t) \/ RecvValue(t) \/ RecvNone(t)
             \/ PollValue(t) \/ PollNone(t) \/ CloseChannel(t) \/ InlineDone(t)
    BY <2>2, <2>6, UseGroupInv
  <2>7. CASE \/ SendClosed(t) \/ SendRefused(t) \/ RecvRefused(t)
             \/ Return(t) \/ Fail(t) \/ Exit(t)
    BY <2>2, <2>7, EndGroupInv
  <2>8. CASE StopWaiting(t)
    BY <2>2, <2>8, StopWaitingGroupInv
  <2>9. CASE NurseryPark(t)
    BY <2>2, <2>9, ParkGroupInv
  <2>10. CASE Open(t) \/ Spawn(t)
    BY <2>2, <2>10, OpenGroupInv, SpawnGroupInv
  <2>11. CASE Seal(t) \/ Join(t)
    BY <2>2, <2>11, SealGroupInv, JoinGroupInv
  <2> QED
    BY <1>1, <1>2, <2>1, <2>3, <2>4, <2>5, <2>6, <2>7, <2>8, <2>9, <2>10, <2>11 DEF Step
<1>3. Gone => UNCHANGED vars
  BY DEF Gone
<1> QED
  BY <1>1, <1>2, <1>3 DEF Next, vars

\* The VM never declares a deadlock that is not one, in a program that has one
\* nursery open at a time, whatever its threads, channels and capacities.
THEOREM VerdictCorrect == Spec => ([]OneNursery => []VerdictIsReal)
<1> DEFINE Inv == ~setup.native => GroupInv
<1>1. Init => Inv
  BY InitGroupInv
<1>2. TypeInv /\ OneNursery /\ OneNursery' /\ Inv /\ [Next]_vars => Inv'
  BY StepGroupInv
<1>3. Inv => VerdictIsReal
  BY DEF GroupInv, VerdictIsReal
<1> HIDE DEF Inv
<1> QED
  BY <1>1, <1>2, <1>3, TypeInvariant, PTL DEF Spec

-----------------------------------------------------------------------------
(* No wakeup is lost *)

\* A thread inside a wait: from its test to its sleep it holds the channel's lock, what
\* it saw before it sleeps still holds, and it is registered while it sleeps.
Waits(t) ==
  /\ stage[t] \in {"test", "park", "doze", "act"} => owner[Op(t).ch] = t
  /\ stage[t] = "doze" => Blocked(Op(t))
  /\ stage[t] \in {"doze", "asleep"} => t \in parked

WakeInv == WakeupsSuffice /\ \A t \in Thread : Waits(t)

\* The values, or free slots, that threads could go on with.
Need(c, op) == IF op = "recv" THEN Len(buf[c]) ELSE Capacity[c] - Len(buf[c])
Enough(c, op) == Asleep(c, op) # {} => Need(c, op) <= Cardinality(Awake(c, op))

\* A step of t leaves the other threads' operations, and what they hold the lock of.
Respects(t) ==
  /\ setup' = setup
  /\ \A u \in Thread \ {t} : pc'[u] = pc[u] /\ (u \in parked => u \in parked')
  /\ \A c \in Channel : owner[c] \notin {NoThread, t} =>
       owner'[c] = owner[c] /\ buf'[c] = buf[c] /\ closed'[c] = closed[c]

\* Sets that lose or gain one member.
LEMMA CountsMove ==
  ASSUME NEW A, NEW B, NEW t, IsFiniteSet(A), IsFiniteSet(B), \A u \in A : u = t \/ u \in B
  PROVE  /\ Cardinality(A) \in Nat /\ Cardinality(B) \in Nat
         /\ Cardinality(A) - 1 <= Cardinality(B)
         /\ (t \in A => t \in B) => Cardinality(A) <= Cardinality(B)
         /\ (t \in A => t \in B) /\ (\E u \in B : u \notin A) => Cardinality(A) + 1 <= Cardinality(B)
<1>1. Cardinality(A) \in Nat /\ Cardinality(B) \in Nat
  BY FS_CardinalityType
<1>2. ASSUME t \in A => t \in B PROVE Cardinality(A) <= Cardinality(B)
  <2>1. A \subseteq B
    BY <1>2
  <2>. QED
    BY <2>1, FS_Subset
<1>3. Cardinality(A) - 1 <= Cardinality(B)
  <2>1. CASE t \notin A
    BY <1>1, <1>2, <2>1
  <2>2. CASE t \in A
    <3>1. A \ {t} \subseteq B
      OBVIOUS
    <3>2. Cardinality(A \ {t}) <= Cardinality(B)
      BY <3>1, FS_Subset
    <3>3. Cardinality(A \ {t}) = Cardinality(A) - 1
      BY <2>2, FS_RemoveElement
    <3>. QED
      BY <3>2, <3>3
  <2>. QED
    BY <2>1, <2>2
<1>4. ASSUME t \in A => t \in B, NEW u \in B, u \notin A PROVE Cardinality(A) + 1 <= Cardinality(B)
  <2>1. A \cup {u} \subseteq B
    BY <1>4
  <2>2. Cardinality(A \cup {u}) <= Cardinality(B)
    BY <2>1, FS_Subset
  <2>3. Cardinality(A \cup {u}) = Cardinality(A) + 1
    BY <1>4, FS_AddElement
  <2>. QED
    BY <2>2, <2>3
<1>. QED
  BY <1>1, <1>2, <1>3, <1>4

LEMMA AwakeFinite == ASSUME NEW c, NEW op
                     PROVE  IsFiniteSet(Awake(c, op)) /\ IsFiniteSet(Awake(c, op)')
<1>1. Awake(c, op) \subseteq Thread /\ Awake(c, op)' \subseteq Thread
  BY DEF Awake
<1>. QED
  BY <1>1, ThreadAssumption, FS_Subset

\* Who sleeps slept before, or is t; who was awake still is, or is t.
LEMMA SetsMove ==
  ASSUME NEW t \in Thread, NEW s, Moves(t, s), Respects(t), NEW c, NEW op
  PROVE  /\ \A u \in Asleep(c, op)' : u = t \/ u \in Asleep(c, op)
         /\ \A u \in Awake(c, op) : u = t \/ u \in Awake(c, op)'
         /\ t \in Asleep(c, op)' => s = "asleep"
<1>1. ASSUME NEW u \in Thread, u # t
      PROVE  /\ Op(u)' = Op(u)
             /\ stage'[u] = stage[u] \/ (stage[u] = "asleep" /\ stage'[u] = "woken")
  BY <1>1 DEF Moves, Respects, Op
<1>2. ASSUME NEW u \in Asleep(c, op)', u # t PROVE u \in Asleep(c, op)
  BY <1>1, <1>2 DEF Asleep
<1>3. ASSUME NEW u \in Awake(c, op), u # t PROVE u \in Awake(c, op)'
  BY <1>1, <1>3 DEF Awake
<1>. QED
  BY <1>2, <1>3 DEF Asleep, Moves

LEMMA EnoughKept ==
  ASSUME TypeOK, TypeOK', NEW c \in Channel, NEW op, Enough(c, op),
         NEW t \in Thread, NEW s, Moves(t, s), Respects(t),
         \/ Need(c, op)' <= 0
         \/ /\ s # "asleep"
            /\ \/ Need(c, op)' <= Need(c, op) - 1
               \/ /\ t \in Awake(c, op) => t \in Awake(c, op)'
                  /\ \/ Need(c, op)' <= Need(c, op)
                     \/ /\ Need(c, op)' <= Need(c, op) + 1
                        /\ Asleep(c, op) # {} => \E u \in Awake(c, op)' : u \notin Awake(c, op)
  PROVE  Enough(c, op)'
<1>. SUFFICES ASSUME Asleep(c, op)' # {}
              PROVE  Need(c, op)' <= Cardinality(Awake(c, op)')
  BY DEF Enough
<1>1. PICK A, B : A = Awake(c, op) /\ B = Awake(c, op)'
  OBVIOUS
<1>2. IsFiniteSet(A) /\ IsFiniteSet(B) /\ \A u \in A : u = t \/ u \in B
  BY <1>1, AwakeFinite, SetsMove
<1>3. /\ Cardinality(A) \in Nat /\ Cardinality(B) \in Nat
      /\ Cardinality(A) - 1 <= Cardinality(B)
      /\ (t \in A => t \in B) => Cardinality(A) <= Cardinality(B)
      /\ (t \in A => t \in B) /\ (\E u \in B : u \notin A) => Cardinality(A) + 1 <= Cardinality(B)
  BY ONLY <1>2, CountsMove
<1>4. PICK p \in Int, q \in Int : p = Need(c, op) /\ q = Need(c, op)'
  <2>1. Capacity[c] \in Nat /\ Len(buf[c]) \in Nat /\ Len(buf'[c]) \in Nat
    BY ThreadAssumption DEF TypeOK
  <2>. QED
    BY <2>1 DEF Need
<1>5. s # "asleep" => Asleep(c, op) # {} /\ p <= Cardinality(A)
  BY <1>1, <1>4, SetsMove DEF Enough
<1>6. \/ q <= 0
      \/ /\ s # "asleep"
         /\ \/ q <= p - 1
            \/ /\ t \in A => t \in B
               /\ q <= p \/ (q <= p + 1 /\ (Asleep(c, op) # {} => \E u \in B : u \notin A))
  BY <1>1, <1>4
<1>7. q <= Cardinality(B)
  <2>1. CASE q <= 0
    BY ONLY <1>3, <2>1, q \in Int
  <2>2. CASE s # "asleep" /\ q <= p - 1
    BY ONLY <1>3, <1>5, <2>2, p \in Int, q \in Int
  <2>3. CASE s # "asleep" /\ (t \in A => t \in B) /\ q <= p
    BY ONLY <1>3, <1>5, <2>3, p \in Int, q \in Int
  <2>4. CASE /\ s # "asleep" /\ (t \in A => t \in B) /\ q <= p + 1
             /\ Asleep(c, op) # {} => \E u \in B : u \notin A
    <3>1. Cardinality(A) + 1 <= Cardinality(B) /\ p <= Cardinality(A)
      BY ONLY <1>3, <1>5, <2>4
    <3>. QED
      BY ONLY <1>3, <2>4, <3>1, p \in Int, q \in Int
  <2>. QED
    BY ONLY <1>6, <2>1, <2>2, <2>3, <2>4
<1>. QED
  BY <1>1, <1>4, <1>7

\* The threads that do not move wait as they did.
LEMMA WaitsKept ==
  ASSUME TypeInv, \A u \in Thread : Waits(u), NEW t \in Thread, NEW s, Moves(t, s), Respects(t),
         Waits(t)'
  PROVE  \A u \in Thread : Waits(u)'
<1>. TAKE u \in Thread
<1>1. CASE u = t
  BY <1>1
<1>2. CASE u # t
  <2>1. /\ Op(u)' = Op(u) /\ (u \in parked => u \in parked')
        /\ stage'[u] = stage[u] \/ (stage[u] = "asleep" /\ stage'[u] = "woken")
    BY <1>2 DEF Moves, Respects, Op
  <2>2. Waits(u) /\ (stage[u] \in {"test", "park", "doze", "act"} => Op(u).ch \in Channel)
    BY DEF TypeInv, AtItsOp
  <2>3. CASE stage[u] \in {"test", "park", "doze", "act"}
    <3>1. PICK c \in Channel : c = Op(u).ch /\ owner[c] = u
      BY <2>2, <2>3 DEF Waits
    <3>2. owner'[c] = u /\ buf'[c] = buf[c] /\ closed'[c] = closed[c]
      BY <1>2, <3>1, ThreadAssumption DEF Respects
    <3>3. stage[u] = "doze" => Blocked(Op(u))'
      BY <2>1, <2>2, <3>1, <3>2 DEF Waits, Blocked
    <3>. QED
      BY <2>1, <2>2, <2>3, <3>1, <3>2, <3>3 DEF Waits
  <2>4. CASE stage[u] \notin {"test", "park", "doze", "act"}
    BY <2>1, <2>2, <2>4 DEF Waits
  <2>. QED
    BY <2>3, <2>4
<1>. QED
  BY <1>1, <1>2

LEMMA WakesIntro ==
  ASSUME TypeOK', \A u \in Thread : Waits(u)',
         \A c \in Channel : \A op \in {"recv", "send"} : Enough(c, op)',
         \A c \in Channel : Asleep(c, "recv")' # {} => ~closed'[c]
  PROVE  WakeInv'
<1>1. WakeupsSuffice'
  <2>1. ASSUME NEW c \in Channel
        PROVE  /\ Asleep(c, "recv")' # {} => /\ Len(buf'[c]) <= Cardinality(Awake(c, "recv")')
                                             /\ ~closed'[c]
               /\ Asleep(c, "send")' # {} =>
                    Capacity[c] - Len(buf'[c]) <= Cardinality(Awake(c, "send")')
    <3>1. Enough(c, "recv")' /\ Enough(c, "send")'
      OBVIOUS
    <3>. QED
      BY <3>1 DEF Enough, Need
  <2>. QED
    BY <2>1 DEF WakeupsSuffice
<1>. QED
  BY <1>1 DEF WakeInv

LEMMA WakesElim ==
  ASSUME WakeInv
  PROVE  /\ \A u \in Thread : Waits(u)
         /\ \A c \in Channel : \A op \in {"recv", "send"} : Enough(c, op)
         /\ \A c \in Channel : Asleep(c, "recv") # {} => ~closed[c]
  BY DEF WakeInv, WakeupsSuffice, Enough, Need

LEMMA NotAwake ==
  ASSUME NEW t \in Thread, NEW c, NEW op,
         \/ stage[t] \notin {"woken", "test", "act"} \/ Op(t).ch # c \/ Op(t).op # op
  PROVE  t \notin Awake(c, op)
  BY DEF Awake

\* What is in the channels stays, and t does not fall asleep; where it leaves those awake,
\* nothing is there to be taken.
LEMMA QuietWakes ==
  ASSUME TypeInv, TypeInv', WakeInv, NEW t \in Thread, NEW s, Moves(t, s), s # "asleep", Respects(t),
         UNCHANGED <<buf, closed>>, Waits(t)',
         \A c \in Channel : \A op \in {"recv", "send"} :
           (t \in Awake(c, op) => t \in Awake(c, op)') \/ Need(c, op) <= 0
  PROVE  WakeInv'
<1>1. \A u \in Thread : Waits(u)'
  BY WakesElim, WaitsKept
<1>2. ASSUME NEW c \in Channel, NEW op \in {"recv", "send"} PROVE Enough(c, op)'
  <2>1. Enough(c, op) /\ TypeOK /\ TypeOK'
    BY WakesElim DEF TypeInv
  <2>2. Need(c, op)' = Need(c, op)
    BY DEF Need
  <2>3. Need(c, op) \in Int
    <3>1. Capacity[c] \in Nat /\ Len(buf[c]) \in Nat
      BY <2>1, ThreadAssumption DEF TypeOK
    <3>. QED
      BY <3>1 DEF Need
  <2>4. CASE Need(c, op) <= 0
    BY <2>1, <2>2, <2>4, EnoughKept
  <2>5. CASE t \in Awake(c, op) => t \in Awake(c, op)'
    <3>1. Need(c, op)' <= Need(c, op)
      BY <2>2, <2>3
    <3>. QED
      BY <2>1, <2>5, <3>1, EnoughKept
  <2>. QED
    BY <2>4, <2>5
<1>3. ASSUME NEW c \in Channel, Asleep(c, "recv")' # {} PROVE ~closed'[c]
  <2>1. Asleep(c, "recv") # {}
    BY <1>3, SetsMove
  <2>. QED
    BY <2>1, WakesElim
<1>. QED
  BY <1>1, <1>2, <1>3, WakesIntro DEF TypeInv

\* A step between operations, or out of one that holds no lock.
LEMMA OutsideWakes ==
  ASSUME TypeInv, TypeInv', WakeInv, NEW t \in Thread, NEW s, Moves(t, s),
         s \notin {"test", "park", "doze", "act", "asleep"},
         stage[t] \notin {"woken", "test", "act"},
         UNCHANGED <<setup, parked, owner, buf, closed>>, UNCHANGED pc \/ Advance(t)
  PROVE  WakeInv'
<1>1. \A u \in Thread \ {t} : pc'[u] = pc[u]
  BY DEF TypeInv, TypeOK, Advance
<1>2. Respects(t)
  BY <1>1 DEF Respects
<1>3. Waits(t)'
  BY DEF Waits, Moves
<1>4. \A c \in Channel : \A op \in {"recv", "send"} : t \notin Awake(c, op)
  BY NotAwake
<1>. QED
  BY <1>2, <1>3, <1>4, QuietWakes

LEMMA StillWakes ==
  ASSUME WakeInv, UNCHANGED <<setup, pc, stage, parked, owner, buf, closed>>
  PROVE  WakeInv'
  BY DEF WakeInv, WakeupsSuffice, Asleep, Awake, Waits, Blocked, Op

LEMMA ErrsWakes ==
  ASSUME TypeInv, TypeInv', WakeInv, NEW t \in Thread, Errs(t), stage[t] \notin {"woken", "test", "act"},
         UNCHANGED <<setup, parked, pc, owner, buf, closed>>
  PROVE  WakeInv'
<1>1. CASE UNCHANGED <<stage, failed>>
  BY <1>1, StillWakes
<1>2. CASE Moves(t, "ended")
  BY <1>2, OutsideWakes
<1>. QED
  BY <1>1, <1>2, ErrsMoves DEF TypeInv

\* A step of an operation that holds the lock, or takes it, leaves the other locks.
LEMMA LockRespects ==
  ASSUME TypeInv, NEW t \in Thread, NEW c \in Channel, owner[c] \in {NoThread, t},
         \/ owner' = owner
         \/ owner' = [owner EXCEPT ![c] = t]
         \/ owner' = [owner EXCEPT ![c] = NoThread],
         setup' = setup, \A d \in Channel \ {c} : buf'[d] = buf[d] /\ closed'[d] = closed[d],
         UNCHANGED pc \/ Advance(t),
         parked' = parked \/ parked' = parked \cup {t} \/ parked' = parked \ {t}
  PROVE  Respects(t)
<1>1. \A u \in Thread \ {t} : pc'[u] = pc[u] /\ (u \in parked => u \in parked')
  BY DEF TypeInv, TypeOK, Advance
<1>2. ASSUME NEW d \in Channel, owner[d] \notin {NoThread, t}
      PROVE  owner'[d] = owner[d] /\ buf'[d] = buf[d] /\ closed'[d] = closed[d]
  <2>1. d # c
    BY <1>2
  <2>2. owner \in [Channel -> Thread \cup {NoThread}]
    BY DEF TypeInv, TypeOK
  <2>. QED
    BY <2>1, <2>2
<1>. QED
  BY <1>1, <1>2 DEF Respects

\* Into, through and out of the loop around pthread_cond_wait.
LEMMA WaitWakes ==
  ASSUME TypeInv, TypeInv', WakeInv, NEW t \in Thread,
         \/ Enter(t) \/ Register(t) \/ KeepWaiting(t) \/ StopWaiting(t)
         \/ Sleep(t) \/ SpuriousWakeup(t) \/ Reacquire(t)
  PROVE  WakeInv'
<1>. DEFINE c == Op(t).ch
            o == Op(t).op
<1>0. TypeOK /\ AtItsOp(t) /\ Waits(t) /\ {"test", "park", "doze", "asleep", "woken", "act"} \subseteq Stages
  BY WakesElim DEF TypeInv, Stages
<1>1. c \in Channel /\ o \in {"send", "recv"} /\ UNCHANGED <<setup, pc, buf, closed>> /\ Op(t)' = Op(t)
  <2>1. CASE Enter(t)
    <3>1. pc[t] \in DOMAIN setup.code[t] /\ Op(t).op \in {"send", "recv"}
      BY <2>1 DEF Enter, Running
    <3>2. Op(t) \in [op : {"send", "recv"}, ch : Channel]
      BY <1>0, <3>1, OpType, OpShape
    <3>. QED
      BY <2>1, <3>2 DEF Enter, Op
  <2>2. CASE ~Enter(t)
    <3>1. stage[t] \in {"test", "park", "doze", "asleep", "woken", "act"}
      BY <2>2 DEF Register, KeepWaiting, StopWaiting, Sleep, SpuriousWakeup, Reacquire, Inside
    <3>2. Op(t) \in [op : {"send", "recv"}, ch : Channel]
      BY <1>0, <3>1 DEF AtItsOp
    <3>3. UNCHANGED <<setup, pc, buf, closed>>
      BY <2>2 DEF Register, KeepWaiting, StopWaiting, Sleep, SpuriousWakeup, Reacquire
    <3>. QED
      BY <3>2, <3>3 DEF Op
  <2>. QED
    BY <2>1, <2>2
<1>. HIDE DEF c, o
<1>2. ASSUME NEW d, NEW op, t \in Awake(d, op) PROVE d = c /\ op = o
  BY <1>2 DEF Awake, c, o
<1>3. owner \in [Channel -> Thread \cup {NoThread}]
  BY <1>0 DEF TypeOK
<1>4. CASE Enter(t)
  <2>1. Moves(t, "test") /\ stage[t] = "run" /\ owner[c] = NoThread
        /\ owner' = [owner EXCEPT ![c] = t] /\ parked' = parked
    BY <1>0, <1>4, GotoMoves DEF Enter, Running, c
  <2>2. Respects(t)
    BY <1>1, <2>1, LockRespects
  <2>3. Waits(t)'
    BY <1>1, <1>3, <2>1 DEF Waits, Moves, c
  <2>4. \A d, op : t \notin Awake(d, op)
    BY <2>1 DEF Awake
  <2>. QED
    BY <1>1, <2>1, <2>2, <2>3, <2>4, QuietWakes
<1>5. CASE Reacquire(t)
  <2>1. Moves(t, "test") /\ stage[t] = "woken" /\ owner[c] = NoThread
        /\ owner' = [owner EXCEPT ![c] = t] /\ parked' = parked
    BY <1>0, <1>5, GotoMoves DEF Reacquire, Inside, c
  <2>2. Respects(t)
    BY <1>1, <2>1, LockRespects
  <2>3. Waits(t)'
    BY <1>1, <1>3, <2>1 DEF Waits, Moves, c
  <2>4. \A d, op : t \in Awake(d, op) => t \in Awake(d, op)'
    BY <1>1, <2>1 DEF Awake, Moves
  <2>. QED
    BY <1>1, <2>1, <2>2, <2>3, <2>4, QuietWakes
<1>6. CASE StopWaiting(t)
  <2>1. Moves(t, "act") /\ stage[t] = "test" /\ owner' = owner /\ parked' = parked \ {t}
    BY <1>0, <1>6, GotoMoves DEF StopWaiting, Inside
  <2>2. owner[c] = t
    BY <1>0, <2>1 DEF Waits, c
  <2>3. Respects(t)
    BY <1>1, <2>1, <2>2, LockRespects
  <2>4. Waits(t)'
    BY <1>1, <2>1, <2>2 DEF Waits, Moves, c
  <2>5. \A d, op : t \in Awake(d, op) => t \in Awake(d, op)'
    BY <1>1, <2>1 DEF Awake, Moves
  <2>. QED
    BY <1>1, <2>1, <2>3, <2>4, <2>5, QuietWakes
<1>7. CASE SpuriousWakeup(t)
  <2>1. Moves(t, "woken") /\ stage[t] = "asleep" /\ owner' = owner /\ parked' = parked
    BY <1>0, <1>7, GotoMoves DEF SpuriousWakeup, Inside
  <2>2. Waits(t)'
    BY <2>1 DEF Waits, Moves
  <2>3. Respects(t)
    BY <1>1, <2>1 DEF Respects
  <2>4. \A d, op : t \notin Awake(d, op)
    BY <2>1 DEF Awake
  <2>. QED
    BY <1>1, <2>1, <2>2, <2>3, <2>4, QuietWakes
<1>8. ASSUME Blocked(Op(t)), NEW op \in {"recv", "send"}, op = o PROVE Need(c, op) <= 0
  <2>1. Capacity[c] \in Nat /\ Len(buf[c]) \in Nat
    BY <1>0, <1>1, ThreadAssumption DEF TypeOK
  <2>2. CASE o = "send"
    BY <1>8, <2>1, <2>2 DEF Need, Blocked, c, o
  <2>3. CASE o = "recv"
    BY <1>8, <2>1, <2>3 DEF Need, Blocked, c, o
  <2>. QED
    BY <1>1, <2>2, <2>3
<1>9. CASE Register(t) \/ KeepWaiting(t)
  <2>1. PICK s \in {"park", "doze"} :
          /\ Moves(t, s) /\ stage[t] = "test" /\ owner' = owner /\ Blocked(Op(t))
          /\ parked' = parked \cup {t}
    <3>1. CASE Register(t)
      BY <1>0, <3>1, GotoMoves DEF Register, Inside
    <3>2. CASE KeepWaiting(t)
      <4>1. parked' = parked \cup {t}
        BY <3>2 DEF KeepWaiting
      <4>. QED
        BY <1>0, <3>2, <4>1, GotoMoves DEF KeepWaiting, Inside
    <3>. QED
      BY <1>9, <3>1, <3>2
  <2>2. owner[c] = t
    BY <1>0, <2>1 DEF Waits, c
  <2>3. Respects(t)
    BY <1>1, <2>1, <2>2, LockRespects
  <2>4. Waits(t)'
    <3>1. Blocked(Op(t))'
      BY <1>1, <2>1 DEF Blocked
    <3>. QED
      BY <1>1, <2>1, <2>2, <3>1 DEF Waits, Moves, c
  <2>5. \A d \in Channel : \A op \in {"recv", "send"} : t \in Awake(d, op) => Need(d, op) <= 0
    BY <1>2, <1>8, <2>1
  <2>. QED
    BY <1>1, <2>1, <2>3, <2>4, <2>5, QuietWakes
<1>10. CASE Sleep(t)
  <2>1. /\ Moves(t, "asleep") /\ stage[t] = "doze" /\ Blocked(Op(t)) /\ owner[c] = t
        /\ owner' = [owner EXCEPT ![c] = NoThread] /\ parked' = parked /\ t \in parked
    BY <1>0, <1>10, GotoMoves DEF Sleep, Inside, Waits, c
  <2>2. Respects(t)
    BY <1>1, <2>1, LockRespects
  <2>3. Waits(t)'
    BY <2>1 DEF Waits, Moves
  <2>4. ASSUME NEW d \in Channel, NEW op \in {"recv", "send"} PROVE Enough(d, op)'
    <3>1. Need(d, op)' = Need(d, op) /\ Enough(d, op) /\ TypeOK'
      BY <1>1, WakesElim DEF Need, TypeInv
    <3>2. CASE d = c /\ op = o
      BY <1>0, <1>8, <2>1, <2>2, <3>1, <3>2, EnoughKept
    <3>3. CASE ~(d = c /\ op = o)
      <4>1. t \notin Asleep(d, op)' /\ t \notin Awake(d, op)
        BY <1>1, <1>2, <3>3 DEF Asleep, c, o
      <4>2. Asleep(d, op)' \subseteq Asleep(d, op) /\ Awake(d, op) \subseteq Awake(d, op)'
        BY <2>1, <2>2, <4>1, SetsMove
      <4>3. Cardinality(Awake(d, op)) <= Cardinality(Awake(d, op)')
        BY <4>2, AwakeFinite, FS_Subset
      <4>4. Cardinality(Awake(d, op)) \in Nat /\ Cardinality(Awake(d, op)') \in Nat
        BY AwakeFinite, FS_CardinalityType
      <4>5. Need(d, op) \in Int
        <5>1. Capacity[d] \in Nat /\ Len(buf[d]) \in Nat
          BY <1>0, ThreadAssumption DEF TypeOK
        <5>. QED
          BY <5>1 DEF Need
      <4>. QED
        BY <3>1, <4>2, <4>3, <4>4, <4>5 DEF Enough
    <3>. QED
      BY <3>2, <3>3
  <2>5. ASSUME NEW d \in Channel, Asleep(d, "recv")' # {} PROVE ~closed'[d]
    <3>1. CASE Asleep(d, "recv") # {}
      BY <1>1, <3>1, WakesElim
    <3>2. CASE t \in Asleep(d, "recv")'
      <4>1. d = c /\ o = "recv"
        BY <1>1, <3>2 DEF Asleep, c, o
      <4>. QED
        BY <1>1, <2>1, <4>1 DEF Blocked, c, o
    <3>. QED
      BY <2>1, <2>2, <2>5, <3>1, <3>2, SetsMove
  <2>6. \A u \in Thread : Waits(u)'
    BY <2>1, <2>2, <2>3, WakesElim, WaitsKept
  <2>. QED
    BY <2>4, <2>5, <2>6, WakesIntro DEF TypeInv
<1>. QED
  BY <1>4, <1>5, <1>6, <1>7, <1>9, <1>10

LEMMA ParkWakes ==
  ASSUME TypeInv, TypeInv', WakeInv, NEW t \in Thread, NurseryPark(t)
  PROVE  WakeInv'
<1>0. /\ TypeOK /\ AtItsOp(t) /\ Waits(t) /\ stage[t] = "park" /\ "test" \in Stages
      /\ UNCHANGED <<setup, pc, parked, owner, buf, closed>>
  BY WakesElim DEF TypeInv, NurseryPark, Inside, Stages
<1>1. Moves(t, "test") \/ Moves(t, "dying")
  <2>1. CASE nursery[t] = NoNursery
    <3>1. Goto(t, "test")
      BY <2>1 DEF NurseryPark
    <3>. QED
      BY <1>0, <3>1, GotoMoves
  <2>2. CASE nursery[t] # NoNursery
    <3>. DEFINE n == nursery[t]
                g == [group[n] EXCEPT !.active = @ \cup {t}]
    <3>1. Detect(t, n, g, "test")
      BY <2>2 DEF NurseryPark
    <3>2. n \in Nursery /\ group[n] \in GroupBlock
      BY <1>0, <2>2 DEF TypeOK, GroupBlock
    <3>3. g \in GroupBlock
      BY <3>2 DEF GroupBlock
    <3>. HIDE DEF n, g
    <3>. QED
      BY <1>0, <3>1, <3>2, <3>3, DetectMoves
  <2>. QED
    BY <2>1, <2>2
<1>2. CASE Moves(t, "dying")
  BY <1>0, <1>2, OutsideWakes
<1>3. CASE Moves(t, "test")
  <2>1. PICK c \in Channel : c = Op(t).ch /\ owner[c] = t
    BY <1>0 DEF Waits, AtItsOp
  <2>2. Respects(t)
    BY <1>0, <2>1, LockRespects
  <2>3. Op(t)' = Op(t)
    BY <1>0 DEF Op
  <2>4. Waits(t)'
    BY <1>0, <1>3, <2>1, <2>3 DEF Waits, Moves
  <2>5. \A d, op : t \notin Awake(d, op)
    BY <1>0 DEF Awake
  <2>. QED
    BY <1>0, <1>3, <2>2, <2>4, <2>5, QuietWakes
<1>. QED
  BY <1>1, <1>2, <1>3

\* Where somebody sleeps the signal wakes one of them.
LEMMA SignalWakes ==
  ASSUME \A u \in Thread : Waits(u), NEW t \in Thread, stage[t] # "asleep", NEW c, NEW op, Respects(t),
         \E W \in Signalled(c, op) : GotoWaking(t, "run", W), Asleep(c, op) # {}
  PROVE  \E u \in Awake(c, op)' : u \notin Awake(c, op)
<1>1. PICK W \in Signalled(c, op) : GotoWaking(t, "run", W)
  OBVIOUS
<1>2. Awaited(c, op)
  <2>1. PICK u \in Asleep(c, op) : TRUE
    OBVIOUS
  <2>2. u \in Thread /\ stage[u] = "asleep" /\ Op(u).ch = c /\ Op(u).op = op
    BY DEF Asleep
  <2>3. u \in parked
    BY <2>2 DEF Waits
  <2>. QED
    BY <2>2, <2>3 DEF Awaited
<1>3. PICK v \in Asleep(c, op) : W = {v}
  BY <1>2 DEF Signalled
<1>4. v \in Thread /\ stage[v] = "asleep" /\ Op(v).ch = c /\ Op(v).op = op /\ v # t
  BY DEF Asleep
<1>5. stage'[v] = "woken" /\ Op(v)' = Op(v)
  BY <1>1, <1>3, <1>4 DEF GotoWaking, Respects, Op
<1>6. v \in Awake(c, op)' /\ v \notin Awake(c, op)
  BY <1>4, <1>5 DEF Awake
<1>. QED
  BY <1>6

\* A value more signals a receiver, a free slot more a sender.
LEMMA SignalCounts ==
  ASSUME TypeInv, TypeInv', WakeInv, NEW t \in Thread, NEW c \in Channel, Moves(t, "run"), Respects(t),
         NEW more \in {"recv", "send"}, NEW less \in {"recv", "send"}, more # less,
         \/ stage[t] = "run"
         \/ stage[t] = "act" /\ Op(t).ch = c /\ Op(t).op = less,
         \E W \in Signalled(c, more) : GotoWaking(t, "run", W),
         Need(c, more)' <= Need(c, more) + 1, Need(c, less)' <= Need(c, less) - 1,
         \A d \in Channel \ {c} : buf'[d] = buf[d], closed' = closed
  PROVE  WakeInv'
<1>1. \A u \in Thread : Waits(u)'
  <2>1. Waits(t)'
    BY DEF Waits, Moves
  <2>. QED
    BY <2>1, WakesElim, WaitsKept
<1>2. ASSUME NEW d \in Channel, NEW op \in {"recv", "send"} PROVE Enough(d, op)'
  <2>1. Enough(d, op) /\ TypeOK /\ TypeOK'
    BY WakesElim DEF TypeInv
  <2>2. CASE d = c /\ op = more
    <3>1. t \notin Awake(d, op)
      BY <2>2 DEF Awake
    <3>2. Asleep(d, op) # {} => \E u \in Awake(d, op)' : u \notin Awake(d, op)
      BY <2>2, WakesElim, SignalWakes
    <3>. QED
      BY <2>1, <2>2, <3>1, <3>2, EnoughKept
  <2>3. CASE d = c /\ op = less
    BY <2>1, <2>3, EnoughKept
  <2>4. CASE d # c
    <3>1. t \notin Awake(d, op)
      BY <2>4 DEF Awake
    <3>2. Need(d, op)' = Need(d, op) /\ Need(d, op) \in Int
      <4>1. Capacity[d] \in Nat /\ Len(buf[d]) \in Nat /\ buf'[d] = buf[d]
        BY <2>1, <2>4, ThreadAssumption DEF TypeOK
      <4>. QED
        BY <4>1 DEF Need
    <3>3. Need(d, op)' <= Need(d, op)
      BY <3>2
    <3>. QED
      BY <2>1, <3>1, <3>3, EnoughKept
  <2>. QED
    BY <2>2, <2>3, <2>4
<1>3. ASSUME NEW d \in Channel, Asleep(d, "recv")' # {} PROVE ~closed'[d]
  <2>1. Asleep(d, "recv") # {}
    BY <1>3, SetsMove
  <2>. QED
    BY <2>1, WakesElim
<1>. QED
  BY <1>1, <1>2, <1>3, WakesIntro DEF TypeInv

LEMMA StoredLength ==
  ASSUME TypeOK, NEW c \in Channel, NEW v
  PROVE  Len(Stored(c, v)) = Len(buf[c]) + 1
<1>1. buf[c] \in Seq(Thread) /\ Capacity[c] \in Nat \ {0}
  BY ThreadAssumption DEF TypeOK
<1>2. PICK b \in Seq(Thread) : b = buf[c]
  BY <1>1
<1>3. CASE Len(b) < Capacity[c]
  <2>1. Len(Append(b, v)) = Len(b) + 1
    OBVIOUS
  <2>. QED
    BY <1>2, <1>3, <2>1 DEF Stored
<1>4. CASE ~(Len(b) < Capacity[c])
  <2>1. PICK i : i = Len(b) - Capacity[c] + 1
    OBVIOUS
  <2>2. i \in 1 .. Len(b)
    BY <1>1, <1>2, <1>4, <2>1
  <2>3. PICK e : e = [b EXCEPT ![i] = v]
    OBVIOUS
  <2>4. e \in Seq(Thread \cup {v}) /\ Len(e) = Len(b)
    BY <2>2, <2>3
  <2>5. Len(Append(e, v)) = Len(b) + 1
    BY <2>4
  <2>. QED
    BY <1>2, <1>4, <2>1, <2>3, <2>5 DEF Stored
<1>. QED
  BY <1>2, <1>3, <1>4

\* A value put, and a value taken by recv or try_recv.
LEMMA PutTakeWakes ==
  ASSUME TypeInv, TypeInv', WakeInv, NEW t \in Thread, SendPut(t) \/ RecvValue(t) \/ PollValue(t)
  PROVE  WakeInv'
<1>1. PICK c : c = Op(t).ch
  OBVIOUS
<1>0. TypeOK /\ TypeOK' /\ AtItsOp(t) /\ Waits(t)
  BY WakesElim DEF TypeInv
<1>2. c \in Channel
  <2>1. CASE PollValue(t)
    <3>1. pc[t] \in DOMAIN setup.code[t] /\ Op(t).op = "poll"
      BY <2>1 DEF PollValue, Running
    <3>. QED
      BY <1>0, <1>1, <3>1, OpType, OpShape
  <2>2. CASE ~PollValue(t)
    <3>1. stage[t] = "act"
      BY <2>2 DEF SendPut, RecvValue, Acting, Inside
    <3>. QED
      BY <1>0, <1>1, <3>1 DEF AtItsOp
  <2>. QED
    BY <2>1, <2>2
<1>3. /\ Capacity[c] \in Nat /\ Len(buf[c]) \in Nat /\ buf[c] \in Seq(Thread)
      /\ buf \in [Channel -> Seq(Thread)]
  BY <1>0, <1>2, ThreadAssumption DEF TypeOK
<1>4. CASE SendPut(t)
  <2>1. /\ stage[t] = "act" /\ Op(t).op = "send" /\ owner' = [owner EXCEPT ![c] = NoThread]
        /\ buf' = [buf EXCEPT ![c] = Stored(c, t)] /\ Advance(t) /\ UNCHANGED <<setup, parked, closed>>
        /\ \E W \in Signalled(c, "recv") : GotoWaking(t, "run", W)
    BY <1>1, <1>4 DEF SendPut, Acting, Inside, Unlock
  <2>2. owner[c] = t
    BY <1>0, <1>1, <2>1 DEF Waits
  <2>3. buf'[c] = Stored(c, t) /\ \A d \in Channel \ {c} : buf'[d] = buf[d]
    BY <1>2, <1>3, <2>1
  <2>4. Moves(t, "run")
    BY <1>0, <2>1, SignalMoves
  <2>5. Respects(t)
    BY <1>2, <2>1, <2>2, <2>3, LockRespects
  <2>6. Len(buf'[c]) = Len(buf[c]) + 1
    BY <1>0, <1>2, <2>3, StoredLength
  <2>7. Need(c, "recv")' <= Need(c, "recv") + 1 /\ Need(c, "send")' <= Need(c, "send") - 1
    BY <1>3, <2>6 DEF Need
  <2>. QED
    BY <1>1, <1>2, <2>1, <2>3, <2>4, <2>5, <2>7, SignalCounts
<1>5. CASE RecvValue(t) \/ PollValue(t)
  <2>1. /\ stage[t] = "run" \/ (stage[t] = "act" /\ Op(t).op = "recv" /\ owner[c] = t)
        /\ owner[c] \in {NoThread, t} /\ owner' \in {owner, [owner EXCEPT ![c] = NoThread]}
        /\ buf[c] # <<>> /\ buf' = [buf EXCEPT ![c] = Tail(@)] /\ Advance(t)
        /\ UNCHANGED <<setup, parked, closed>>
        /\ \E W \in Signalled(c, "send") : GotoWaking(t, "run", W)
    <3>1. CASE RecvValue(t)
      BY <1>0, <1>1, <3>1 DEF RecvValue, Acting, Inside, Unlock, Waits
    <3>2. CASE PollValue(t)
      BY <1>1, <3>2 DEF PollValue, Running
    <3>. QED
      BY <1>5, <3>1, <3>2
  <2>2. buf'[c] = Tail(buf[c]) /\ \A d \in Channel \ {c} : buf'[d] = buf[d]
    BY <1>2, <1>3, <2>1
  <2>3. Moves(t, "run")
    BY <1>0, <2>1, SignalMoves
  <2>4. Respects(t)
    BY <1>2, <2>1, <2>2, LockRespects
  <2>5. Len(buf'[c]) = Len(buf[c]) - 1
    <3>1. \A b \in Seq(Thread) : b # <<>> => Len(Tail(b)) = Len(b) - 1
      OBVIOUS
    <3>. QED
      BY <1>3, <2>1, <2>2, <3>1
  <2>6. Need(c, "send")' <= Need(c, "send") + 1 /\ Need(c, "recv")' <= Need(c, "recv") - 1
    BY <1>3, <2>5 DEF Need
  <2>. QED
    BY <1>1, <1>2, <2>1, <2>2, <2>3, <2>4, <2>6, SignalCounts
<1>. QED
  BY <1>4, <1>5

\* recv finds nothing, and a wait that a verdict or a close ended.
LEMMA NothingWakes ==
  ASSUME TypeInv, TypeInv', WakeInv, NEW t \in Thread, SendRefused(t) \/ RecvNone(t) \/ RecvRefused(t)
  PROVE  WakeInv'
<1>1. PICK c, o : c = Op(t).ch /\ o = Op(t).op
  OBVIOUS
<1>0. TypeOK /\ AtItsOp(t) /\ Waits(t) /\ "run" \in Stages
  BY WakesElim DEF TypeInv, Stages
<1>2. /\ stage[t] = "act" /\ owner' = [owner EXCEPT ![c] = NoThread]
      /\ UNCHANGED <<setup, parked, buf, closed>>
      /\ UNCHANGED pc \/ Advance(t)
      /\ \/ o = "send" /\ Len(buf[c]) = Capacity[c]
         \/ o = "recv" /\ buf[c] = <<>>
  BY <1>1 DEF SendRefused, RecvNone, RecvRefused, Acting, Inside, Unlock, MayPut
<1>3. c \in Channel /\ owner[c] = t
  BY <1>0, <1>1, <1>2 DEF Waits, AtItsOp
<1>4. PICK s \in {"run", "ended"} : Moves(t, s)
  <2>1. CASE RecvNone(t)
    <3>1. Goto(t, "run")
      BY <2>1 DEF RecvNone
    <3>. QED
      BY <1>0, <3>1, GotoMoves
  <2>2. CASE SendRefused(t) \/ RecvRefused(t)
    <3>1. Errs(t) /\ ~setup.native
      BY <2>2 DEF SendRefused, RecvRefused, MayPut
    <3>. QED
      BY <1>0, <3>1, ErrsMoves
  <2>. QED
    BY <2>1, <2>2
<1>5. Respects(t)
  BY <1>2, <1>3, LockRespects
<1>6. Waits(t)'
  BY <1>4 DEF Waits, Moves
<1>7. ASSUME NEW d \in Channel, NEW op \in {"recv", "send"}, t \in Awake(d, op) PROVE Need(d, op) <= 0
  <2>1. d = c /\ op = o
    BY <1>1, <1>7 DEF Awake
  <2>2. Capacity[c] \in Nat /\ Len(buf[c]) \in Nat
    BY <1>0, <1>3, ThreadAssumption DEF TypeOK
  <2>. QED
    BY <1>2, <2>1, <2>2 DEF Need
<1>. QED
  BY <1>2, <1>4, <1>5, <1>6, <1>7, QuietWakes

LEMMA CloseWakes ==
  ASSUME TypeInv, TypeInv', WakeInv, NEW t \in Thread, CloseChannel(t)
  PROVE  WakeInv'
<1>1. PICK c : c = Op(t).ch
  OBVIOUS
<1>0. TypeOK /\ TypeOK' /\ "run" \in Stages
  BY DEF TypeInv, Stages
<1>2. /\ stage[t] = "run" /\ pc[t] \in DOMAIN setup.code[t] /\ Op(t).op = "close" /\ owner[c] = NoThread
      /\ closed' = [closed EXCEPT ![c] = TRUE] /\ UNCHANGED <<setup, parked, owner, buf>> /\ Advance(t)
      /\ GotoWaking(t, "run", Asleep(c, "recv") \cup Asleep(c, "send"))
  BY <1>1 DEF CloseChannel, Running
<1>3. c \in Channel
  BY <1>0, <1>1, <1>2, OpType, OpShape
<1>4. \A d \in Channel \ {c} : closed'[d] = closed[d]
  BY <1>0, <1>2 DEF TypeOK
<1>5. Moves(t, "run")
  <2>1. \A u \in Asleep(c, "recv") \cup Asleep(c, "send") : stage[u] = "asleep"
    BY DEF Asleep
  <2>. QED
    BY ONLY t \in Thread, <1>0, <1>2, <2>1, WakingMoves
<1>6. Respects(t)
  BY <1>2, <1>3, <1>4, LockRespects
<1>7. \A u \in Thread : Waits(u)'
  <2>1. Waits(t)'
    BY <1>5 DEF Waits, Moves
  <2>. QED
    BY <1>5, <1>6, <2>1, WakesElim, WaitsKept
<1>8. ASSUME NEW d \in Channel, NEW op \in {"recv", "send"} PROVE Enough(d, op)'
  <2>1. Need(d, op)' = Need(d, op) /\ Need(d, op) \in Int
    <3>1. Capacity[d] \in Nat /\ Len(buf[d]) \in Nat
      BY <1>0, ThreadAssumption DEF TypeOK
    <3>. QED
      BY <1>2, <3>1 DEF Need
  <2>2. Need(d, op)' <= Need(d, op) /\ t \notin Awake(d, op) /\ Enough(d, op)
    BY <1>2, <2>1, WakesElim DEF Awake
  <2>. QED
    BY <1>0, <1>5, <1>6, <2>2, EnoughKept
<1>9. ASSUME NEW d \in Channel, Asleep(d, "recv")' # {} PROVE ~closed'[d]
  <2>1. PICK u \in Asleep(d, "recv")' : TRUE
    BY <1>9
  <2>2. u \in Asleep(d, "recv") /\ stage'[u] = "asleep"
    BY <1>5, <1>6, SetsMove DEF Asleep, Moves
  <2>3. d # c
    BY <1>2, <2>2 DEF GotoWaking, Asleep
  <2>. QED
    BY <1>4, <2>2, <2>3, WakesElim
<1>. QED
  BY <1>0, <1>7, <1>8, <1>9, WakesIntro

\* Nurseries, try_recv of an empty channel, and the ends of threads and of the process.
LEMMA OtherWakes ==
  ASSUME TypeInv, TypeInv', WakeInv, NEW t \in Thread,
         \/ PollNone(t) \/ Open(t) \/ InlineDone(t) \/ Seal(t) \/ Join(t) \/ SpawnPanic(t)
         \/ SendClosed(t) \/ Return(t) \/ Fail(t) \/ Exit(t) \/ Die(t)
  PROVE  WakeInv'
<1>0. TypeOK /\ {"run", "join", "ended"} \subseteq Stages
  BY DEF TypeInv, Stages
<1>1. ASSUME Goto(t, "run") \/ Goto(t, "ended"), stage[t] \notin {"woken", "test", "act"},
             UNCHANGED <<setup, parked, owner, buf, closed>>, UNCHANGED pc \/ Advance(t)
      PROVE  WakeInv'
  <2>1. Moves(t, "run") \/ Moves(t, "ended")
    BY <1>0, <1>1, GotoMoves
  <2>. QED
    BY <1>1, <2>1, OutsideWakes
<1>2. CASE PollNone(t) \/ Open(t)
  <2>1. /\ stage[t] = "run" /\ stage' = stage
        /\ UNCHANGED <<setup, parked, owner, buf, closed>> /\ Advance(t)
    BY <1>2 DEF PollNone, Open, Running
  <2>2. Moves(t, "run")
    BY <1>0, <2>1 DEF Moves, TypeOK
  <2>. QED
    BY <2>1, <2>2, OutsideWakes
<1>3. CASE InlineDone(t)
  BY <1>1, <1>3 DEF InlineDone, Inside
<1>4. CASE Seal(t)
  <2>. DEFINE n == Head(opened[t])
              g == [group[n] EXCEPT !.sealed = TRUE]
  <2>1. n \in Nursery /\ Detect(t, n, g, "join")
    BY <1>0, <1>4 DEF Seal, TypeOK
  <2>2. g \in GroupBlock
    BY <1>0, <2>1 DEF TypeOK, GroupBlock
  <2>. HIDE DEF n, g
  <2>3. Moves(t, "join") \/ Moves(t, "dying")
    BY <1>0, <2>1, <2>2, DetectMoves
  <2>4. stage[t] = "run" /\ UNCHANGED <<setup, pc, parked, owner, buf, closed>>
    BY <1>4 DEF Seal, Running
  <2>. QED
    BY <2>3, <2>4, OutsideWakes
<1>5. CASE Join(t)
  <2>1. stage[t] = "join" /\ UNCHANGED <<setup, parked, owner, buf, closed>>
    BY <1>5 DEF Join, Inside
  <2>2. (Errs(t) /\ UNCHANGED pc) \/ (Goto(t, "run") /\ Advance(t))
    BY <1>5 DEF Join
  <2>. QED
    BY <1>1, <2>1, <2>2, ErrsWakes
<1>6. CASE SpawnPanic(t) \/ Die(t)
  BY <1>6, StillWakes DEF SpawnPanic, Die
<1>7. CASE SendClosed(t) \/ Fail(t)
  BY <1>7, ErrsWakes DEF SendClosed, Fail, Running
<1>8. CASE Return(t)
  BY <1>1, <1>8 DEF Return, Ends
<1>9. CASE Exit(t)
  <2>1. stage[t] = "run" /\ UNCHANGED <<setup, pc, parked, owner, buf, closed>>
    BY <1>9 DEF Exit, Running
  <2>2. UNCHANGED stage \/ Goto(t, "ended")
    BY <1>9 DEF Exit, Ends
  <2>. QED
    BY <1>1, <2>1, <2>2, StillWakes
<1>. QED
  BY <1>2, <1>3, <1>4, <1>5, <1>6, <1>7, <1>8, <1>9

\* A spawn starts a thread that is between operations, as its parent is.
LEMMA SpawnWakes ==
  ASSUME TypeInv, TypeInv', WakeInv, NEW t \in Thread, Spawn(t)
  PROVE  WakeInv'
<1>1. PICK u : u = Op(t).child
  OBVIOUS
<1>0. TypeOK /\ TypeOK'
  BY DEF TypeInv
<1>2. /\ stage[t] = "run" /\ stage[u] = "unborn" /\ UNCHANGED <<setup, parked, owner, buf, closed>>
      /\ pc[t] \in DOMAIN setup.code[t] /\ Op(t).op = "spawn"
  BY <1>1 DEF Spawn, Running
<1>3. u \in Thread
  BY <1>0, <1>1, <1>2, OpType, OpShape
<1>4. /\ {stage'[t], stage'[u]} \subseteq {"run", "inline"}
      /\ \A v \in Thread : v # t /\ v # u => stage'[v] = stage[v] /\ pc'[v] = pc[v]
  <2>1. CASE stage' = [stage EXCEPT ![t] = "inline", ![u] = "run"] /\ UNCHANGED pc
    BY <1>0, <1>2, <1>3, <2>1 DEF TypeOK
  <2>2. CASE Goto(u, "run") /\ Advance(t)
    BY <1>0, <1>2, <1>3, <2>2 DEF TypeOK, Goto, Advance
  <2>. QED
    BY <1>1, <2>1, <2>2 DEF Spawn
<1>5. ASSUME NEW v \in Thread
      PROVE  \/ stage'[v] = stage[v] /\ Op(v)' = Op(v)
             \/ stage[v] \in {"run", "unborn"} /\ stage'[v] \in {"run", "inline"}
  BY <1>2, <1>4 DEF Op
<1>6. \A c, op : Asleep(c, op)' = Asleep(c, op) /\ Awake(c, op)' = Awake(c, op)
  <2>1. ASSUME NEW c, NEW op, NEW v \in Thread
        PROVE  /\ v \in Asleep(c, op)' <=> v \in Asleep(c, op)
               /\ v \in Awake(c, op)' <=> v \in Awake(c, op)
    BY <1>5 DEF Asleep, Awake
  <2>2. ASSUME NEW c, NEW op
        PROVE  /\ Asleep(c, op) \subseteq Thread /\ Asleep(c, op)' \subseteq Thread
               /\ Awake(c, op) \subseteq Thread /\ Awake(c, op)' \subseteq Thread
    BY DEF Asleep, Awake
  <2>. QED
    BY <2>1, <2>2
<1>7. ASSUME NEW v \in Thread PROVE Waits(v)'
  <2>1. Waits(v)
    BY WakesElim
  <2>2. CASE stage'[v] = stage[v] /\ Op(v)' = Op(v)
    <3>1. Blocked(Op(v))' <=> Blocked(Op(v))
      BY <1>2, <2>2 DEF Blocked
    <3>. QED
      BY <1>2, <2>1, <2>2, <3>1 DEF Waits
  <2>3. CASE stage'[v] \in {"run", "inline"}
    BY <2>3 DEF Waits
  <2>. QED
    BY <1>5, <2>2, <2>3
<1>8. \A c \in Channel : \A op \in {"recv", "send"} : Enough(c, op)'
  <2>1. ASSUME NEW c \in Channel, NEW op \in {"recv", "send"} PROVE Enough(c, op)'
    <3>1. Need(c, op)' = Need(c, op) /\ Enough(c, op)
      BY <1>2, WakesElim DEF Need
    <3>. QED
      BY <1>6, <3>1 DEF Enough
  <2>. QED
    BY <2>1
<1>9. \A c \in Channel : Asleep(c, "recv")' # {} => ~closed'[c]
  BY <1>2, <1>6, WakesElim
<1>. QED
  BY <1>0, <1>7, <1>8, <1>9, WakesIntro

LEMMA InitWakeInv == Init => WakeInv
<1>. SUFFICES ASSUME Init PROVE WakeInv
  OBVIOUS
<1>1. \A t \in Thread : stage[t] \in {"run", "unborn"}
  BY DEF Init
<1>2. \A c, op : Asleep(c, op) = {}
  BY <1>1 DEF Asleep
<1>3. \A t \in Thread : Waits(t)
  BY <1>1 DEF Waits
<1>. QED
  BY <1>2, <1>3 DEF WakeInv, WakeupsSuffice

LEMMA StepWakeInv == TypeInv /\ TypeInv' /\ WakeInv /\ [Next]_vars => WakeInv'
<1>. SUFFICES ASSUME TypeInv, TypeInv', WakeInv, [Next]_vars PROVE WakeInv'
  OBVIOUS
<1>1. CASE UNCHANGED vars
  BY <1>1, StillWakes DEF vars
<1>2. ASSUME NEW t \in Thread, Step(t) \/ SpuriousWakeup(t) PROVE WakeInv'
  BY <1>2, WaitWakes, ParkWakes, PutTakeWakes, NothingWakes, CloseWakes, OtherWakes, SpawnWakes
  DEF Step
<1>. QED
  BY <1>1, <1>2 DEF Next, Gone

\* No wakeup is lost, in either build and for any programs, capacities and channels:
\* while a thread sleeps for a channel, every value or free slot it could go on with has
\* an awake thread on its way to it, although OP_SEND and OP_RECV signal one thread at
\* most, and none when nobody is registered.
THEOREM WakeupsAreEnough == Spec => []WakeupsSuffice
<1>1. TypeInv /\ TypeInv' /\ WakeInv /\ [Next]_vars => WakeInv'
  BY StepWakeInv
<1>2. WakeInv => WakeupsSuffice
  BY DEF WakeInv
<1>. QED
  BY <1>1, <1>2, InitWakeInv, TypeInvariant, PTL DEF Spec
=============================================================================
