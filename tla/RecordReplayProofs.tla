------------------------- MODULE RecordReplayProofs -------------------------
(***************************************************************************)
(* The replay of a captured program is the recorded run, for every program *)
(* and every value that may come from outside.                             *)
(***************************************************************************)
EXTENDS RecordReplay, TLAPS

Event == [src : Sources, val : Value]

LEMMA InstructionTypes ==
  ASSUME NEW i \in Instruction
  PROVE  /\ i.op = "draw" => i.src \in Scalars
         /\ i.op = "read" => i.src \in Strings
         /\ i.op = "call" => i.leaves \in Nat
         /\ i.op = "jump" => i.to \in Nat
         /\ i.op \in {"draw", "read", "call", "jump", "callout", "print", "write",
                      "return", "exit", "fail"}
BY DEF Instruction

\* A running VM stands on an instruction, and after one that neither ends the run
\* nor jumps there is another.
LEMMA Standing ==
  ASSUME NEW c \in Programs, NEW p \in 1..Len(c)
  PROVE  /\ c[p] \in Instruction /\ p \in Nat
         /\ c[p].op \notin {"return", "exit", "fail"} => p + 1 \in 1..Len(c)
         /\ c[p].op = "jump" => c[p].to \in 1..Len(c)
BY ReplayAssumption DEF WellFormed, Ends

\* Every demand that the log can answer in full is.
LEMMA AnsweredAll ==
  ASSUME NEW src, NEW n \in Nat, \A i \in 1..n : Due(src, i)
  PROVE  Answered(src, n) = n
<1>. DEFINE P(m) == /\ \A i \in 1..m : Due(src, i)
                    /\ m = n \/ ~Due(src, m + 1)
<1>1. n \in 0..n /\ P(n)
  OBVIOUS
<1>2. \A m \in 0..n : P(m) => m = n
  OBVIOUS
<1>3. Answered(src, n) = CHOOSE m \in 0..n : P(m)
  BY DEF Answered
<1>. HIDE DEF P
<1>. QED
  BY <1>1, <1>2, <1>3

-----------------------------------------------------------------------------
(* The recorded run is one the log determines *)

\* t is what the log makes of s: the instruction at s gets its values from the
\* events after s.pos, all of them from its own source.
Asks(s, src, n) == /\ s.pos + n <= Len(log)
                   /\ \A i \in 1..n : log[s.pos + i].src = src

Got(s, n) == [i \in 1..n |-> log[s.pos + i].val]

Follows(s, t) ==
  LET i == code[s.pc]
  IN /\ s.status = "running" /\ i.op \notin {"callout", "exit"}
     /\ i.op \in {"draw", "read"} =>
          /\ Asks(s, i.src, 1)
          /\ t = [s EXCEPT !.pc = s.pc + 1, !.acc = <<log[s.pos + 1].val>>, !.pos = s.pos + 1]
     /\ i.op = "call" =>
          /\ Asks(s, "ffi", i.leaves)
          /\ t = [s EXCEPT !.pc = s.pc + 1, !.acc = Got(s, i.leaves), !.pos = s.pos + i.leaves]
     /\ i.op = "print" => t = [s EXCEPT !.pc = s.pc + 1, !.out = Append(s.out, s.acc)]
     /\ i.op = "write" => t = [s EXCEPT !.pc = s.pc + 1]
     /\ i.op = "jump" => t = [s EXCEPT !.pc = IF s.acc = <<Nil>> THEN i.to ELSE s.pc + 1]
     /\ i.op = "return" => t = [s EXCEPT !.status = "ok",
                                         !.ret = IF s.acc = <<>> THEN Nil ELSE s.acc[1]]
     /\ i.op = "fail" => t = [s EXCEPT !.status = "error"]

\* A VM that a run of the program can leave behind, with its part of the log.
Here(s) == /\ s \in State /\ s.pc \in 1..Len(code) /\ s.pos <= Len(log)

Recorded == /\ path \in Seq(State) /\ Len(path) > 0 /\ path[1] = Fresh
            /\ \A k \in 1..Len(path) : Here(path[k])
            /\ \A k \in 1..(Len(path) - 1), s, t \in State :
                 s = path[k] /\ t = path[k + 1] => Follows(s, t)

LastOne == path[Len(path)]

Typed == /\ code \in Programs /\ phase \in {"record", "replay", "done"}
         /\ log \in Seq(Event) /\ step \in Nat

\* The recorded run so far is determined by the log; the replay is at one of its
\* states; the judgement is the one vm_replay's comparison gives.
Inv == Captured =>
         /\ Typed /\ Recorded /\ diverged = FALSE
         /\ phase = "record" => vm = LastOne /\ step + 1 = Len(path) /\ vm.pos = Len(log)
         /\ phase # "record" => /\ first = LastOne /\ first.status # "running"
                                /\ first.pos = Len(log)
                                /\ step + 1 <= Len(path) /\ vm = path[step + 1]
         /\ phase = "done" => /\ vm.status # "running"
                              /\ verdict = IF Agree THEN "deterministic" ELSE "diverged"

LEMMA ReplayInit == Init => Inv
<1>. SUFFICES ASSUME Init PROVE Inv
  OBVIOUS
<1>1. code \in Programs /\ Len(code) \in Nat /\ Len(code) > 0
  BY ReplayAssumption DEF Init, WellFormed
<1>2. Fresh \in State /\ Fresh.pc = 1 /\ Fresh.pos = 0
  BY ReplayAssumption DEF Fresh, State, Datum
<1>3. path = <<Fresh>> /\ Len(path) = 1 /\ path[1] = Fresh /\ log = <<>> /\ vm = Fresh
      /\ phase = "record" /\ step = 0 /\ diverged = FALSE /\ code \in Programs
  BY DEF Init
<1>4. Typed
  BY <1>3 DEF Typed
<1>5. Recorded
  BY <1>1, <1>2, <1>3 DEF Recorded, Here
<1>. QED
  BY <1>2, <1>3, <1>4, <1>5 DEF Inv, LastOne

-----------------------------------------------------------------------------
(* Recording *)

\* A longer log says of the old states what it said before.
LEMMA LogGrows ==
  ASSUME Typed, NEW e \in Seq(Event), log' = log \o e, code' = code,
         NEW s, NEW t, Here(s), Follows(s, t)
  PROVE  Follows(s, t)'
<1>. DEFINE i == code[s.pc]
<1>1. \A k \in 1..Len(log) : log'[k] = log[k]
  BY DEF Typed
<1>2. Len(log') >= Len(log) /\ Len(log) \in Nat /\ Len(log') \in Nat
  BY DEF Typed
<1>3. s.pos \in Nat /\ (i.op = "call" => i.leaves \in Nat)
  BY Standing, InstructionTypes DEF Here, State, Typed
<1>4. CASE i.op \in {"draw", "read"}
  <2>1. Asks(s, i.src, 1)
    BY <1>4 DEF Follows
  <2>2. s.pos + 1 \in 1..Len(log)
    BY <1>2, <1>3, <2>1 DEF Asks
  <2>3. Asks(s, i.src, 1)' /\ log'[s.pos + 1] = log[s.pos + 1]
    BY <1>1, <1>2, <1>3, <2>1, <2>2 DEF Asks
  <2>. QED
    BY <1>4, <2>3 DEF Follows
<1>5. CASE i.op = "call"
  <2>0. PICK n \in Nat : n = i.leaves
    BY <1>3, <1>5
  <2>1. Asks(s, "ffi", n)
    BY <1>5, <2>0 DEF Follows
  <2>2. s.pos + n <= Len(log) /\ \A k \in 1..n : s.pos + k \in 1..Len(log)
    BY <1>2, <1>3, <2>1 DEF Asks
  <2>3. \A k \in 1..n : log'[s.pos + k] = log[s.pos + k]
    BY <1>1, <2>2
  <2>4. Asks(s, "ffi", n)'
    <3>1. s.pos + n <= Len(log')
      BY <1>2, <1>3, <2>2
    <3>2. \A k \in 1..n : log'[s.pos + k].src = "ffi"
      BY <2>1, <2>3 DEF Asks
    <3>. QED
      BY <3>1, <3>2 DEF Asks
  <2>5. Got(s, n)' = Got(s, n)
    BY <2>3 DEF Got
  <2>. QED
    BY <1>5, <2>0, <2>4, <2>5 DEF Follows
<1>. QED
  BY <1>4, <1>5 DEF Follows

\* An instruction of the recorded run adds a state that the log determines.
LEMMA Extend ==
  ASSUME Inv, Captured, phase = "record", NEW t \in State, NEW e \in Seq(Event),
         log' = log \o e, Becomes(t), diverged' = diverged,
         t.pc \in 1..Len(code), t.pos = Len(log'), NEW s, s = vm, Follows(s, t)'
  PROVE  Inv'
<1>1. /\ code' = code /\ phase' = "record" /\ vm' = t /\ step' = step + 1 /\ ~diverged'
      /\ path' = Append(path, t) /\ Captured'
  BY DEF Becomes, Inv, Captured
<1>2. Typed /\ Recorded /\ vm = path[Len(path)] /\ step + 1 = Len(path)
  BY DEF Inv, LastOne
<1>3. /\ path \in Seq(State) /\ Len(path) \in Nat /\ Len(path) > 0 /\ step \in Nat
      /\ path' \in Seq(State) /\ Len(path') = Len(path) + 1
      /\ path'[Len(path) + 1] = t
      /\ \A k \in 1..Len(path) : path'[k] = path[k]
  BY <1>1, <1>2 DEF Recorded, Typed
<1>4. Len(log) \in Nat /\ Len(log') \in Nat /\ Len(log) <= Len(log') /\ log' \in Seq(Event)
  BY <1>2 DEF Typed
<1>5. Typed'
  BY <1>1, <1>2, <1>4 DEF Typed
<1>6. ASSUME NEW k \in 1..Len(path') PROVE Here(path[k])'
  <2>1. CASE k \in 1..Len(path)
    <3>1. Here(path[k]) /\ path'[k] = path[k] /\ path[k].pos \in Nat
      BY <1>2, <1>3, <2>1 DEF Recorded, Here, State
    <3>. QED
      BY <1>1, <1>4, <3>1 DEF Here
  <2>2. CASE k = Len(path) + 1
    BY <1>1, <1>3, <1>4, <2>2 DEF Here
  <2>. QED
    BY <1>3, <2>1, <2>2
<1>7. ASSUME NEW k \in 1..(Len(path') - 1), NEW a \in State, NEW b \in State,
             a = path'[k], b = path'[k + 1]
      PROVE  Follows(a, b)'
  <2>1. CASE k < Len(path)
    <3>1. k \in 1..Len(path) /\ k \in 1..(Len(path) - 1) /\ k + 1 \in 1..Len(path)
      BY <1>3, <2>1
    <3>2. a = path[k] /\ b = path[k + 1]
      BY <1>3, <1>7, <3>1
    <3>3. Here(a) /\ Follows(a, b)
      BY <1>2, <3>1, <3>2 DEF Recorded
    <3>. QED
      BY <1>1, <1>2, <3>3, LogGrows
  <2>2. CASE k = Len(path)
    BY <1>2, <1>3, <1>7, <2>2
  <2>. QED
    BY <1>3, <2>1, <2>2
<1>8. Recorded'
  <2>1. path'[1] = Fresh
    BY <1>2, <1>3 DEF Recorded
  <2>. QED
    BY <1>3, <1>6, <1>7, <2>1 DEF Recorded
<1>. QED
  BY <1>1, <1>2, <1>3, <1>5, <1>8 DEF Inv, LastOne

\* Where the VM stands, in either run of a captured program.
LEMMA VMHere ==
  ASSUME Inv, Captured
  PROVE  /\ Typed /\ Here(vm) /\ vm \in State /\ vm.pc \in Nat /\ vm.pos \in Nat
         /\ Op \in Instruction /\ Op.op \notin {"callout", "exit"}
         /\ Op.op \notin {"return", "fail"} => vm.pc + 1 \in 1..Len(code)
         /\ Op.op = "jump" => Op.to \in 1..Len(code)
<1>1. Typed /\ Recorded
  BY DEF Inv
<1>2. \E k \in 1..Len(path) : vm = path[k]
  BY <1>1 DEF Inv, LastOne, Recorded, Typed
<1>3. Here(vm)
  BY <1>1, <1>2 DEF Recorded
<1>4. code \in Programs /\ vm.pc \in 1..Len(code) /\ vm \in State
  BY <1>1, <1>3 DEF Here, Typed
<1>5. Op \in Instruction /\ Op.op \notin {"callout", "exit"}
  BY <1>4, Standing DEF Op, Captured
<1>. QED
  BY <1>1, <1>3, <1>4, <1>5, Standing DEF Op, State

LEMMA Joined ==
  ASSUME NEW S, NEW a \in Seq(S), NEW e \in Seq(S)
  PROVE  /\ a \o e \in Seq(S) /\ Len(a \o e) = Len(a) + Len(e) /\ Len(a) \in Nat
         /\ \A i \in 1..Len(e) : (a \o e)[Len(a) + i] = e[i]
OBVIOUS

\* ... so that an entry of a log is found behind those that were there before.
LEMMA Appended ==
  ASSUME NEW S, NEW a \in Seq(S), NEW e \in Seq(S), NEW b, b = a \o e,
         NEW n \in Nat, Len(e) = n
  PROVE  Len(b) = Len(a) + n /\ \A i \in 1..n : b[Len(a) + i] = e[i]
BY Joined

LEMMA WithTyped ==
  ASSUME vm \in State, NEW a \in Datum, NEW p \in Nat
  PROVE  With(a, p) \in State /\ With(a, p).pc = vm.pc + 1 /\ With(a, p).pos = p
<1>1. vm.pc + 1 \in Nat
  BY DEF State
<1>2. PICK q \in Nat : q = vm.pc + 1
  BY <1>1
<1>3. With(a, p) = [vm EXCEPT !.pc = q, !.acc = a, !.pos = p]
  BY <1>2 DEF With
<1>4. PICK t : t = [vm EXCEPT !.pc = q, !.acc = a, !.pos = p]
  OBVIOUS
<1>5. t \in State /\ t.pc = q /\ t.pos = p
  BY <1>4 DEF State
<1>. QED
  BY <1>2, <1>3, <1>4, <1>5

LEMMA RecordOne ==
  ASSUME Inv, Captured, phase = "record", vm.status = "running",
         Op.op \in {"draw", "read"}, NEW v \in Value, Record(Op.src, <<v>>, <<v>>)
  PROVE  Inv'
<1>1. /\ Typed /\ vm \in State /\ vm.pc \in Nat /\ vm.pos = Len(log) /\ Op \in Instruction
      /\ vm.pc + 1 \in 1..Len(code) /\ log \in Seq(Event) /\ Len(log) \in Nat
  BY VMHere DEF Inv, Typed
<1>2. PICK src : src = Op.src
  OBVIOUS
<1>3. PICK e : e = Entries(src, <<v>>)
  OBVIOUS
<1>4. src \in Sources
  BY <1>1, <1>2, InstructionTypes DEF Sources
<1>5. e \in Seq(Event) /\ Len(e) = 1 /\ e[1] = [src |-> src, val |-> v]
  BY <1>3, <1>4 DEF Entries, Event
<1>6. log' = log \o e
  BY <1>2, <1>3 DEF Record
<1>7. Len(log') = Len(log) + 1 /\ log'[Len(log) + 1] = [src |-> src, val |-> v]
  <2>1. Len(log') = Len(log) + 1 /\ \A i \in 1..1 : log'[Len(log) + i] = e[i]
    <3>1. \A n \in Nat : Len(e) = n =>
            Len(log') = Len(log) + n /\ \A i \in 1..n : log'[Len(log) + i] = e[i]
      BY <1>1, <1>5, <1>6, Appended
    <3>. QED
      BY <1>5, <3>1
  <2>. QED
    BY <1>5, <2>1
<1>8. PICK t : t = With(<<v>>, Len(log) + 1)
  OBVIOUS
<1>9. Becomes(t) /\ diverged' = diverged /\ code' = code
  BY <1>7, <1>8 DEF Record, Becomes
<1>10. t \in State /\ t.pc = vm.pc + 1 /\ t.pos = Len(log') /\ t.pc \in 1..Len(code)
  <2>. <<v>> \in Datum
    BY DEF Datum
  <2>. QED
    BY <1>1, <1>7, <1>8, WithTyped
<1>11. PICK s : s = vm
  OBVIOUS
<1>12. Asks(s, src, 1)'
  <2>1. \A i \in 1..1 : log'[s.pos + i].src = src
    BY <1>1, <1>7, <1>11
  <2>. QED
    BY <1>1, <1>7, <1>11, <2>1 DEF Asks
<1>13. t = [s EXCEPT !.pc = s.pc + 1, !.acc = <<log'[s.pos + 1].val>>, !.pos = s.pos + 1]
  <2>1. s.pos = Len(log) /\ log'[s.pos + 1].val = v
    BY <1>1, <1>7, <1>11
  <2>2. t = [s EXCEPT !.pc = s.pc + 1, !.acc = <<v>>, !.pos = s.pos + 1]
    BY <1>8, <1>11, <2>1 DEF With
  <2>. QED
    BY <2>1, <2>2
<1>14. Follows(s, t)'
  BY <1>2, <1>9, <1>11, <1>12, <1>13 DEF Follows, Op
<1>. QED
  BY <1>5, <1>6, <1>9, <1>10, <1>11, <1>14, Extend

LEMMA RecordLeaves ==
  ASSUME Inv, Captured, RecordCall
  PROVE  Inv'
<1>1. phase = "record" /\ vm.status = "running" /\ Op.op = "call"
  BY DEF RecordCall, At
<1>2. /\ Typed /\ vm \in State /\ vm.pc \in Nat /\ vm.pos = Len(log) /\ Op \in Instruction
      /\ vm.pc + 1 \in 1..Len(code) /\ log \in Seq(Event) /\ Len(log) \in Nat
  BY <1>1, VMHere DEF Inv, Typed
<1>3. PICK n \in Nat : n = Op.leaves
  BY <1>1, <1>2, InstructionTypes
<1>4. PICK vals \in [1..n -> Value] : Record("ffi", vals, vals)
  BY <1>3 DEF RecordCall
<1>5. vals \in Datum /\ Len(vals) = n
  BY DEF Datum
<1>6. PICK e : e = Entries("ffi", vals)
  OBVIOUS
<1>7. e \in Seq(Event) /\ Len(e) = n /\ \A i \in 1..n : e[i] = [src |-> "ffi", val |-> vals[i]]
  BY <1>5, <1>6 DEF Entries, Event, Sources
<1>8. log' = log \o e
  BY <1>4, <1>6 DEF Record
<1>9. /\ Len(log') = Len(log) + n
      /\ \A i \in 1..n : log'[Len(log) + i] = [src |-> "ffi", val |-> vals[i]]
  <2>1. Len(log') = Len(log) + n /\ \A i \in 1..n : log'[Len(log) + i] = e[i]
    BY <1>2, <1>7, <1>8, Appended
  <2>. QED
    BY <1>7, <2>1
<1>10. PICK t : t = With(vals, Len(log) + n)
  OBVIOUS
<1>11. Becomes(t) /\ diverged' = diverged /\ code' = code
  BY <1>4, <1>9, <1>10 DEF Record, Becomes
<1>12. t \in State /\ t.pc = vm.pc + 1 /\ t.pos = Len(log') /\ t.pc \in 1..Len(code)
  BY <1>2, <1>5, <1>9, <1>10, WithTyped
<1>13. PICK s : s = vm
  OBVIOUS
<1>14. Asks(s, "ffi", n)'
  <2>0. s.pos = Len(log)
    BY <1>2, <1>13
  <2>1. ASSUME NEW i \in 1..n PROVE log'[s.pos + i].src = "ffi"
    <3>1. log'[Len(log) + i] = [src |-> "ffi", val |-> vals[i]]
      BY <1>9
    <3>. QED
      BY <2>0, <3>1
  <2>2. s.pos + n <= Len(log')
    BY <1>2, <1>9, <2>0
  <2>. QED
    BY <2>1, <2>2 DEF Asks
<1>15. Got(s, n)' = vals
  <2>0. s.pos = Len(log)
    BY <1>2, <1>13
  <2>1. ASSUME NEW i \in 1..n PROVE log'[s.pos + i].val = vals[i]
    <3>1. log'[Len(log) + i] = [src |-> "ffi", val |-> vals[i]]
      BY <1>9
    <3>. QED
      BY <2>0, <3>1
  <2>. QED
    BY <2>1 DEF Got
<1>16. t = [s EXCEPT !.pc = s.pc + 1, !.acc = vals, !.pos = s.pos + n]
  BY <1>2, <1>10, <1>13 DEF With
<1>17. Follows(s, t)'
  BY <1>1, <1>3, <1>11, <1>13, <1>14, <1>15, <1>16 DEF Follows, Op
<1>. QED
  BY <1>1, <1>7, <1>8, <1>11, <1>12, <1>13, <1>17, Extend

-----------------------------------------------------------------------------
(* Instructions that are the same in both runs *)

LEMMA LocalFollows ==
  ASSUME Inv, Captured, NEW ph, Both(ph)
  PROVE  /\ phase = ph /\ vm.status = "running"
         /\ \E t \in State : Local(t) /\ Follows(vm, t) /\ t.pc \in 1..Len(code) /\ t.pos = vm.pos
<1>1. /\ Typed /\ vm \in State /\ vm.pc \in Nat /\ vm.pc \in 1..Len(code) /\ vm.acc \in Datum
      /\ Op.op \notin {"callout", "exit"}
      /\ Op.op \notin {"return", "fail"} => vm.pc + 1 \in 1..Len(code)
      /\ Op.op = "jump" => Op.to \in 1..Len(code)
  BY VMHere DEF Here, State
<1>2. PICK next \in Nat : next = vm.pc + 1
  BY <1>1
<1>3. CASE Output(ph)
  <2>a. vm.out \in Seq(Datum)
    BY <1>1 DEF State
  <2>b. Append(vm.out, vm.acc) \in Seq(Datum)
    BY <1>1, <2>a
  <2>0. PICK o \in Seq(Datum) : o = Append(vm.out, vm.acc)
    BY <2>b
  <2>1. PICK t : t = [vm EXCEPT !.pc = next, !.out = o]
    OBVIOUS
  <2>2. At(ph, "print") /\ Local(t)
    BY <1>2, <1>3, <2>0, <2>1 DEF Output
  <2>3. t \in State /\ t.pc = next /\ t.pos = vm.pos
    BY <1>1, <2>1 DEF State
  <2>. QED
    BY <1>1, <1>2, <2>0, <2>1, <2>2, <2>3 DEF At, Follows, Op
<1>4. CASE Write(ph)
  <2>1. PICK t : t = [vm EXCEPT !.pc = next]
    OBVIOUS
  <2>2. At(ph, "write") /\ Local(t)
    BY <1>2, <1>4, <2>1 DEF Write
  <2>3. t \in State /\ t.pc = next /\ t.pos = vm.pos
    BY <1>1, <2>1 DEF State
  <2>. QED
    BY <1>1, <1>2, <2>1, <2>2, <2>3 DEF At, Follows, Op
<1>5. CASE Jump(ph)
  <2>1. PICK t, q : t = [vm EXCEPT !.pc = q] /\ q = IF vm.acc = <<Nil>> THEN Op.to ELSE vm.pc + 1
    OBVIOUS
  <2>2. At(ph, "jump") /\ Local(t)
    BY <1>5, <2>1 DEF Jump
  <2>3. q \in 1..Len(code) /\ q \in Nat
    BY <1>1, <2>1, <2>2 DEF At
  <2>4. t \in State /\ t.pc = q /\ t.pos = vm.pos
    BY <1>1, <2>1, <2>3 DEF State
  <2>. QED
    BY <2>1, <2>2, <2>3, <2>4 DEF At, Follows, Op
<1>6. CASE Return(ph)
  <2>1. PICK t, r : /\ t = [vm EXCEPT !.status = "ok", !.ret = r]
                    /\ r = IF vm.acc = <<>> THEN Nil ELSE vm.acc[1]
    OBVIOUS
  <2>2. At(ph, "return") /\ Local(t)
    BY <1>6, <2>1 DEF Return
  <2>3. r \in Value
    BY <1>1, <2>1, ReplayAssumption DEF Datum
  <2>4. t \in State /\ t.pc = vm.pc /\ t.pos = vm.pos
    BY <1>1, <2>1, <2>3 DEF State
  <2>. QED
    BY <1>1, <2>1, <2>2, <2>4 DEF At, Follows, Op
<1>7. CASE Fail(ph)
  <2>1. PICK t : t = [vm EXCEPT !.status = "error"]
    OBVIOUS
  <2>2. At(ph, "fail") /\ Local(t)
    BY <1>7, <2>1 DEF Fail
  <2>3. t \in State /\ t.pc = vm.pc /\ t.pos = vm.pos
    BY <1>1, <2>1 DEF State
  <2>. QED
    BY <1>1, <2>1, <2>2, <2>3 DEF At, Follows, Op
<1>8. CASE Exit(ph)
  BY <1>1, <1>8 DEF Exit, At
<1>. QED
  BY <1>3, <1>4, <1>5, <1>6, <1>7, <1>8 DEF Both

LEMMA RecordLocal ==
  ASSUME Inv, Captured, Both("record")
  PROVE  Inv'
<1>1. phase = "record" /\ vm.status = "running"
  BY LocalFollows
<1>2. PICK t \in State : Local(t) /\ Follows(vm, t) /\ t.pc \in 1..Len(code) /\ t.pos = vm.pos
  BY LocalFollows
<1>3. Typed /\ Here(vm) /\ vm.pos = Len(log)
  BY <1>1, VMHere DEF Inv
<1>4. PICK s : s = vm
  OBVIOUS
<1>5. /\ Becomes(t) /\ log' = log /\ diverged' = diverged /\ code' = code
      /\ log' = log \o <<>> /\ <<>> \in Seq(Event)
  BY <1>2, <1>3 DEF Local, Becomes, Typed
<1>6. Follows(s, t)'
  BY <1>2, <1>3, <1>4, <1>5, LogGrows
<1>. QED
  BY <1>1, <1>2, <1>3, <1>4, <1>5, <1>6, Extend

-----------------------------------------------------------------------------
(* Replaying *)

LEMMA Functional ==
  ASSUME Inv, Captured, NEW t, NEW u, Follows(vm, t), Follows(vm, u)
  PROVE  t = u
<1>1. Op.op \in {"draw", "read", "call", "jump", "print", "write", "return", "fail"}
  BY VMHere, InstructionTypes
<1>. QED
  BY <1>1 DEF Follows, Op

\* A replay that runs is before the end of the recorded run.
LEMMA Ahead ==
  ASSUME Inv, Captured, phase = "replay", vm.status = "running"
  PROVE  /\ step + 2 \in 1..Len(path) /\ path[step + 2] \in State
         /\ Follows(vm, path[step + 2])
<1>1. /\ Typed /\ Recorded /\ first = LastOne /\ first.status # "running"
      /\ step + 1 <= Len(path) /\ vm = path[step + 1]
  BY DEF Inv
<1>2. step + 1 # Len(path)
  BY <1>1 DEF LastOne
<1>3. /\ step + 1 \in 1..(Len(path) - 1) /\ step + 1 \in 1..Len(path)
      /\ step + 2 \in 1..Len(path) /\ step + 2 = (step + 1) + 1
  BY <1>1, <1>2 DEF Typed, Recorded
<1>4. path[step + 1] \in State /\ path[step + 2] \in State
  BY <1>1, <1>3 DEF Recorded
<1>. QED
  BY <1>1, <1>3, <1>4 DEF Recorded

LEMMA Retrace ==
  ASSUME Inv, Captured, phase = "replay", step + 2 \in 1..Len(path),
         Becomes(path[step + 2]), log' = log, diverged' = diverged
  PROVE  Inv'
<1>1. /\ Typed /\ Recorded /\ ~diverged /\ first = LastOne /\ first.status # "running"
      /\ first.pos = Len(log) /\ step \in Nat
  BY DEF Inv, Typed
<1>2. /\ code' = code /\ phase' = "replay" /\ vm' = path[step + 2] /\ step' = step + 1
      /\ path' = path /\ first' = first /\ Captured'
  BY DEF Becomes, Captured
<1>3. Typed'
  BY <1>1, <1>2 DEF Typed
<1>4. ASSUME NEW k \in 1..Len(path') PROVE Here(path[k])'
  <2>1. Here(path[k]) /\ path'[k] = path[k]
    BY <1>1, <1>2 DEF Recorded
  <2>. QED
    BY <1>2, <2>1 DEF Here
<1>5. ASSUME NEW k \in 1..(Len(path') - 1), NEW a \in State, NEW b \in State,
             a = path'[k], b = path'[k + 1]
      PROVE  Follows(a, b)'
  <2>1. Here(a) /\ Follows(a, b)
    BY <1>1, <1>2, <1>5 DEF Recorded
  <2>. QED
    BY <1>2, <2>1 DEF Follows, Asks, Got
<1>6. Recorded'
  <2>1. path' \in Seq(State) /\ Len(path') > 0 /\ path'[1] = Fresh
    BY <1>1, <1>2 DEF Recorded
  <2>. QED
    BY <1>4, <1>5, <2>1 DEF Recorded
<1>. QED
  BY <1>1, <1>2, <1>3, <1>6 DEF Inv, LastOne

\* The log answers the replay as it was written.
LEMMA Answers ==
  ASSUME Inv, Captured, NEW src, NEW n \in Nat, Asks(vm, src, n)
  PROVE  Answered(src, n) = n /\ Consumed(n, n) = vm.pos + n
<1>1. vm.pos \in Nat /\ Len(log) \in Nat
  BY VMHere DEF Typed
<1>2. \A i \in 1..n : Due(src, i)
  BY <1>1 DEF Asks, Due
<1>. QED
  BY <1>2, AnsweredAll DEF Consumed

LEMMA ReplayOne ==
  ASSUME Inv, Captured, ReplayDraw \/ ReplayRead
  PROVE  Inv'
<1>1. phase = "replay" /\ vm.status = "running" /\ Op.op \in {"draw", "read"}
  BY DEF ReplayDraw, ReplayRead, At
<1>2. PICK u : u = path[step + 2] /\ Follows(vm, u) /\ step + 2 \in 1..Len(path)
  BY <1>1, Ahead
<1>3. Asks(vm, Op.src, 1) /\ u = With(<<log[vm.pos + 1].val>>, vm.pos + 1)
  BY <1>1, <1>2 DEF Follows, Op, With
<1>4. Answered(Op.src, 1) = 1 /\ Consumed(1, 1) = vm.pos + 1
  BY <1>3, Answers
<1>5. Replay(Op.src, 1, <<log[vm.pos + 1].val>>)
  BY <1>4 DEF ReplayDraw, ReplayRead
<1>6. Becomes(u) /\ (diverged' = (diverged \/ 1 < 1)) /\ log' = log
  BY <1>3, <1>4, <1>5 DEF Replay
<1>7. diverged' = diverged
  <2>1. diverged = FALSE
    BY DEF Inv
  <2>2. diverged' = (FALSE \/ FALSE)
    BY <1>6, <2>1
  <2>. QED
    BY <2>1, <2>2
<1>. QED
  BY <1>1, <1>2, <1>6, <1>7, Retrace

LEMMA ReplayLeaves ==
  ASSUME Inv, Captured, ReplayCall
  PROVE  Inv'
<1>1. phase = "replay" /\ vm.status = "running" /\ Op.op = "call"
  BY DEF ReplayCall, At
<1>2. PICK u : u = path[step + 2] /\ Follows(vm, u) /\ step + 2 \in 1..Len(path)
  BY <1>1, Ahead
<1>3. PICK n \in Nat : n = Op.leaves
  BY <1>1, VMHere, InstructionTypes
<1>4. Asks(vm, "ffi", n) /\ u = With(Got(vm, n), vm.pos + n)
  BY <1>1, <1>2, <1>3 DEF Follows, Op, With
<1>5. Answered("ffi", n) = n /\ Consumed(n, n) = vm.pos + n
  BY <1>4, Answers
<1>6. [i \in 1..n |-> IF i <= Answered("ffi", n) THEN log[vm.pos + i].val ELSE Nil] = Got(vm, n)
  BY <1>5 DEF Got
<1>7. Replay("ffi", n, Got(vm, n))
  BY <1>3, <1>6 DEF ReplayCall
<1>8. Becomes(u) /\ (diverged' = (diverged \/ n < n)) /\ log' = log
  BY <1>4, <1>5, <1>7 DEF Replay
<1>9. ~(n < n)
  BY <1>3
<1>10. diverged' = diverged
  <2>1. diverged = FALSE
    BY DEF Inv
  <2>2. diverged' = (FALSE \/ FALSE)
    BY <1>8, <1>9, <2>1
  <2>. QED
    BY <2>1, <2>2
<1>. QED
  BY <1>1, <1>2, <1>8, <1>10, Retrace

LEMMA ReplayLocal ==
  ASSUME Inv, Captured, Both("replay")
  PROVE  Inv'
<1>1. phase = "replay" /\ vm.status = "running"
  BY LocalFollows
<1>2. PICK t \in State : Local(t) /\ Follows(vm, t)
  BY LocalFollows
<1>3. PICK u : u = path[step + 2] /\ Follows(vm, u) /\ step + 2 \in 1..Len(path)
  BY <1>1, Ahead
<1>4. t = u
  BY <1>2, <1>3, Functional
<1>5. Becomes(u) /\ log' = log /\ diverged' = diverged
  BY <1>2, <1>4 DEF Local
<1>. QED
  BY <1>1, <1>3, <1>5, Retrace

-----------------------------------------------------------------------------
(* vm_replay *)

\* A step that leaves the recording alone keeps what it says.
LEMMA RecordedStands ==
  ASSUME Recorded, code' = code, path' = path, log' = log
  PROVE  Recorded'
<1>1. ASSUME NEW k \in 1..Len(path') PROVE Here(path[k])'
  <2>1. Here(path[k]) /\ path'[k] = path[k]
    BY <1>1 DEF Recorded
  <2>. QED
    BY <2>1 DEF Here
<1>2. ASSUME NEW k \in 1..(Len(path') - 1), NEW a \in State, NEW b \in State,
             a = path'[k], b = path'[k + 1]
      PROVE  Follows(a, b)'
  <2>1. Follows(a, b)
    BY <1>2 DEF Recorded
  <2>. QED
    BY <2>1 DEF Follows, Asks, Got
<1>3. path' \in Seq(State) /\ Len(path') > 0 /\ path'[1] = Fresh
  BY DEF Recorded
<1>. QED
  BY <1>1, <1>2, <1>3 DEF Recorded

LEMMA StartKeeps ==
  ASSUME Inv, Captured, StartReplay
  PROVE  Inv'
<1>1. /\ Typed /\ Recorded /\ ~diverged /\ vm = LastOne /\ vm.pos = Len(log)
      /\ vm.status # "running"
  BY DEF Inv, StartReplay
<1>2. /\ code' = code /\ phase' = "replay" /\ first' = vm /\ vm' = Fresh /\ step' = 0
      /\ log' = log /\ path' = path /\ ~diverged' /\ LastOne' = LastOne
  BY <1>1 DEF StartReplay, LastOne
<1>3. Typed'
  BY <1>1, <1>2 DEF Typed
<1>4. Recorded'
  BY <1>1, <1>2, RecordedStands
<1>5. step' + 1 <= Len(path') /\ vm' = path'[step' + 1]
  BY <1>1, <1>2 DEF Recorded
<1>. QED
  BY <1>1, <1>2, <1>3, <1>4, <1>5 DEF Inv

LEMMA JudgeKeeps ==
  ASSUME Inv, Captured, Judge
  PROVE  Inv'
<1>1. /\ Typed /\ Recorded /\ ~diverged /\ first = LastOne /\ first.status # "running"
      /\ first.pos = Len(log) /\ step + 1 <= Len(path) /\ vm = path[step + 1]
      /\ vm.status # "running"
  BY DEF Inv, Judge
<1>2. /\ code' = code /\ phase' = "done" /\ first' = first /\ vm' = vm /\ step' = step
      /\ log' = log /\ path' = path /\ diverged' = diverged /\ LastOne' = LastOne
      /\ verdict' = IF Agree THEN "deterministic" ELSE "diverged"
  BY DEF Judge, LastOne
<1>3. Agree' <=> Agree
  BY <1>2 DEF Agree
<1>4. Typed' /\ Recorded'
  BY <1>1, <1>2, RecordedStands DEF Typed
<1>5. verdict' = IF Agree' THEN "deterministic" ELSE "diverged"
  BY <1>2, <1>3
<1>. QED
  BY <1>1, <1>2, <1>4, <1>5 DEF Inv

LEMMA CodeIsFixed == [Next]_vars => code' = code
BY DEF Next, vars, Both, RecordDraw, RecordRead, RecordCall, RecordCallout, Record,
       ReplayDraw, ReplayRead, ReplayCall, ReplayCallout, Replay, Output, Write, Jump,
       Return, Exit, Fail, Local, Becomes, StartReplay, Judge

LEMMA ReplayInductive == Inv /\ [Next]_vars => Inv'
<1>. SUFFICES ASSUME Inv, [Next]_vars PROVE Inv'
  OBVIOUS
<1>1. Captured' <=> Captured
  BY CodeIsFixed DEF Captured
<1>2. CASE ~Captured
  BY <1>1, <1>2 DEF Inv
<1>3. CASE Captured
  <2>1. CASE RecordDraw \/ RecordRead
    BY <1>3, <2>1, RecordOne DEF RecordDraw, RecordRead, At
  <2>2. CASE RecordCall
    BY <1>3, <2>2, RecordLeaves
  <2>3. CASE RecordCallout \/ ReplayCallout
    BY <1>3, <2>3, VMHere DEF RecordCallout, ReplayCallout, At
  <2>4. CASE Both("record")
    BY <1>3, <2>4, RecordLocal
  <2>5. CASE ReplayDraw \/ ReplayRead
    BY <1>3, <2>5, ReplayOne
  <2>6. CASE ReplayCall
    BY <1>3, <2>6, ReplayLeaves
  <2>7. CASE Both("replay")
    BY <1>3, <2>7, ReplayLocal
  <2>8. CASE StartReplay
    BY <1>3, <2>8, StartKeeps
  <2>9. CASE Judge
    BY <1>3, <2>9, JudgeKeeps
  <2>10. CASE UNCHANGED vars
    <3>1. /\ code' = code /\ phase' = phase /\ vm' = vm /\ log' = log /\ first' = first
          /\ diverged' = diverged /\ verdict' = verdict /\ path' = path /\ step' = step
      BY <2>10 DEF vars
    <3>2. Recorded'
      BY <1>3, <3>1, RecordedStands DEF Inv
    <3>3. Typed' /\ LastOne' = LastOne /\ (Agree' <=> Agree)
      BY <1>3, <3>1 DEF Inv, Typed, LastOne, Agree
    <3>. QED
      BY <1>3, <3>1, <3>2, <3>3 DEF Inv
  <2>. QED
    BY <2>1, <2>2, <2>3, <2>4, <2>5, <2>6, <2>7, <2>8, <2>9, <2>10 DEF Next
<1>. QED
  BY <1>2, <1>3

-----------------------------------------------------------------------------

\* The second run of a captured program is the first one, instruction by
\* instruction, however long it is and whatever its values are.
THEOREM ReplayFollows == Spec => []Lockstep
<1>1. Inv => Lockstep
  <2>. SUFFICES ASSUME Inv, Captured, phase # "record"
                PROVE  step < Len(path) /\ vm = path[step + 1] /\ ~diverged
    BY DEF Lockstep
  <2>1. step \in Nat /\ Len(path) \in Nat /\ step + 1 <= Len(path)
    BY DEF Inv, Typed, Recorded
  <2>. QED
    BY <2>1 DEF Inv
<1>. QED
  BY <1>1, ReplayInit, ReplayInductive, PTL DEF Spec

\* A run that succeeded and asked nothing of the world but what the log keeps is
\* never called diverged.
THEOREM HonestIsNotAccused == Spec => []CapturedIsReproduced
<1>1. Inv => CapturedIsReproduced
  <2>. SUFFICES ASSUME Inv, Captured, first.status = "ok", phase = "done"
                PROVE  verdict = "deterministic"
    BY DEF CapturedIsReproduced
  <2>1. /\ Typed /\ Recorded /\ ~diverged /\ first = LastOne /\ first.pos = Len(log)
        /\ step + 1 <= Len(path) /\ vm = path[step + 1] /\ vm.status # "running"
        /\ verdict = IF Agree THEN "deterministic" ELSE "diverged"
    BY DEF Inv
  <2>2. step + 1 = Len(path)
    <3>1. SUFFICES ASSUME step + 1 # Len(path) PROVE FALSE
      OBVIOUS
    <3>2. /\ step + 1 \in 1..(Len(path) - 1) /\ step + 1 \in 1..Len(path)
          /\ (step + 1) + 1 \in 1..Len(path)
      BY <2>1, <3>1 DEF Typed, Recorded
    <3>3. Follows(path[step + 1], path[(step + 1) + 1])
      BY <2>1, <3>2 DEF Recorded
    <3>. QED
      BY <2>1, <3>3 DEF Follows
  <2>3. vm = first
    BY <2>1, <2>2 DEF LastOne
  <2>. QED
    BY <2>1, <2>3 DEF Agree
<1>. QED
  BY <1>1, ReplayInit, ReplayInductive, PTL DEF Spec
=============================================================================
