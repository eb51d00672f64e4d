---------------------------- MODULE RecordReplay ----------------------------
(***************************************************************************)
(* inglec --emit=replay.  vm_replay runs a program twice on fresh VMs:     *)
(* once recording every value that comes from outside, once answering from *)
(* the recording, and says whether the two runs agree.                     *)
(*                                                                         *)
(* The program is one thread of instructions over the last value it got,   *)
(* as it is under the serial scheduler, whose interleaving is fixed.  A    *)
(* value is a leaf: a scalar, the bytes of a string.  Zero and the empty   *)
(* string are Nil.                                                         *)
(***************************************************************************)
EXTENDS Integers, Sequences

CONSTANTS Value, Nil,
          Programs,        \* the programs a user might write, a set of Code
          MaxSteps,        \* bound: instructions of a run
          MaxPrints        \* bound: values a run prints

Scalars == {"random", "clock"}
Strings == {"read_line", "read_file", "list_dir"}
Sources == Scalars \union Strings \union {"ffi"}

\* "callout" is a foreign call that hands back more than its result leaves: a
\* string, whose leaf is a pointer, or the bytes it wrote to a mut buffer.
Instruction ==
       [op : {"draw"}, src : Scalars] \union [op : {"read"}, src : Strings]
  \union [op : {"call"}, leaves : Nat] \union [op : {"jump"}, to : Nat]
  \union [op : {"callout", "print", "write", "return", "exit", "fail"}]

Ends(i) == i.op \in {"return", "exit", "fail"}

\* Every jump lands in the code, and the last instruction ends the run.
WellFormed(c) == /\ c \in Seq(Instruction) /\ Len(c) > 0
                 /\ Ends(c[Len(c)])
                 /\ \A i \in 1..Len(c) : c[i].op = "jump" => c[i].to \in 1..Len(c)

ASSUME ReplayAssumption == /\ Nil \in Value
                           /\ \A c \in Programs : WellFormed(c)

VARIABLES
  code,          \* the program
  phase,         \* "record", then "replay", then "done"
  vm,            \* the VM that runs: pc, last datum, output, log position, outcome
  log,           \* nondet_log
  diverged,      \* nondet_diverged of the second VM
  first,         \* the VM of the recorded run, once it has ended
  verdict,       \* what vm_replay prints
  path, step     \* history: the recorded run's states; instructions of this run
vars == <<code, phase, vm, log, diverged, first, verdict, path, step>>

Fresh == [pc |-> 1, acc |-> <<Nil>>, out |-> <<>>, pos |-> 0,
          status |-> "running", ret |-> Nil]

Init == /\ code \in Programs
        /\ phase = "record" /\ vm = Fresh /\ log = <<>> /\ diverged = FALSE
        /\ first = Fresh /\ verdict = "none"
        /\ path = <<Fresh>> /\ step = 0

Op == code[vm.pc]
At(ph, op) == phase = ph /\ vm.status = "running" /\ Op.op = op

\* The VM after an instruction that leaves the datum a and the log position p.
With(a, p) == [vm EXCEPT !.pc = vm.pc + 1, !.acc = a, !.pos = p]

\* What every instruction does to the history.
Becomes(t) == /\ step < MaxSteps
              /\ vm' = t /\ step' = step + 1
              /\ path' = IF phase = "record" THEN Append(path, t) ELSE path
              /\ UNCHANGED <<code, phase, first, verdict>>

-----------------------------------------------------------------------------
(* Recording: the value comes from outside, and the log keeps it *)

EntriesButLast(src, vals) ==                                          \* mutant
  [i \in 1..(IF Len(vals) > 1 THEN Len(vals) - 1 ELSE Len(vals)) |-> [src |-> src, val |-> vals[i]]]
Entries(src, vals) == [i \in 1..Len(vals) |-> [src |-> src, val |-> vals[i]]]

Record(src, vals, a) ==
  /\ log' = log \o Entries(src, vals)
  /\ Becomes(With(a, Len(log')))
  /\ UNCHANGED diverged

RecordDraw == At("record", "draw") /\ \E v \in Value : Record(Op.src, <<v>>, <<v>>)

RecordRead == At("record", "read") /\ \E v \in Value : Record(Op.src, <<v>>, <<v>>)

RecordCall ==
  /\ At("record", "call")
  /\ \E vals \in [1..Op.leaves -> Value] : Record("ffi", vals, vals)

RecordCallout ==
  /\ At("record", "callout")
  /\ \E leaf, bytes \in Value : Record("ffi", <<leaf>>, <<bytes>>)

-----------------------------------------------------------------------------
(* Replaying: the next event of the log answers, if it has the right source *)

DueBeforeLast(src, k) == vm.pos + k < Len(log) /\ log[vm.pos + k].src = src  \* mutant
Due(src, k) == vm.pos + k <= Len(log) /\ log[vm.pos + k].src = src

\* How many of n demands the log answers before it answers none.
Answered(src, n) ==
  CHOOSE m \in 0..n : /\ \A i \in 1..m : Due(src, i)
                      /\ m = n \/ ~Due(src, m + 1)

ConsumedNone(m, n) == vm.pos                                          \* mutant
Consumed(m, n) == vm.pos + m

Replay(src, n, a) ==
  LET m == Answered(src, n)
  IN /\ Becomes(With(a, Consumed(m, n)))
     /\ diverged' = (diverged \/ m < n)
     /\ UNCHANGED log

\* A scalar that the log does not have is drawn afresh.
ReplayDraw ==
  /\ At("replay", "draw")
  /\ IF Answered(Op.src, 1) = 1
       THEN Replay(Op.src, 1, <<log[vm.pos + 1].val>>)
       ELSE \E v \in Value : Replay(Op.src, 1, <<v>>)

ReplayRead ==
  /\ At("replay", "read")
  /\ Replay(Op.src, 1, IF Answered(Op.src, 1) = 1 THEN <<log[vm.pos + 1].val>> ELSE <<Nil>>)

ReplayCall ==
  /\ At("replay", "call")
  /\ Replay("ffi", Op.leaves,
            [i \in 1..Op.leaves |-> IF i <= Answered("ffi", Op.leaves)
                                      THEN log[vm.pos + i].val ELSE Nil])

\* No foreign code runs: the string is empty, the buffer stays as it was.
ReplayCallout == At("replay", "callout") /\ Replay("ffi", 1, <<Nil>>)

-----------------------------------------------------------------------------
(* Instructions that do the same in both runs, for the program *)

Local(t) == Becomes(t) /\ UNCHANGED <<log, diverged>>

Output(ph) == /\ At(ph, "print") /\ Len(vm.out) < MaxPrints
             /\ Local([vm EXCEPT !.pc = vm.pc + 1, !.out = Append(vm.out, vm.acc)])

\* write_file: done while recording, skipped while replaying.
Write(ph) == At(ph, "write") /\ Local([vm EXCEPT !.pc = vm.pc + 1])

Jump(ph) == /\ At(ph, "jump")
            /\ Local([vm EXCEPT !.pc = IF vm.acc = <<Nil>> THEN Op.to ELSE vm.pc + 1])

Return(ph) == /\ At(ph, "return")
              /\ Local([vm EXCEPT !.status = "ok",
                                  !.ret = IF vm.acc = <<>> THEN Nil ELSE vm.acc[1]])

\* exit() ends the run without storing main's value: vm_replay reads a variable
\* nobody wrote.
Exit(ph) == /\ At(ph, "exit")
            /\ \E junk \in Value : Local([vm EXCEPT !.status = "ok", !.ret = junk])

Fail(ph) == At(ph, "fail") /\ Local([vm EXCEPT !.status = "error"])

Both(ph) == Output(ph) \/ Write(ph) \/ Jump(ph) \/ Return(ph) \/ Exit(ph) \/ Fail(ph)

-----------------------------------------------------------------------------
(* vm_replay *)

StartReplay ==
  /\ phase = "record" /\ vm.status # "running"
  /\ phase' = "replay" /\ first' = vm /\ vm' = Fresh /\ step' = 0
  /\ UNCHANGED <<code, log, diverged, verdict, path>>

Agree == /\ vm.status = first.status /\ first.status = "ok"
         /\ ~diverged
         /\ vm.ret = first.ret /\ vm.pos = Len(log) /\ vm.out = first.out

Judge ==
  /\ phase = "replay" /\ vm.status # "running"
  /\ phase' = "done" /\ verdict' = IF Agree THEN "deterministic" ELSE "diverged"
  /\ UNCHANGED <<code, vm, log, diverged, first, path, step>>

Next == \/ RecordDraw \/ RecordRead \/ RecordCall \/ RecordCallout \/ Both("record")
        \/ ReplayDraw \/ ReplayRead \/ ReplayCall \/ ReplayCallout \/ Both("replay")
        \/ StartReplay \/ Judge

Spec == Init /\ [][Next]_vars
\* One thread runs the program to its end and then judges.
FairSpec == Spec /\ WF_vars(Next)

-----------------------------------------------------------------------------
(* Properties *)

Datum == Seq(Value)
State == [pc : Nat, acc : Datum, out : Seq(Datum), pos : Nat,
          status : {"running", "ok", "error"}, ret : Value]

\* The variables have their types, and the next event is one of the recording or
\* the end of it: nondet_pos never passes nondet_count.
TypeOK == /\ code \in Programs /\ phase \in {"record", "replay", "done"}
          /\ vm \in State /\ vm.pc \in 1..Len(code) /\ vm.pos <= Len(log)
          /\ log \in Seq([src : Sources, val : Value])
          /\ diverged \in BOOLEAN /\ first \in State
          /\ verdict \in {"none", "deterministic", "diverged"}
          /\ path \in Seq(State) /\ step \in Nat

\* A program whose values from outside are all result leaves the log keeps, and
\* that does not call exit().
Captured == \A i \in 1..Len(code) : code[i].op \notin {"callout", "exit"}

\* The second run of a captured program is the first one, instruction by
\* instruction: same place, same datum, same output, same position in the log.
Lockstep == Captured /\ phase # "record" => /\ step < Len(path) /\ vm = path[step + 1]
                                            /\ ~diverged

\* A captured run that succeeds is called deterministic, whatever came from
\* outside: an honest program is never accused.
CapturedIsReproduced ==
  Captured /\ first.status = "ok" /\ phase = "done" => verdict = "deterministic"

\* The replay of a captured run ends: no loop waits for a value that the log has
\* given out before.
ReplayEnds == Captured /\ phase = "replay" ~> phase = "done"

\* A failing run is reproduced like any other.
FailureIsReproduced ==
  Captured /\ first.status = "error" /\ phase = "done" => verdict = "deterministic"
=============================================================================
