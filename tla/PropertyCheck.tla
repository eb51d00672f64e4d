---------------------------- MODULE PropertyCheck ----------------------------
(***************************************************************************)
(* inglec --emit=check.  vm_check runs every checkable function of the     *)
(* program on generated inputs, in one VM; the first input that breaks a   *)
(* contract is shrunk while it still fails, run once more for its message, *)
(* and reported.                                                           *)
(*                                                                         *)
(* An argument leaf is a sequence of numbers: an array, or one scalar.     *)
(* What a function does on an input is decided when it first runs on it.   *)
(***************************************************************************)
EXTENDS Integers, Sequences

CONSTANTS Programs,        \* sequences of the checkable functions of a program
          Number,          \* the numbers that are generated and their halves
          MaxLen,          \* bound: length of a generated array
          Trials,          \* CHECK_TRIALS
          MaxRejects,      \* CHECK_MAX_REJECTS
          MaxPasses        \* shrink's pass < 64

\* What a run of a function can do.  "fails": its own ensures or assert, a panic, a
\* fault.  "rejects": its own requires.  "callee": the requires of a function it
\* calls.
Does == {"passes", "fails", "rejects", "callee", "exits"}

\* A function: its leaves (an array or not, of bools or of ints), what it can do,
\* whether it does the same on equal inputs, and whether it calls a native (print,
\* exit...) once past its requires clauses.
Leaf == [array : BOOLEAN, bool : BOOLEAN]
Function == [leaves : Seq(Leaf), can : SUBSET Does, pure : BOOLEAN, native : BOOLEAN]

ASSUME CheckAssumption == /\ Programs \subseteq Seq(Function)
                          /\ \A p \in Programs : \A i \in 1..Len(p) :
                               "exits" \in p[i].can => p[i].native
                          /\ Number \subseteq Int
                          /\ Trials \in Nat /\ MaxRejects \in Nat /\ MaxPasses \in Nat

VARIABLES
  prog,          \* the program
  fi,            \* the function that is checked
  phase,         \* "generate", "shrink", "report", then "ok" or "failed"; "done"
  args,          \* its arguments
  ran, rejects,  \* trials that counted, and inputs out of the domain
  at,            \* where shrink is
  check_msg,     \* whose message the last trial stored
  exiting,       \* vm->exit_requested, which nothing resets
  detail,        \* what the report says of the counterexample
  seen           \* history: what the function did, input by input
vars == <<prog, fi, phase, args, ran, rejects, at, check_msg, exiting, detail, seen>>

F == prog[fi]
Argc == Len(F.leaves)

Values(leaf) == IF leaf.bool THEN Number \intersect {0, 1} ELSE Number
Generated(leaf) ==
  UNION {[1..n -> Values(leaf)] : n \in IF leaf.array THEN 0..MaxLen ELSE {1}}
Inputs == {a \in [1..Argc -> UNION {Generated(F.leaves[i]) : i \in 1..Argc}] :
             \A i \in 1..Argc : a[i] \in Generated(F.leaves[i])}

-----------------------------------------------------------------------------
(* One trial *)

Start == [leaf |-> 1, elem |-> 1, what |-> "drop",
          removed |-> FALSE, improved |-> FALSE, pass |-> 0]

Init == /\ prog \in Programs /\ fi = 1
        /\ phase = IF prog = <<>> THEN "done" ELSE "generate"
        /\ args = <<>> /\ ran = 0 /\ rejects = 0 /\ at = Start
        /\ check_msg = "none" /\ exiting = FALSE /\ detail = "none" /\ seen = {}

\* The interpreter stops at the first native it calls while an exit is requested,
\* and run() says VM_OK.
Cut(d) == exiting /\ F.native /\ d # "rejects"

\* The trial ends in VM_RUNTIME_ERROR.
Errs(d) == ~Cut(d) /\ d \in {"fails", "rejects", "callee"}

\* The message of every requires clause begins with "precondition", whose ever it is.
OutOfDomainAll(d) == Errs(d)                                          \* mutant
OutOfDomain(d) == Errs(d) /\ d # "fails"

Fails(d) == Errs(d) /\ ~OutOfDomain(d)

\* run_one_trial on the input a.
Trial(a, d) ==
  /\ d \in F.can
  /\ F.pure => \A s \in seen : s.args = a => s.does = d
  /\ seen' = seen \union {[args |-> a, does |-> d, cut |-> Cut(d)]}
  /\ exiting' = (exiting \/ d = "exits")
  /\ check_msg' = IF Errs(d) THEN d ELSE "none"
  /\ UNCHANGED <<prog, fi>>

More == ran < Trials /\ rejects <= MaxRejects

Generate ==
  /\ phase = "generate" /\ More
  /\ \E a \in Inputs, d \in Does :
       /\ Trial(a, d)
       /\ args' = a
       /\ rejects' = IF OutOfDomain(d) THEN rejects + 1 ELSE rejects
       /\ ran' = IF OutOfDomain(d) THEN ran ELSE ran + 1
       /\ phase' = IF Fails(d) THEN "shrink" ELSE "generate"
  /\ UNCHANGED <<at, detail>>

-----------------------------------------------------------------------------
(* shrink: drop elements, then simplify what is left, leaf by leaf *)

Here(w) == phase = "shrink" /\ at.leaf <= Argc /\ at.what = w
This == args[at.leaf]

Without(s, e) == [k \in 1..(Len(s) - 1) |-> IF k < e THEN s[k] ELSE s[k + 1]]

\* Division of C: towards zero.
HalfToMinus(v) == v \div 2 - 1                                        \* mutant
Half(v) == IF v >= 0 THEN v \div 2 ELSE -((-v) \div 2)

Dropped == [args EXCEPT ![at.leaf] = Without(This, at.elem)]
Set(v) == [args EXCEPT ![at.leaf][at.elem] = v]

RestoredNever(a) == a                                                 \* mutant
Restored(a) == args

\* trial_fails on the candidate a, which is kept when it fails.
Try(a, kept, undone) ==
  /\ \E d \in Does : /\ Trial(a, d)
                     /\ args' = IF Fails(d) THEN a ELSE Restored(a)
                     /\ at' = IF Fails(d) THEN kept ELSE undone
  /\ UNCHANGED <<phase, ran, rejects, detail>>

Onward == [at EXCEPT !.elem = at.elem + 1, !.what = "zero"]
BetterUnmarked == Onward                                              \* mutant
Better == [Onward EXCEPT !.improved = TRUE]

Drop == /\ Here("drop") /\ F.leaves[at.leaf].array /\ at.elem <= Len(This)
        /\ Try(Dropped, [at EXCEPT !.removed = TRUE, !.improved = TRUE],
               [at EXCEPT !.elem = at.elem + 1])

Zero == /\ Here("zero") /\ at.elem <= Len(This) /\ This[at.elem] # 0
        /\ Try(Set(0), Better,
               IF F.leaves[at.leaf].bool THEN Onward ELSE [at EXCEPT !.what = "half"])

Halve == Here("half") /\ Try(Set(Half(This[at.elem])), Better, Onward)

Moves(a) == at' = a /\ UNCHANGED <<prog, fi, phase, args, ran, rejects, check_msg, exiting, detail, seen>>

\* while (removed): from the first element again, until nothing goes.
RescanAlways == TRUE                                                  \* mutant
Rescan == at.removed

DropsDone ==
  /\ Here("drop") /\ (F.leaves[at.leaf].array => at.elem > Len(This))
  /\ Moves(IF F.leaves[at.leaf].array /\ Rescan
             THEN [at EXCEPT !.elem = 1, !.removed = FALSE]
             ELSE [at EXCEPT !.elem = 1, !.what = "zero"])

IsZero == Here("zero") /\ at.elem <= Len(This) /\ This[at.elem] = 0 /\ Moves(Onward)

LeafDone == /\ Here("zero") /\ at.elem > Len(This)
            /\ Moves([at EXCEPT !.leaf = at.leaf + 1, !.elem = 1, !.what = "drop",
                                !.removed = FALSE])

Again == at.improved /\ at.pass + 1 < MaxPasses

NextPass == /\ phase = "shrink" /\ at.leaf > Argc /\ Again
            /\ Moves([Start EXCEPT !.pass = at.pass + 1])

Shrunk == /\ phase = "shrink" /\ at.leaf > Argc /\ ~Again
          /\ phase' = "report"
          /\ UNCHANGED <<prog, fi, args, ran, rejects, at, check_msg, exiting, detail, seen>>

-----------------------------------------------------------------------------
(* The report, and the next function *)

\* The input is run again for its message; a run that stored none is called a
\* crash.
ToldBefore == check_msg                                               \* mutant
Told == check_msg'

Report ==
  /\ phase = "report"
  /\ \E d \in Does :
       /\ Trial(args, d)
       /\ detail' = Told
  /\ phase' = "failed"
  /\ UNCHANGED <<args, ran, rejects, at>>

Passed == /\ phase = "generate" /\ ~More
          /\ phase' = "ok"
          /\ UNCHANGED <<prog, fi, args, ran, rejects, at, check_msg, exiting, detail, seen>>

NextFunction ==
  /\ phase \in {"ok", "failed"}
  /\ IF fi < Len(prog) THEN fi' = fi + 1 /\ phase' = "generate"
                       ELSE fi' = fi /\ phase' = "done"
  /\ args' = <<>> /\ ran' = 0 /\ rejects' = 0 /\ at' = Start
  /\ detail' = "none" /\ seen' = {}
  /\ UNCHANGED <<prog, check_msg, exiting>>

Next == \/ Generate \/ Drop \/ Zero \/ Halve \/ DropsDone \/ IsZero \/ LeafDone
        \/ NextPass \/ Shrunk \/ Report \/ Passed \/ NextFunction

Spec == Init /\ [][Next]_vars
\* One thread checks one function after the other.
FairSpec == Spec /\ WF_vars(Next)

-----------------------------------------------------------------------------
(* Properties *)

\* The counters keep their limits, the cursor of shrink stays on the arguments,
\* and shrunk arguments are arguments the generator could have made.
TypeOK == /\ ran \in 0..Trials /\ rejects \in 0..(MaxRejects + 1)
          /\ at.leaf \in 1..(Argc + 1) /\ at.pass \in 0..MaxPasses
          /\ at.leaf <= Argc /\ phase = "shrink" => at.elem \in 1..(Len(This) + 1)
          /\ phase \in {"shrink", "report", "failed"} => args \in Inputs
          /\ exiting \in BOOLEAN
          /\ {check_msg, detail} \subseteq {"none", "fails", "rejects", "callee"}

Failure(a) == [args |-> a, does |-> "fails", cut |-> FALSE]

\* The counterexample that is reported breaks a contract: whatever was dropped,
\* zeroed, halved and restored on the way, the arguments of the report are ones
\* that the function ran on and failed.
CounterexampleFails == phase \in {"shrink", "report", "failed"} => Failure(args) \in seen

\* The message is that of the counterexample, unless the function does not do the
\* same twice, or something it ran has called exit().
DetailIsItsOwn == phase = "failed" /\ F.pure /\ ~exiting => detail = "fails"

\* No simplification of the counterexample fails too: every one that drops an
\* element, zeroes a number or halves it was tried and did not, as long as shrink
\* did not run out of passes.
Places(a) == {p \in (1..Argc) \X (1..(MaxLen + 1)) : p[2] <= Len(a[p[1]])}
Simpler(a) ==
  LET NonZero == {p \in Places(a) : a[p[1]][p[2]] # 0}
  IN {[a EXCEPT ![p[1]] = Without(a[p[1]], p[2])] :
        p \in {q \in Places(a) : F.leaves[q[1]].array}}
     \union {[a EXCEPT ![p[1]][p[2]] = 0] : p \in NonZero}
     \union {[a EXCEPT ![p[1]][p[2]] = Half(a[p[1]][p[2]])] :
               p \in {q \in NonZero : ~F.leaves[q[1]].bool}}

CounterexampleIsMinimal ==
  phase = "failed" /\ ~at.improved =>
    \A a \in Simpler(args) : (\E s \in seen : s.args = a) /\ Failure(a) \notin seen

\* A function is called ok when enough of its runs were in the domain, or too many
\* were not, and none of them failed that was not cut short.
OkMeansNoFailure ==
  phase = "ok" => /\ ran = Trials \/ rejects > MaxRejects
                  /\ \A s \in seen : s.does = "fails" => s.cut

\* Checking ends: no rescan and no pass goes on for ever, even when the function
\* answers differently each time.
CheckEnds == <>(phase = "done")

\* A crash that a callee's requires clause stops is a crash.
CalleeFailureIsReported == phase = "ok" => \A s \in seen : s.does = "callee" => s.cut
=============================================================================
