---------------------------- MODULE MoveChecker ----------------------------
(***************************************************************************)
(* The ownership checker of src/src/check.c together with the code the     *)
(* generator emits for what the checker accepts (src/src/codegen.c) and    *)
(* its execution.  A behaviour writes a function body one statement at a   *)
(* time; the checker walks it as it is written, one action per case of     *)
(* check_stmt, and either rejects it or, at the closing brace, lets it     *)
(* run.  Conditions are data the checker does not look at, so a run takes  *)
(* either branch and any number of iterations.                             *)
(*                                                                         *)
(* A binding is a local that owns a value: a box (a struct, a move type    *)
(* the generated code drops at the end of its scope) or a handle (a        *)
(* foreign Ptr, which only a `move` argument releases).  Each is declared  *)
(* at most once; it is a `var`, so that it may be assigned.                *)
(***************************************************************************)
EXTENDS Integers, Sequences, FiniteSets, SequencesExt

CONSTANTS Binding,   \* the names a body may declare
          MaxText    \* bound on the number of statements of a body

ASSUME TextAssumption == MaxText \in Nat /\ IsFiniteSet(Binding)

VARIABLES
  kind,        \* Binding -> {"box", "handle"}: the binding's type
  phase,       \* "check", then "rejected", or "run" and "done" or "crashed"
  text,        \* the statements written so far
  locals,      \* the bindings in scope, in the order of their declarations
  moved,       \* the bindings moved on SOME path that reaches this point
  consumed,    \* the bindings moved on EVERY path that reaches this point
  dead,        \* this point follows a statement that always leaves
  diverges,    \* the last statement of the open block always leaves
  frames,      \* the constructs that are open, innermost last
  forgotten,   \* history: moved at an exit of a loop, not in `moved` after it
  misjudged,   \* history: in `consumed`, yet still open on some iteration or exit
  pc,          \* the statement about to run
  slot,        \* Binding -> what its stack slot holds
  alive,       \* the bindings whose last value nobody has released
  lost         \* the bindings that let go of a value without releasing it

checker == <<text, locals, moved, consumed, dead, diverges, frames, forgotten, misjudged>>
run     == <<pc, slot, alive, lost>>
vars    == <<kind, phase, checker, run>>

Plain   == [op : {"use", "take", "set", "let"}, v : Binding]
Marks   == [op : {"if", "else", "match", "case", "loop", "for", "end",
                  "break", "continue", "return"}]
Loops   == {"loop", "for"}
Openers == {"if", "match"} \union Loops
Phases  == {"check", "rejected", "run", "done", "crashed"}

InScope == ToSet(locals)
Since(base) == ToSet(SubSeq(locals, base + 1, Len(locals)))

-----------------------------------------------------------------------------
(* Checking *)

Depth == Len(locals)

\* What a construct remembers: what held where it was entered, and what its
\* branches or its edges have contributed (acc: moved, OR; accC: consumed, AND;
\* anyC: consumed, OR).  out, outC and backC are history: the OR and the AND at
\* the loop's breaks, and the AND at its back-edges.
Frame(op) ==
  [op |-> op, base |-> Depth, dead |-> dead, pre |-> moved, preC |-> consumed,
   acc |-> IF op = "match" THEN moved ELSE {}, accC |-> Binding, anyC |-> {},
   left |-> FALSE, out |-> {}, outC |-> Binding, backC |-> Binding]

Top == Last(frames)

\* The handles among bs that are still open here; the scan skips dead code.
Unclosed(bs, unreachable) ==
  IF unreachable THEN {} ELSE {v \in bs \ consumed : kind[v] = "handle"}

\* How many statements the body needs beyond text once s is written: s and the
\* ends of the constructs then open.
Needs(s) == Len(frames) + (IF s.op \in Openers THEN 2 ELSE IF s.op = "end" THEN 0 ELSE 1)

\* One more statement, after which the checker goes on unless it found an error.
Write(s, error) ==
  /\ phase = "check"
  /\ Len(text) + Needs(s) <= MaxText
  /\ text' = Append(text, s)
  /\ phase' = IF error THEN "rejected" ELSE "check"
  /\ UNCHANGED <<kind, run>>

Let(v) ==
  /\ \A i \in DOMAIN text : text[i].op = "let" => text[i].v # v
  /\ Write([op |-> "let", v |-> v], FALSE)
  /\ locals' = Append(locals, v)
  /\ moved' = moved \ {v}
  /\ consumed' = consumed \ {v}
  /\ diverges' = FALSE
  /\ UNCHANGED <<dead, frames, forgotten, misjudged>>

\* A read, as an operand or a borrowed argument.
Use(v) ==
  /\ v \in InScope
  /\ Write([op |-> "use", v |-> v], v \in moved)
  /\ diverges' = FALSE
  /\ UNCHANGED <<locals, moved, consumed, dead, frames, forgotten, misjudged>>

\* A read in an owning position: a `move` argument, an initialiser, a return.
Take(v) ==
  /\ v \in InScope
  /\ Write([op |-> "take", v |-> v], v \in moved)
  /\ moved' = moved \union {v}
  /\ consumed' = consumed \union {v}
  /\ diverges' = FALSE
  /\ UNCHANGED <<locals, dead, frames, forgotten, misjudged>>

\* An assignment of a fresh value.
Set(v) ==
  /\ v \in InScope
  /\ Write([op |-> "set", v |-> v], kind[v] = "handle" /\ v \notin consumed)
  /\ moved' = moved \ {v}
  /\ consumed' = IF kind[v] = "handle" THEN consumed \ {v} ELSE consumed
  /\ diverges' = FALSE
  /\ UNCHANGED <<locals, dead, frames, forgotten, misjudged>>

Open(op) ==
  /\ Write([op |-> op], FALSE)
  /\ frames' = Append(frames, Frame(op))
  /\ diverges' = FALSE
  /\ UNCHANGED <<locals, moved, consumed, dead, forgotten, misjudged>>

\* The locals, the reachability and the open constructs after a construct ends.
Leave(f, div) ==
  /\ locals' = SubSeq(locals, 1, f.base)
  /\ dead' = (f.dead \/ div)
  /\ diverges' = div
  /\ frames' = Front(frames)

Else ==
  /\ frames # <<>> /\ Top.op = "if"
  /\ Write([op |-> "else"], Unclosed(Since(Top.base), dead) # {})
  /\ locals' = SubSeq(locals, 1, Top.base)
  /\ frames' = [frames EXCEPT ![Len(frames)] =
                  [@ EXCEPT !.op = "else", !.acc = moved, !.accC = consumed, !.left = diverges]]
  /\ moved' = Top.pre
  /\ consumed' = Top.preC
  /\ dead' = Top.dead
  /\ diverges' = FALSE
  /\ UNCHANGED <<forgotten, misjudged>>

\* The two branches of an `if` that ends here; without an else the second one
\* is empty.
Branches(f) ==
  LET here == [m |-> moved, c |-> consumed, left |-> diverges]
  IN IF f.op = "if" THEN <<here, [m |-> f.pre, c |-> f.preC, left |-> FALSE]>>
                    ELSE <<[m |-> f.acc, c |-> f.accC, left |-> f.left], here>>

MergeMovedAsAnd(one, two) == one \intersect two     \* mutant
MergeMoved(one, two)    == one \union two
MergeConsumed(one, two) == one \intersect two

\* The join takes the branches that reach it: the union of their moves and the
\* intersection of what they consumed; a handle closed on one of two is an error.
Join(one, two, f) ==
  CASE one.left /\ two.left   -> [m |-> f.pre, c |-> f.preC, wedged |-> {}]
    [] ~one.left /\ two.left  -> [m |-> one.m, c |-> one.c, wedged |-> {}]
    [] one.left /\ ~two.left  -> [m |-> two.m, c |-> two.c, wedged |-> {}]
    [] ~one.left /\ ~two.left -> [m |-> MergeMoved(one.m, two.m),
                                  c |-> MergeConsumed(one.c, two.c),
                                  wedged |-> (one.c \ two.c) \union (two.c \ one.c)]

Handles(bs) == {v \in bs : kind[v] = "handle"}
Outer(f)    == ToSet(SubSeq(locals, 1, f.base))

EndIf ==
  LET f == Top  br == Branches(f)  j == Join(br[1], br[2], f) IN
  /\ frames # <<>> /\ f.op \in {"if", "else"}
  /\ Write([op |-> "end"], \/ Unclosed(Since(f.base), dead) # {}
                           \/ Handles(Outer(f) \intersect j.wedged) # {})
  /\ moved' = j.m
  /\ consumed' = j.c
  /\ Leave(f, br[1].left /\ br[2].left)
  /\ UNCHANGED <<forgotten, misjudged>>

\* An arm of a match contributes to the join only if it reaches it.
WithArm(f) ==
  IF diverges THEN f
  ELSE [f EXCEPT !.acc = @ \union moved, !.accC = @ \intersect consumed,
                 !.anyC = @ \union consumed]

Case ==
  /\ frames # <<>> /\ Top.op = "match"
  /\ Write([op |-> "case"], Unclosed(Since(Top.base), Top.dead) # {})
  /\ locals' = SubSeq(locals, 1, Top.base)
  /\ frames' = [frames EXCEPT ![Len(frames)] = WithArm(Top)]
  /\ moved' = Top.pre
  /\ consumed' = Top.preC
  /\ dead' = Top.dead
  /\ diverges' = FALSE
  /\ UNCHANGED <<forgotten, misjudged>>

EndMatch ==
  LET f == WithArm(Top) IN
  /\ frames # <<>> /\ Top.op = "match"
  /\ Write([op |-> "end"], \/ Unclosed(Since(f.base), f.dead) # {}
                           \/ Handles(Outer(f) \intersect (f.anyC \ f.accC)) # {})
  /\ moved' = f.acc
  /\ consumed' = f.accC
  /\ Leave(f, FALSE)
  /\ UNCHANGED <<forgotten, misjudged>>

-----------------------------------------------------------------------------
(* Checking: loops *)

Innermost == CHOOSE i \in DOMAIN frames :
               /\ frames[i].op \in Loops
               /\ \A j \in DOMAIN frames : frames[j].op \in Loops => j <= i
InLoop == \E i \in DOMAIN frames : frames[i].op \in Loops

\* A break feeds the exit state of a `loop`; a `for` has its own exit, so there
\* it feeds nothing.
AtBreak(f) ==
  IF f.op = "for" THEN f ELSE [f EXCEPT !.accC = @ \intersect consumed, !.left = TRUE]

\* A continue, like the reachable end of a body, leads to the next iteration.
AtBackEdge(f) == [f EXCEPT !.acc = @ \union moved]

Jumps(s, f) ==
  /\ InLoop
  /\ Write(s, Unclosed(Since(f.base), dead) # {})
  /\ frames' = [frames EXCEPT ![Innermost] = f]
  /\ dead' = TRUE
  /\ diverges' = TRUE
  /\ UNCHANGED <<locals, moved, consumed, forgotten, misjudged>>

Seen(f) == [f EXCEPT !.out = @ \union moved, !.outC = @ \intersect consumed]
Back(f) == [f EXCEPT !.backC = @ \intersect consumed]

Break    == InLoop /\ Jumps([op |-> "break"], Seen(AtBreak(frames[Innermost])))
Continue == InLoop /\ Jumps([op |-> "continue"], Back(AtBackEdge(frames[Innermost])))

\* The construct at its end, the fall-through of its body counted as a back-edge
\* if it is reachable.
AtEnd(f) == IF diverges THEN f ELSE Back(AtBackEdge(f))

\* What is moved, and what is consumed, after the loop: `moved` stays as the end
\* of the body left it; an infinite loop that has a break takes `consumed` from
\* its breaks.
After(f) ==
  [m |-> moved, c |-> IF f.op = "loop" /\ f.left THEN f.accC ELSE consumed]

\* History: what really holds at the exits.  A `for` also leaves from its top,
\* reached from before the loop and from every back-edge.
Exits(f) ==
  IF f.op = "loop" THEN [m |-> f.out, c |-> f.outC]
  ELSE [m |-> f.out \union f.pre \union f.acc,
        c |-> f.outC \intersect f.preC \intersect f.backC]

EndLoop ==
  LET f == AtEnd(Top) IN
  /\ frames # <<>> /\ Top.op \in Loops
  /\ Write([op |-> "end"],
           \/ Unclosed(Since(f.base), IF f.op = "for" THEN f.dead ELSE dead) # {}
           \/ Outer(f) \intersect (f.acc \ f.pre) # {})
  /\ moved' = After(f).m
  /\ consumed' = After(f).c
  /\ Leave(f, FALSE)
  /\ forgotten' = forgotten \union (Outer(f) \intersect (Exits(f).m \ After(f).m))
  /\ misjudged' = misjudged \union (Outer(f) \intersect ((After(f).c \ Exits(f).c)
                                                      \union (f.preC \ f.backC)))

Return ==
  /\ Write([op |-> "return"], Unclosed(InScope, dead) # {})
  /\ dead' = TRUE
  /\ diverges' = TRUE
  /\ UNCHANGED <<locals, moved, consumed, frames, forgotten, misjudged>>

\* The closing brace of the function.
Finish ==
  /\ phase = "check"
  /\ frames = <<>>
  /\ phase' = IF Unclosed(InScope, dead) # {} THEN "rejected" ELSE "run"
  /\ UNCHANGED <<kind, checker, run>>

-----------------------------------------------------------------------------
(* Running what was accepted *)

Opens(i, j) == Cardinality({k \in i .. j : text[k].op \in Openers})
Ends(i, j)  == Cardinality({k \in i .. j : text[k].op = "end"})

\* The end of the construct opened at i, and the construct position i is in.
Close(i)  == CHOOSE j \in i .. Len(text) :
               /\ Opens(i, j) = Ends(i, j)
               /\ \A k \in i .. j - 1 : Opens(i, k) > Ends(i, k)
Inside(ops, i) == {j \in 1 .. i - 1 : text[j].op \in ops /\ Close(j) >= i}
Around(ops, i) == CHOOSE j \in Inside(ops, i) : \A k \in Inside(ops, i) : k <= j

\* The branches of the construct opened at i: where each of them starts.
Arms(i) == {i} \union {j \in i .. Close(i) : /\ text[j].op \in {"else", "case"}
                                             /\ Around({"if", "match"}, j) = i
                                             /\ Around(Openers, j) = i}

DeclaredAfter(i) ==
  {v \in Binding : slot[v] # "none" /\ \E k \in DOMAIN text : /\ k > i
                                                             /\ text[k].op = "let"
                                                             /\ text[k].v = v}

\* emit_drops_and_pops: each binding of bs leaves its slot; a box is dropped
\* there, a handle has no destructor.
DroppedUnlessMoved(bs) == {v \in bs : kind[v] = "box" /\ v \notin moved}     \* mutant
Dropped(bs) == {v \in bs : kind[v] = "box"}
Unwind(bs) ==
  /\ slot' = [v \in Binding |-> IF v \in bs THEN "none" ELSE slot[v]]
  /\ alive' = alive \ {v \in Dropped(bs) : slot[v] = "live"}
  /\ lost' = lost \union {v \in bs \ Dropped(bs) : slot[v] = "live"}

Runs(op) == phase = "run" /\ pc <= Len(text) /\ text[pc].op = op
Goto(i)  == pc' = i /\ UNCHANGED <<kind, phase, checker>>
Stay     == UNCHANGED <<slot, alive, lost>>

RunLet ==
  /\ Runs("let")
  /\ slot' = [slot EXCEPT ![text[pc].v] = "live"]
  /\ alive' = alive \union {text[pc].v}
  /\ Goto(pc + 1) /\ UNCHANGED lost

\* Reading a slot that was cleared is undefined: here the run ends.
Crash ==
  /\ Runs("use") \/ Runs("take")
  /\ slot[text[pc].v] # "live"
  /\ phase' = "crashed"
  /\ UNCHANGED <<kind, checker, run>>

RunUse == Runs("use") /\ slot[text[pc].v] = "live" /\ Goto(pc + 1) /\ Stay

\* The slot is cleared after the read; the new owner releases the value.
ClearedNever(v) == slot     \* mutant
Cleared(v) == [slot EXCEPT ![v] = "nil"]
RunTake ==
  /\ Runs("take") /\ slot[text[pc].v] = "live"
  /\ slot' = Cleared(text[pc].v)
  /\ alive' = alive \ {text[pc].v}
  /\ Goto(pc + 1) /\ UNCHANGED lost

\* The old value of a box is dropped before the slot is overwritten.
RunSet ==
  LET v == text[pc].v IN
  /\ Runs("set")
  /\ slot' = [slot EXCEPT ![v] = "live"]
  /\ alive' = alive \union {v}
  /\ lost' = IF slot[v] = "live" /\ v \notin Dropped({v}) THEN lost \union {v} ELSE lost
  /\ Goto(pc + 1)

\* Either branch, any arm; an `if` without an else may skip its body.
RunBranch ==
  /\ Runs("if") \/ Runs("match")
  /\ \/ \E i \in Arms(pc) : Goto(i + 1)
     \/ text[pc].op = "if" /\ Cardinality(Arms(pc)) = 1 /\ Goto(Close(pc) + 1)
  /\ Stay

\* The end of a branch that another branch follows.
RunArmEnd ==
  /\ Runs("else") \/ Runs("case")
  /\ Unwind(DeclaredAfter(Around(Openers, pc)))
  /\ Goto(Close(Around(Openers, pc)) + 1)

RunLoop == Runs("loop") /\ Goto(pc + 1) /\ Stay
RunFor  == Runs("for") /\ (Goto(pc + 1) \/ Goto(Close(pc) + 1)) /\ Stay

RunEnd ==
  LET at == Around(Openers, pc) IN
  /\ Runs("end")
  /\ Unwind(DeclaredAfter(at))
  /\ Goto(IF text[at].op \in Loops THEN at ELSE pc + 1)

RunBreak ==
  /\ Runs("break")
  /\ Unwind(DeclaredAfter(Around(Loops, pc)))
  /\ Goto(Close(Around(Loops, pc)) + 1)

RunContinue ==
  /\ Runs("continue")
  /\ Unwind(DeclaredAfter(Around(Loops, pc)))
  /\ Goto(Around(Loops, pc))

\* A return, or the end of the body.
RunReturn ==
  /\ phase = "run"
  /\ pc \in DOMAIN text => text[pc].op = "return"
  /\ Unwind(DeclaredAfter(0))
  /\ phase' = "done"
  /\ UNCHANGED <<kind, checker, pc>>

-----------------------------------------------------------------------------
Init ==
  /\ kind \in [Binding -> {"box", "handle"}]
  /\ phase = "check" /\ text = <<>> /\ locals = <<>>
  /\ moved = {} /\ consumed = {} /\ dead = FALSE /\ diverges = FALSE /\ frames = <<>>
  /\ forgotten = {} /\ misjudged = {}
  /\ pc = 1 /\ slot = [v \in Binding |-> "none"] /\ alive = {} /\ lost = {}

Check ==
  \/ \E v \in Binding : Let(v) \/ Use(v) \/ Take(v) \/ Set(v)
  \/ \E op \in Openers : Open(op)
  \/ Else \/ EndIf \/ Case \/ EndMatch
  \/ Break \/ Continue \/ EndLoop \/ Return \/ Finish

Run ==
  \/ RunLet \/ RunUse \/ RunTake \/ RunSet \/ Crash
  \/ RunBranch \/ RunArmEnd \/ RunLoop \/ RunFor \/ RunEnd
  \/ RunBreak \/ RunContinue \/ RunReturn

Next == Check \/ Run

Spec == Init /\ [][Next]_vars

-----------------------------------------------------------------------------
(* Properties *)

\* Every variable keeps its type (check.c:244, Local).
TypeOK ==
  /\ kind \in [Binding -> {"box", "handle"}]
  /\ phase \in Phases
  /\ text \in Seq(Plain \union Marks)
  /\ locals \in Seq(Binding)
  /\ {moved, consumed, forgotten, misjudged, alive, lost} \subseteq SUBSET Binding
  /\ dead \in BOOLEAN /\ diverges \in BOOLEAN
  /\ \A i \in DOMAIN frames : /\ frames[i].op \in Openers \union {"else"}
                               /\ frames[i].base \in 0 .. Len(locals)
  /\ pc \in Nat
  /\ slot \in [Binding -> {"none", "live", "nil"}]

\* In an accepted body no statement reads a value that was moved away, on any
\* path of its branches and loops, except a binding that is moved on one of the
\* ways out of a loop and not in `moved` after it: at a break, which records only
\* `consumed` (check.c:6333), or where a `for` ends without running its body, whose
\* last assignment the checker takes for granted (check.c:7055).
UseLive ==
  phase = "run" /\ (Runs("use") \/ Runs("take")) =>
    slot[text[pc].v] = "live" \/ text[pc].v \in forgotten

\* The same without the exception, of every body: what check.c:5634 ("sound") says.
NeverCrashes == phase # "crashed"

\* The same of a body that assigns nothing: the one way left to forget a move is a
\* break in an arm of an `if` or a `match`, whose join drops the arm's moves because
\* the arm leaves (check.c:6245) while the break records none (check.c:6333).
NeverCrashesUnassigned ==
  phase = "crashed" => \E i \in DOMAIN text : text[i].op = "set"

\* An accepted body releases every value on every path and never overwrites one
\* that is still open, except a handle that is open at a loop's exit or back-edge
\* although the checker counts it as consumed (check.c:6325, and no merge at the
\* end of a `for`).
NothingLeaks ==
  /\ lost \subseteq misjudged
  /\ phase = "done" => alive \subseteq misjudged

\* A value has one owner at any time: the generated code clears the slot it
\* moves from, and drops a slot that it leaves or overwrites, so that nothing is
\* released twice (codegen.c:670, the read that clears; codegen.c:1712,
\* emit_drops_and_pops).
OwnedOnce == \A v \in Binding : slot[v] = "live" => v \in alive
=============================================================================
