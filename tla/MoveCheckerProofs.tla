------------------------- MODULE MoveCheckerProofs -------------------------
(***************************************************************************)
(* That the ownership checker is sound, for any names, any length of the   *)
(* body and any nesting: the generated code never releases a value twice,  *)
(* and what is accepted never reads a value that is gone and releases      *)
(* every value, up to the two exceptions that the model names.             *)
(*                                                                         *)
(* The checker forgets what it knew at a point once it has passed it, but  *)
(* a run comes back there.  The argument keeps it: an annotation h of the  *)
(* body records the checker's state before every statement.  While a body  *)
(* is checked the annotation grows by one point a statement, and the open  *)
(* constructs agree with it; in an accepted body every jump flows from a   *)
(* point to one that knows no less; so a run stays in agreement with it.   *)
(***************************************************************************)
EXTENDS MoveChecker, TLAPS, FiniteSetTheorems, WellFoundedInduction

-----------------------------------------------------------------------------
(* No value is released twice *)

\* The slots of the bindings, and that a slot holds a value only while the value
\* has not been released.
Slots == slot \in [Binding -> {"none", "live", "nil"}]
Inv   == Slots /\ OwnedOnce

\* Leaving scopes keeps the invariant: a slot that is left holds nothing after.
LEMMA UnwindKeeps ==
  ASSUME Inv, NEW bs, Unwind(bs)
  PROVE  Inv'
<1>1. Slots'
  BY DEF Inv, Slots, Unwind
<1>2. ASSUME NEW v \in Binding, slot'[v] = "live"
      PROVE  v \in alive'
  <2>1. v \notin bs /\ slot[v] = "live"
    BY <1>2 DEF Unwind
  <2>2. v \in alive /\ v \notin Dropped(bs)
    BY <2>1 DEF Inv, OwnedOnce, Dropped
  <2> QED
    BY <2>1, <2>2 DEF Unwind
<1> QED
  BY <1>1, <1>2 DEF Inv, OwnedOnce

\* A slot that receives a value, released by nobody.
LEMMA FillKeeps ==
  ASSUME Inv, NEW v,
         slot' = [slot EXCEPT ![v] = "live"],
         alive' = alive \union {v}
  PROVE  Inv'
BY DEF Inv, Slots, OwnedOnce

\* A slot whose value moves to a new owner.
LEMMA TakeKeeps ==
  ASSUME Inv, NEW v,
         slot' = [slot EXCEPT ![v] = "nil"],
         alive' = alive \ {v}
  PROVE  Inv'
BY DEF Inv, Slots, OwnedOnce

LEMMA StayKeeps ==
  ASSUME Inv, UNCHANGED <<slot, alive>>
  PROVE  Inv'
BY DEF Inv, Slots, OwnedOnce

\* The checker touches no slot.
LEMMA CheckLeavesSlots ==
  ASSUME Check
  PROVE  UNCHANGED <<slot, alive>>
<1>1. ASSUME NEW s, NEW e, Write(s, e)
      PROVE  UNCHANGED <<slot, alive>>
  BY <1>1 DEF Write, run
<1>2. CASE \E v \in Binding : Let(v) \/ Use(v) \/ Take(v) \/ Set(v)
  BY <1>1, <1>2 DEF Let, Use, Take, Set
<1>3. CASE \E op \in Openers : Open(op)
  BY <1>1, <1>3 DEF Open
<1>4. CASE Else \/ EndIf \/ Case \/ EndMatch
  BY <1>1, <1>4 DEF Else, EndIf, Case, EndMatch
<1>5. CASE Break \/ Continue
  BY <1>1, <1>5 DEF Break, Continue, Jumps
<1>6. CASE EndLoop \/ Return
  BY <1>1, <1>6 DEF EndLoop, Return
<1>7. CASE Finish
  BY <1>7 DEF Finish, run
<1> QED
  BY <1>2, <1>3, <1>4, <1>5, <1>6, <1>7 DEF Check

LEMMA RunKeeps ==
  ASSUME Inv, Run
  PROVE  Inv'
<1>1. CASE RunLet
  BY <1>1, FillKeeps DEF RunLet
<1>2. CASE RunUse
  BY <1>2, StayKeeps DEF RunUse, Stay
<1>3. CASE RunTake
  BY <1>3, TakeKeeps DEF RunTake, Cleared
<1>4. CASE RunSet
  BY <1>4, FillKeeps DEF RunSet
<1>5. CASE Crash
  BY <1>5, StayKeeps DEF Crash, run
<1>6. CASE RunBranch
  BY <1>6, StayKeeps DEF RunBranch, Stay
<1>7. CASE RunArmEnd
  BY <1>7, UnwindKeeps DEF RunArmEnd
<1>8. CASE RunLoop \/ RunFor
  BY <1>8, StayKeeps DEF RunLoop, RunFor, Stay
<1>9. CASE RunEnd
  BY <1>9, UnwindKeeps DEF RunEnd
<1>10. CASE RunBreak
  BY <1>10, UnwindKeeps DEF RunBreak
<1>11. CASE RunContinue
  BY <1>11, UnwindKeeps DEF RunContinue
<1>12. CASE RunReturn
  BY <1>12, UnwindKeeps DEF RunReturn
<1> QED
  BY <1>1, <1>2, <1>3, <1>4, <1>5, <1>6, <1>7, <1>8, <1>9, <1>10, <1>11, <1>12 DEF Run

\* No value is released twice: the slot a statement moves from is cleared before
\* any scope that holds it is left (codegen.c:670), whatever the body.
THEOREM SingleOwner == Spec => []OwnedOnce
<1>1. Init => Inv
  BY DEF Init, Inv, Slots, OwnedOnce
<1>2. Inv /\ [Next]_vars => Inv'
  <2>1. ASSUME Inv, Check
        PROVE  Inv'
    BY <2>1, CheckLeavesSlots, StayKeeps
  <2>2. ASSUME Inv, UNCHANGED vars
        PROVE  Inv'
    BY <2>2, StayKeeps DEF vars, run
  <2> QED
    BY <2>1, <2>2, RunKeeps DEF Next
<1>3. Inv => OwnedOnce
  BY DEF Inv
<1> QED
  BY <1>1, <1>2, <1>3, PTL DEF Spec

-----------------------------------------------------------------------------
(***************************************************************************)
(* The annotation h of a body: its text, and a point before each statement *)
(* and one after the last with what the checker knew there: the locals in  *)
(* scope (loc), what was moved (m) and consumed (c), whether it was dead   *)
(* (d) and its block left (dv), and the depth of the nesting (dp).         *)
(***************************************************************************)

\* The statement at p, the length of the body, the construct a statement refers
\* to (its own for an arm or an end, the loop for a jump), and the point before p.
Op(h, p)  == h.text[p].op
Size(h)   == Len(h.text)
At(h, p)  == h.at[p]
Pt(h, p)  == h.pts[p]

\* Position p is inside the construct opened at i: the depth never comes back down.
Within(h, i, p) == i < p /\ \A q \in i + 1 .. p : Pt(h, q).dp > Pt(h, i).dp

\* An edge from point x to point q: what is moved at q covers what is moved at x,
\* up to what the checker forgot, and what is consumed at q is consumed at x, up to
\* what it misjudged.  Dead code has no edges.
Flows(h, x, q) ==
  ~Pt(h, x).d => /\ ~Pt(h, q).d
                 /\ \A v \in Pt(h, q).loc :
                      /\ v \in Pt(h, x).m => v \in Pt(h, q).m \union h.forgotten
                      /\ v \in Pt(h, q).c => v \in Pt(h, x).c \union h.misjudged

\* Leaving the construct at i from p: the locals of i are still there, what was
\* declared since is a `let` inside, and of that no handle is open.
Leaves(h, p, i) ==
  /\ i \in 1 .. p - 1
  /\ Within(h, i, p)
  /\ Pt(h, i).loc \subseteq Pt(h, p).loc
  /\ \A v \in Pt(h, p).loc \ Pt(h, i).loc :
       \E q \in i + 1 .. p - 1 : Op(h, q) = "let" /\ h.text[q].v = v
  /\ Pt(h, p).d \/ \A v \in Pt(h, p).loc \ Pt(h, i).loc : h.kind[v] = "handle" => v \in Pt(h, p).c
  /\ Pt(h, i).d => Pt(h, p).d

\* Two points the checker sees alike.
Same(a, b) == a.loc = b.loc /\ a.m = b.m /\ a.c = b.c /\ a.d = b.d

\* What each statement does to the point, case by case of check_stmt.
LetOK(h, p) ==
  LET v == h.text[p].v  a == Pt(h, p)  b == Pt(h, p + 1) IN
  /\ v \in Binding
  /\ b.loc = a.loc \union {v} /\ b.m = a.m \ {v} /\ b.c = a.c \ {v}
  /\ b.d = a.d /\ b.dp = a.dp
UseOK(h, p) ==
  LET v == h.text[p].v  a == Pt(h, p)  b == Pt(h, p + 1) IN
  /\ v \in a.loc \ a.m /\ Same(a, b) /\ b.dp = a.dp
TakeOK(h, p) ==
  LET v == h.text[p].v  a == Pt(h, p)  b == Pt(h, p + 1) IN
  /\ v \in a.loc \ a.m
  /\ b.loc = a.loc /\ b.m = a.m \union {v} /\ b.c = a.c \union {v}
  /\ b.d = a.d /\ b.dp = a.dp
SetOK(h, p) ==
  LET v == h.text[p].v  a == Pt(h, p)  b == Pt(h, p + 1) IN
  /\ v \in a.loc /\ (h.kind[v] = "handle" => v \in a.c)
  /\ b.loc = a.loc /\ b.m = a.m \ {v}
  /\ b.c = IF h.kind[v] = "handle" THEN a.c \ {v} ELSE a.c
  /\ b.d = a.d /\ b.dp = a.dp

\* An opener adds a level; an arm ends and the next one starts where its construct was entered.
OpenOK(h, p) == Same(Pt(h, p), Pt(h, p + 1)) /\ Pt(h, p + 1).dp = Pt(h, p).dp + 1
ArmOK(h, p, ops) ==
  LET i == At(h, p) IN
  /\ Leaves(h, p, i)
  /\ Op(h, i) = ops
  /\ Pt(h, p).dp = Pt(h, i).dp + 1 /\ Pt(h, p + 1).dp = Pt(h, p).dp
  /\ Same(Pt(h, i), Pt(h, p + 1))

\* An end closes the construct at At(h, p), and everything that leads to the point
\* after it, or back to the top of a loop, flows there: the end itself, the entry of
\* a `for` and of an `if` with no else, the ends of the other arms, the jumps.
EndOK(h, p) ==
  LET i == At(h, p) IN
  /\ Leaves(h, p, i)
  /\ Op(h, i) \in Openers
  /\ Pt(h, p).dp = Pt(h, i).dp + 1 /\ Pt(h, p + 1).dp = Pt(h, i).dp
  /\ Pt(h, p + 1).loc = Pt(h, i).loc
  /\ IF Op(h, i) \in Loops THEN Flows(h, p, i) ELSE Flows(h, p, p + 1)
  /\ Op(h, i) = "for" => Flows(h, i, p + 1)
  /\ Op(h, i) = "if" => \/ Flows(h, i, p + 1)
                        \/ \E e \in 1 .. p - 1 : Op(h, e) = "else" /\ At(h, e) = i
  /\ \A e \in 1 .. p - 1 : At(h, e) = i =>
       /\ Op(h, e) \in {"else", "case", "break"} => Flows(h, e, p + 1)
       /\ Op(h, e) = "continue" => Flows(h, e, i)

\* A jump refers to the innermost loop around it.
JumpOK(h, p) ==
  LET i == At(h, p) IN
  /\ Leaves(h, p, i)
  /\ Op(h, i) \in Loops
  /\ \A j \in i + 1 .. p - 1 : Op(h, j) \in Loops => ~Within(h, j, p)
  /\ Pt(h, p + 1).dp = Pt(h, p).dp

\* No handle in scope is open: what a return, and the closing brace, ask for.
AllClosed(h, p) == Pt(h, p).d \/ \A v \in Pt(h, p).loc : h.kind[v] = "handle" => v \in Pt(h, p).c
ReturnOK(h, p) == AllClosed(h, p) /\ Pt(h, p + 1).dp = Pt(h, p).dp

\* The statement at p is annotated as the checker checks it.
Good(h, p) ==
  /\ Op(h, p) = "let" => LetOK(h, p)
  /\ Op(h, p) = "use" => UseOK(h, p)
  /\ Op(h, p) = "take" => TakeOK(h, p)
  /\ Op(h, p) = "set" => SetOK(h, p)
  /\ Op(h, p) \in Openers => OpenOK(h, p)
  /\ Op(h, p) = "else" => ArmOK(h, p, "if")
  /\ Op(h, p) = "case" => ArmOK(h, p, "match")
  /\ Op(h, p) = "end" => EndOK(h, p)
  /\ Op(h, p) \in {"break", "continue"} => JumpOK(h, p)
  /\ Op(h, p) = "return" => ReturnOK(h, p)

\* A name is declared at most once.
Lets(h) == \A p, q \in 1 .. Size(h) :
  Op(h, p) = "let" /\ Op(h, q) = "let" /\ h.text[p].v = h.text[q].v => p = q

\* What is in scope has been declared.
ScopeOK(h) == \A p \in 1 .. Size(h) + 1 : \A v \in Pt(h, p).loc :
  \E q \in 1 .. p - 1 : Op(h, q) = "let" /\ h.text[q].v = v

\* The points have their types; what always leaves is dead code after.
Typed(h) == \A p \in 1 .. Size(h) + 1 :
  /\ Pt(h, p).loc \subseteq Binding
  /\ Pt(h, p).d \in BOOLEAN /\ Pt(h, p).dv \in BOOLEAN
  /\ Pt(h, p).dv => Pt(h, p).d
  /\ Pt(h, p).dp \in Nat

\* A statement refers to an earlier one, or to none (0).
Refers(h) == \A p \in 1 .. Size(h) : At(h, p) \in 0 .. p - 1

\* A body begins with nothing declared.
Begins(h) == Pt(h, 1).loc = {} /\ Pt(h, 1).m = {} /\ Pt(h, 1).c = {} /\ ~Pt(h, 1).d /\ Pt(h,1).dp = 0

\* A complete annotation of a body.
Annotated(h) ==
  /\ h.text \in Seq(Plain \union Marks)
  /\ Typed(h) /\ Refers(h) /\ Begins(h) /\ Lets(h) /\ ScopeOK(h)
  /\ \A p \in 1 .. Size(h) : Good(h, p)

\* What the construct f, opened at i, remembers of the statements that refer to it.
Edges(h, f, i) ==
  \A p \in 1 .. Size(h) : At(h, p) = i =>
    LET a == Pt(h, p) IN
    /\ f.op = "if" => Op(h, p) # "else"
    /\ f.op = "else" /\ Op(h, p) = "else" => f.acc = a.m /\ f.accC = a.c /\ f.left = a.dv
    /\ f.op = "match" /\ Op(h, p) = "case" => a.dv \/ (a.m \subseteq f.acc /\ f.accC \subseteq a.c)
    /\ f.op \in Loops /\ Op(h, p) = "break" => a.m \subseteq f.out /\ f.outC \subseteq a.c
    /\ f.op \in Loops /\ Op(h, p) = "continue" => a.m \subseteq f.acc /\ f.backC \subseteq a.c

\* The construct f, at level k of the open ones, was opened at i, and the point
\* reached is inside it.
Entered(h, f, i, k) ==
  /\ i \in 1 .. Size(h)
  /\ Op(h, i) = IF f.op = "else" THEN "if" ELSE f.op
  /\ f.op \in Openers \union {"else"}
  /\ f.left \in BOOLEAN
  /\ f.pre = Pt(h, i).m /\ f.preC = Pt(h, i).c /\ f.dead = Pt(h, i).d
  /\ f.op = "else" => \E e \in 1 .. Size(h) : Op(h, e) = "else" /\ At(h, e) = i
  /\ Pt(h, i).dp = k - 1
  /\ Within(h, i, Size(h) + 1)
  /\ Pt(h, i).d => Pt(h, Size(h) + 1).d

\* The locals below a base, and those above it.
Below(ls, b) == ToSet(SubSeq(ls, 1, b))
Above(ls, b) == ToSet(SubSeq(ls, b + 1, Len(ls)))

\* The locals when f was entered are those below its base; the others were declared
\* inside it.
Scoped(h, f, i, ls) ==
  /\ f.base \in 0 .. Len(ls)
  /\ Pt(h, i).loc = Below(ls, f.base)
  /\ \A v \in Above(ls, f.base) :
       \E q \in i + 1 .. Size(h) : Op(h, q) = "let" /\ h.text[q].v = v

\* The open construct f stands for the opener at i.
Carried(h, f, i, k, ls) == Entered(h, f, i, k) /\ Edges(h, f, i) /\ Scoped(h, f, i, ls)

\* The open constructs are nested in the order of their openers.
Nested(h, fs, st) ==
  \A k, l \in 1 .. Len(fs) : k < l => /\ st[k] < st[l] /\ fs[k].base <= fs[l].base
                                      /\ Pt(h, st[k]).d => Pt(h, st[l]).d

\* Every opener is open or has its end.
Accounted(h, st) ==
  \A j \in 1 .. Size(h) : Op(h, j) \in Openers =>
     \/ \E k \in 1 .. Len(st) : st[k] = j
     \/ \E p \in j + 1 .. Size(h) : Op(h, p) = "end" /\ At(h, p) = j

\* The constructs fs that are open, with their openers st.
OpenConstructs(h, fs, st, ls) ==
  /\ st \in Seq(Nat) /\ Len(st) = Len(fs)
  /\ \A k \in 1 .. Len(fs) : Carried(h, fs[k], st[k], k, ls)
  /\ Nested(h, fs, st)
  /\ Accounted(h, st)

\* The point that the checker has reached is what its variables say.
Reached(pt) ==
  /\ pt.loc = InScope /\ pt.m = moved /\ pt.c = consumed
  /\ pt.d = dead /\ pt.dv = diverges /\ pt.dp = Len(frames)

\* h annotates the text written so far and agrees with the checker's state.
Checking(h, st) ==
  /\ h.text = text /\ h.kind = kind /\ h.forgotten = forgotten /\ h.misjudged = misjudged
  /\ Annotated(h)
  /\ Reached(Pt(h, Size(h) + 1))
  /\ OpenConstructs(h, frames, st, locals)

\* Nothing has run.
Untouched == /\ pc = 1 /\ slot = [v \in Binding |-> "none"] /\ alive = {} /\ lost = {}

\* h annotates a body that the checker accepted.
Accepted(h) ==
  /\ h.text = text /\ h.kind = kind /\ h.forgotten = forgotten /\ h.misjudged = misjudged
  /\ Annotated(h) /\ AllClosed(h, Size(h) + 1)
  /\ \A j \in 1 .. Size(h) : Op(h, j) \in Openers =>
       \E p \in j + 1 .. Size(h) : Op(h, p) = "end" /\ At(h, p) = j

\* The running program agrees with the annotation at pc: a slot is in use exactly if
\* its binding is in scope, a cleared one is moved there or forgotten, an open handle
\* that counts as consumed was misjudged, and a value that is neither in its slot
\* nor released was lost.
RunsAs(h) ==
  LET a == Pt(h, pc) IN
  /\ pc \in 1 .. Size(h) + 1
  /\ ~a.d
  /\ \A v \in Binding : /\ slot[v] # "none" <=> v \in a.loc
                        /\ slot[v] = "nil" => v \in a.m \union forgotten
                        /\ slot[v] = "live" /\ kind[v] = "handle" /\ v \in a.c => v \in misjudged
                        /\ v \in alive => slot[v] = "live" \/ v \in lost
  /\ lost \subseteq misjudged
-----------------------------------------------------------------------------
(* The types of the checker's variables *)

\* The type of what an open construct remembers.
Construct ==
  [op : Openers \union {"else"}, base : Nat, dead : BOOLEAN,
   pre : SUBSET Binding, preC : SUBSET Binding,
   acc : SUBSET Binding, accC : SUBSET Binding, anyC : SUBSET Binding,
   left : BOOLEAN, out : SUBSET Binding, outC : SUBSET Binding, backC : SUBSET Binding]

\* The bases of the open constructs rise with them, up to the locals there are.
Bases ==
  /\ \A k \in 1 .. Len(frames) : frames[k].base <= Len(locals)
  /\ \A k, l \in 1 .. Len(frames) : k < l => frames[k].base <= frames[l].base

\* The checker's variables keep their types.
CheckTypes ==
  /\ kind \in [Binding -> {"box", "handle"}]
  /\ phase \in Phases
  /\ text \in Seq(Plain \union Marks)
  /\ locals \in Seq(Binding)
  /\ moved \subseteq Binding /\ consumed \subseteq Binding
  /\ forgotten \subseteq Binding /\ misjudged \subseteq Binding
  /\ dead \in BOOLEAN /\ diverges \in BOOLEAN
  /\ frames \in Seq(Construct)
  /\ Bases

\* What CheckTypes says of the open constructs.
LEMMA FramesTyped ==
  ASSUME CheckTypes
  PROVE  /\ Len(frames) \in Nat /\ Len(locals) \in Nat
         /\ \A k \in 1 .. Len(frames) : /\ frames[k] \in Construct /\ frames[k].base \in Nat
                                        /\ frames[k].base <= Len(locals)
         /\ \A k, l \in 1 .. Len(frames) : k < l => frames[k].base <= frames[l].base
<1>1. frames \in Seq(Construct) /\ locals \in Seq(Binding)
  BY DEF CheckTypes
<1>2. Len(frames) \in Nat /\ Len(locals) \in Nat
  BY <1>1
<1>3. \A k \in 1 .. Len(frames) : frames[k] \in Construct
  BY <1>1
<1>4. \A f \in Construct : f.base \in Nat
  BY DEF Construct
<1> QED
  BY <1>2, <1>3, <1>4 DEF CheckTypes, Bases

\* What CheckTypes says of the innermost one.
LEMMA TopTyped ==
  ASSUME CheckTypes, frames # <<>>
  PROVE  /\ Len(frames) \in 1 .. Len(frames) /\ Len(frames) \in Nat
         /\ Top = frames[Len(frames)] /\ Top \in Construct
         /\ Top.base \in 0 .. Len(locals)
<1>1. Len(frames) \in 1 .. Len(frames) /\ Len(frames) \in Nat
  BY DEF CheckTypes
<1>2. Top = frames[Len(frames)]
  BY DEF Top, Last
<1>3. Top \in Construct
  BY <1>1, <1>2 DEF CheckTypes
<1>4. Top.base \in Nat /\ Top.base <= Len(locals)
  BY <1>1, <1>2, <1>3 DEF Construct, CheckTypes, Bases
<1> QED
  BY <1>1, <1>2, <1>3, <1>4

\* A prefix of a sequence.
LEMMA Cut ==
  ASSUME NEW S, NEW ls \in Seq(S), NEW b \in 0 .. Len(ls)
  PROVE  /\ SubSeq(ls, 1, b) \in Seq(S) /\ Len(SubSeq(ls, 1, b)) = b
         /\ \A k \in 1 .. b : SubSeq(ls, 1, b)[k] = ls[k]
OBVIOUS

\* Taking the last construct off.
LEMMA Popped ==
  ASSUME NEW S, NEW fs \in Seq(S), fs # <<>>
  PROVE  /\ Front(fs) \in Seq(S) /\ Len(Front(fs)) = Len(fs) - 1
         /\ \A k \in 1 .. Len(fs) - 1 : Front(fs)[k] = fs[k]
<1>1. Len(fs) \in Nat /\ Len(fs) # 0
  OBVIOUS
<1>2. Len(fs) - 1 \in 0 .. Len(fs)
  BY <1>1
<1> QED
  BY <1>2, Cut DEF Front

\* The least number of a set.
LEMMA LeastOf ==
  ASSUME NEW S, NEW n \in Nat, n \in S
  PROVE  \E m \in Nat : m \in S /\ \A k \in Nat : k < m => k \notin S
<1>1. PICK T : T = S \cap Nat
  OBVIOUS
<1>2. PICK m \in T : \A k \in T : ~(<<k, m>> \in OpToRel(<, Nat))
  BY <1>1, WFMin, NatLessThanWellFounded
<1>3. \A k \in T : ~(k < m)
  BY <1>1, <1>2 DEF OpToRel
<1> QED
  BY <1>1, <1>3

\* The greatest number of a set that a number bounds.
LEMMA GreatestOf ==
  ASSUME NEW n \in Nat, NEW S \in SUBSET (1 .. n), S # {}
  PROVE  \E m \in S : \A k \in S : k <= m
<1>1. PICK D : D = {d \in Nat : n - d \in S}
  OBVIOUS
<1>2. PICK k \in S : TRUE
  OBVIOUS
<1>3. n - k \in Nat /\ n - k \in D
  BY <1>1
<1>4. PICK d \in Nat : d \in D /\ \A j \in Nat : j < d => j \notin D
  BY <1>3, LeastOf
<1>5. ASSUME NEW j \in S PROVE j <= n - d
  <2>1. j \in 1 .. n
    OBVIOUS
  <2>2. n - j \in Nat /\ n - (n - j) = j
    BY <2>1
  <2>3. n - j \in D
    BY <1>1, <2>2
  <2> QED
    BY <1>4, <2>1, <2>2, <2>3
<1> QED
  BY <1>1, <1>4, <1>5

\* Inside a loop the innermost one exists.
LEMMA InnermostTyped ==
  ASSUME frames \in Seq(Construct), InLoop
  PROVE  /\ Innermost \in 1 .. Len(frames) /\ frames[Innermost].op \in Loops
         /\ \A j \in 1 .. Len(frames) : frames[j].op \in Loops => j <= Innermost
<1>1. DOMAIN frames = 1 .. Len(frames) /\ Len(frames) \in Nat
  OBVIOUS
<1>2. PICK L : L = {i \in 1 .. Len(frames) : frames[i].op \in Loops}
  OBVIOUS
<1>3. L # {}
  BY <1>1, <1>2 DEF InLoop
<1>4. PICK m \in L : \A k \in L : k <= m
  BY <1>1, <1>2, <1>3, GreatestOf
<1>5. \E i \in DOMAIN frames :
               /\ frames[i].op \in Loops
               /\ \A j \in DOMAIN frames : frames[j].op \in Loops => j <= i
  BY <1>1, <1>2, <1>4
<1> QED
  BY <1>1, <1>5 DEF Innermost

\* Writing a statement keeps the types of what it writes.
LEMMA WriteTyped ==
  ASSUME CheckTypes, NEW s \in Plain \union Marks, NEW e, Write(s, e)
  PROVE  /\ kind' \in [Binding -> {"box", "handle"}] /\ phase' \in Phases
         /\ text' \in Seq(Plain \union Marks)
BY DEF CheckTypes, Write, Phases

\* The bases stay in order when the locals grow or the innermost one goes.
LEMMA PlainTyped ==
  ASSUME CheckTypes, NEW s \in Plain \union Marks, NEW e, Write(s, e),
         locals' = locals \/ \E v \in Binding : locals' = Append(locals, v),
         moved' \subseteq Binding, consumed' \subseteq Binding,
         forgotten' \subseteq Binding, misjudged' \subseteq Binding,
         dead' \in BOOLEAN, diverges' \in BOOLEAN, frames' = frames
  PROVE  CheckTypes'
<1>1. locals' \in Seq(Binding) /\ Len(locals') >= Len(locals) /\ Len(locals) \in Nat /\ Len(locals') \in Nat
  <2>1. locals \in Seq(Binding)
    BY DEF CheckTypes
  <2>2. CASE locals' = locals
    BY <2>1, <2>2
  <2>3. CASE \E v \in Binding : locals' = Append(locals, v)
    BY <2>1, <2>3
  <2> QED
    BY <2>2, <2>3
<1>2. \A k \in 1 .. Len(frames) : frames[k].base \in Nat
  BY FramesTyped
<1>3. \A k \in 1 .. Len(frames) : frames[k].base <= Len(locals')
  BY <1>1, <1>2 DEF CheckTypes, Bases
<1>4. Bases'
  BY <1>3 DEF CheckTypes, Bases
<1> QED
  BY <1>1, <1>4, WriteTyped DEF CheckTypes

\* A construct changes what it remembers, and keeps its base.
LEMMA UpdateTyped ==
  ASSUME CheckTypes, NEW s \in Plain \union Marks, NEW e, Write(s, e),
         NEW i \in 1 .. Len(frames), NEW f \in Construct, f.base = frames[i].base,
         frames' = [frames EXCEPT ![i] = f],
         \/ locals' = locals
         \/ i = Len(frames) /\ locals' = SubSeq(locals, 1, f.base),
         moved' \subseteq Binding, consumed' \subseteq Binding,
         forgotten' \subseteq Binding, misjudged' \subseteq Binding,
         dead' \in BOOLEAN, diverges' \in BOOLEAN
  PROVE  CheckTypes'
<1>1. frames' \in Seq(Construct) /\ Len(frames') = Len(frames)
  BY DEF CheckTypes
<1>2. \A k \in 1 .. Len(frames) : frames[k].base \in Nat /\ frames'[k].base = frames[k].base
  <2>1. \A k \in 1 .. Len(frames) : frames'[k] = IF k = i THEN f ELSE frames[k]
    BY DEF CheckTypes
  <2> QED
    BY <2>1, FramesTyped
<1>3. f.base \in 0 .. Len(locals) /\ Len(locals) \in Nat
  BY <1>2, FramesTyped
<1>4. locals' \in Seq(Binding)
  <2>1. locals \in Seq(Binding)
    BY DEF CheckTypes
  <2>2. SubSeq(locals, 1, f.base) \in Seq(Binding)
    BY <1>3, <2>1, Cut
  <2> QED
    BY <2>1, <2>2
<1>5. \A k \in 1 .. Len(frames) : frames[k].base <= Len(locals')
  <2>1. CASE locals' = locals
    BY <2>1 DEF CheckTypes, Bases
  <2>2. CASE i = Len(frames) /\ locals' = SubSeq(locals, 1, f.base)
    <3>1. Len(locals') = f.base
      BY <1>3, <2>2, Cut DEF CheckTypes
    <3>2. ASSUME NEW k \in 1 .. Len(frames) PROVE frames[k].base <= f.base
      <4>1. CASE k = i
        BY <4>1, <1>2
      <4>2. CASE k # i
        <5>1. k < i
          BY <4>2, <2>2 DEF CheckTypes
        <5> QED
          BY <5>1 DEF CheckTypes, Bases
      <4> QED
        BY <4>1, <4>2
    <3> QED
      BY <3>1, <3>2
  <2> QED
    BY <2>1, <2>2
<1>6. Bases'
  BY <1>1, <1>2, <1>5 DEF CheckTypes, Bases
<1> QED
  BY <1>1, <1>4, <1>6, WriteTyped DEF CheckTypes

\* The end of a construct takes it off.
LEMMA LeaveTyped ==
  ASSUME CheckTypes, frames # <<>>, NEW s \in Plain \union Marks, NEW e, Write(s, e),
         NEW f \in Construct, f.base = Top.base, NEW div \in BOOLEAN, Leave(f, div),
         moved' \subseteq Binding, consumed' \subseteq Binding,
         forgotten' \subseteq Binding, misjudged' \subseteq Binding
  PROVE  CheckTypes'
<1>1. /\ frames' \in Seq(Construct) /\ Len(frames') = Len(frames) - 1
      /\ \A k \in 1 .. Len(frames) - 1 : frames'[k] = frames[k]
  BY Popped DEF CheckTypes, Leave
<1>2. f.base \in 0 .. Len(locals) /\ Len(locals) \in Nat /\ Len(frames) \in Nat
  BY TopTyped DEF CheckTypes
<1>3. locals' \in Seq(Binding) /\ Len(locals') = f.base
  BY <1>2, Cut DEF CheckTypes, Leave
<1>4. dead' \in BOOLEAN /\ diverges' \in BOOLEAN
  BY DEF Leave, Construct
<1>5. ASSUME NEW k \in 1 .. Len(frames') PROVE frames'[k].base <= Len(locals')
  <2>1. k \in 1 .. Len(frames) /\ Len(frames) \in 1 .. Len(frames) /\ k < Len(frames)
    BY <1>1, <1>2
  <2>2. frames[k].base <= frames[Len(frames)].base
    BY <2>1 DEF CheckTypes, Bases
  <2> QED
    BY <1>1, <1>3, <2>1, <2>2, TopTyped
<1>6. ASSUME NEW k \in 1 .. Len(frames'), NEW l \in 1 .. Len(frames'), k < l
      PROVE  frames'[k].base <= frames'[l].base
  <2>1. k \in 1 .. Len(frames) /\ l \in 1 .. Len(frames)
    BY <1>1, <1>2
  <2> QED
    BY <1>1, <1>6, <2>1 DEF CheckTypes, Bases
<1> QED
  BY <1>1, <1>3, <1>4, <1>5, <1>6, WriteTyped DEF CheckTypes, Bases

\* An opener puts one on.
LEMMA OpenTyped ==
  ASSUME CheckTypes, NEW op \in Openers, Open(op)
  PROVE  CheckTypes'
<1>1. [op |-> op] \in Plain \union Marks /\ Write([op |-> op], FALSE)
  BY DEF Open, Marks, Openers, Loops
<1>2. Frame(op) \in Construct /\ Frame(op).base = Len(locals) /\ Len(locals) \in Nat
  BY DEF Frame, Construct, Depth, CheckTypes
<1>3. frames' \in Seq(Construct) /\ Len(frames') = Len(frames) + 1 /\ Len(frames) \in Nat
  BY <1>2 DEF Open, CheckTypes
<1>4. frames'[Len(frames) + 1].base = Len(locals) /\ \A k \in 1 .. Len(frames) : frames'[k] = frames[k]
  BY <1>2 DEF Open, CheckTypes
<1>5. \A k \in 1 .. Len(frames') : k \in 1 .. Len(frames) \/ k = Len(frames) + 1
  BY <1>3
<1>6. \A k \in 1 .. Len(frames') : frames'[k].base <= Len(locals)
  BY <1>2, <1>4, <1>5, FramesTyped
<1>7. ASSUME NEW k \in 1 .. Len(frames'), NEW l \in 1 .. Len(frames'), k < l
      PROVE  frames'[k].base <= frames'[l].base
  <2>1. CASE l \in 1 .. Len(frames)
    <3>1. k \in 1 .. Len(frames)
      BY <1>3, <1>7, <2>1
    <3> QED
      BY <1>4, <1>7, <2>1, <3>1 DEF CheckTypes, Bases
  <2>2. CASE l = Len(frames) + 1
    BY <1>4, <1>6, <2>2
  <2> QED
    BY <1>5, <2>1, <2>2
<1>8. Bases'
  BY <1>6, <1>7 DEF Open, Bases
<1> QED
  BY <1>1, <1>3, <1>8, WriteTyped DEF Open, CheckTypes

\* A statement without a binding is a statement.
LEMMA MarkIsText ==
  ASSUME NEW op \in {"if", "else", "match", "case", "loop", "for", "end",
                     "break", "continue", "return"}
  PROVE  [op |-> op] \in Plain \union Marks
BY DEF Marks

\* A statement with one is, too.
LEMMA PlainIsText ==
  ASSUME NEW op \in {"use", "take", "set", "let"}, NEW v \in Binding
  PROVE  [op |-> op, v |-> v] \in Plain \union Marks
BY DEF Plain

\* Every update of what a construct remembers keeps its type and its entry.
LEMMA ArmsTyped ==
  ASSUME NEW f \in Construct, CheckTypes
  PROVE  /\ [f EXCEPT !.op = "else", !.acc = moved, !.accC = consumed, !.left = diverges] \in Construct
         /\ WithArm(f) \in Construct /\ WithArm(f).base = f.base /\ WithArm(f).op = f.op
         /\ WithArm(f).pre = f.pre /\ WithArm(f).preC = f.preC /\ WithArm(f).dead = f.dead
         /\ Seen(AtBreak(f)) \in Construct /\ Seen(AtBreak(f)).base = f.base
         /\ Back(AtBackEdge(f)) \in Construct /\ Back(AtBackEdge(f)).base = f.base
         /\ AtEnd(f) \in Construct /\ AtEnd(f).base = f.base
<1>. /\ moved \subseteq Binding /\ consumed \subseteq Binding /\ diverges \in BOOLEAN
  BY DEF CheckTypes
<1>1. /\ [f EXCEPT !.op = "else", !.acc = moved, !.accC = consumed, !.left = diverges] \in Construct
  BY DEF Construct
<1>2. /\ WithArm(f) \in Construct /\ WithArm(f).base = f.base /\ WithArm(f).op = f.op
      /\ WithArm(f).pre = f.pre /\ WithArm(f).preC = f.preC /\ WithArm(f).dead = f.dead
  BY DEF Construct, WithArm
<1>3. AtBreak(f) \in Construct /\ AtBreak(f).base = f.base
  BY DEF Construct, AtBreak
<1>4. \A g \in Construct : Seen(g) \in Construct /\ Seen(g).base = g.base
  BY DEF Construct, Seen
<1>5. AtBackEdge(f) \in Construct /\ AtBackEdge(f).base = f.base
  BY DEF Construct, AtBackEdge
<1>6. \A g \in Construct : Back(g) \in Construct /\ Back(g).base = g.base
  BY DEF Construct, Back
<1>7. AtEnd(f) \in Construct /\ AtEnd(f).base = f.base
  BY <1>5, <1>6 DEF AtEnd
<1> QED
  BY <1>1, <1>2, <1>3, <1>4, <1>5, <1>6, <1>7

\* The types are kept by every statement.
LEMMA CheckKeepsTypes ==
  ASSUME CheckTypes, Check
  PROVE  CheckTypes'
<1>. /\ moved \subseteq Binding /\ consumed \subseteq Binding /\ diverges \in BOOLEAN /\ dead \in BOOLEAN
     /\ forgotten \subseteq Binding /\ misjudged \subseteq Binding /\ FALSE \in BOOLEAN
  BY DEF CheckTypes
<1>1. ASSUME NEW v \in Binding, Let(v) PROVE CheckTypes'
  <2>1. Write([op |-> "let", v |-> v], FALSE)
    BY <1>1 DEF Let
  <2>2. moved' \subseteq Binding /\ consumed' \subseteq Binding /\ locals' = Append(locals, v)
        /\ forgotten' = forgotten /\ misjudged' = misjudged /\ dead' = dead /\ diverges' = FALSE /\ frames' = frames
    BY <1>1 DEF Let
  <2>. QED
    BY <2>1, <2>2, PlainTyped, PlainIsText
<1>2. ASSUME NEW v \in Binding, Use(v) PROVE CheckTypes'
  <2>1. Write([op |-> "use", v |-> v], v \in moved)
    BY <1>2 DEF Use
  <2>2. moved' = moved /\ consumed' = consumed /\ locals' = locals
        /\ forgotten' = forgotten /\ misjudged' = misjudged /\ dead' = dead /\ diverges' = FALSE /\ frames' = frames
    BY <1>2 DEF Use
  <2>. QED
    BY <2>1, <2>2, PlainTyped, PlainIsText
<1>3. ASSUME NEW v \in Binding, Take(v) PROVE CheckTypes'
  <2>1. Write([op |-> "take", v |-> v], v \in moved)
    BY <1>3 DEF Take
  <2>2. moved' \subseteq Binding /\ consumed' \subseteq Binding /\ locals' = locals
        /\ forgotten' = forgotten /\ misjudged' = misjudged /\ dead' = dead /\ diverges' = FALSE /\ frames' = frames
    BY <1>3 DEF Take
  <2>. QED
    BY <2>1, <2>2, PlainTyped, PlainIsText
<1>4. ASSUME NEW v \in Binding, Set(v) PROVE CheckTypes'
  <2>1. Write([op |-> "set", v |-> v], kind[v] = "handle" /\ v \notin consumed)
    BY <1>4 DEF Set
  <2>2. moved' \subseteq Binding /\ consumed' \subseteq Binding /\ locals' = locals
        /\ forgotten' = forgotten /\ misjudged' = misjudged /\ dead' = dead /\ diverges' = FALSE /\ frames' = frames
    BY <1>4 DEF Set
  <2>. QED
    BY <2>1, <2>2, PlainTyped, PlainIsText
<1>5. CASE \E op \in Openers : Open(op)
  BY <1>5, OpenTyped
<1>6. CASE Else
  <2>1. /\ Write([op |-> "else"], Unclosed(Since(Top.base), dead) # {}) /\ frames # <<>>
        /\ frames' = [frames EXCEPT ![Len(frames)] =
                  [Top EXCEPT !.op = "else", !.acc = moved, !.accC = consumed, !.left = diverges]]
        /\ locals' = SubSeq(locals, 1, Top.base)
        /\ moved' = Top.pre /\ consumed' = Top.preC /\ dead' = Top.dead /\ diverges' = FALSE
        /\ forgotten' = forgotten /\ misjudged' = misjudged
    BY <1>6, TopTyped DEF Else
  <2>2. PICK f : f = [Top EXCEPT !.op = "else", !.acc = moved, !.accC = consumed, !.left = diverges]
    OBVIOUS
  <2>3. f \in Construct /\ f.base = frames[Len(frames)].base /\ Len(frames) \in 1 .. Len(frames) /\ Top.base = f.base
    BY <2>1, <2>2, TopTyped, ArmsTyped DEF Construct
  <2>4. Top.pre \subseteq Binding /\ Top.preC \subseteq Binding /\ Top.dead \in BOOLEAN
    BY <2>1, TopTyped DEF Construct
  <2>. QED
    BY <2>1, <2>2, <2>3, <2>4, MarkIsText, UpdateTyped
<1>7. CASE EndIf
  <2>1. PICK f : f = Top
    OBVIOUS
  <2>2. PICK br : br = Branches(f)
    OBVIOUS
  <2>3. PICK j : j = Join(br[1], br[2], f)
    OBVIOUS
  <2>4. PICK e : Write([op |-> "end"], e)
    BY <1>7 DEF EndIf
  <2>5. frames # <<>> /\ Leave(f, br[1].left /\ br[2].left) /\ moved' = j.m /\ consumed' = j.c
        /\ forgotten' = forgotten /\ misjudged' = misjudged
    BY <1>7, <2>1, <2>2, <2>3 DEF EndIf
  <2>6. f \in Construct
    BY <2>1, <2>5, TopTyped
  <2>7. /\ br[1].left \in BOOLEAN /\ br[2].left \in BOOLEAN
        /\ br[1].m \subseteq Binding /\ br[1].c \subseteq Binding
        /\ br[2].m \subseteq Binding /\ br[2].c \subseteq Binding
    BY <2>2, <2>6 DEF Branches, Construct
  <2>8. f.pre \subseteq Binding /\ f.preC \subseteq Binding
    BY <2>6 DEF Construct
  <2>9. j.m \subseteq Binding /\ j.c \subseteq Binding
    BY <2>3, <2>7, <2>8 DEF Join, MergeMoved, MergeConsumed
  <2>. QED
    BY <2>1, <2>4, <2>5, <2>6, <2>7, <2>9, LeaveTyped, MarkIsText
<1>8. CASE Case
  <2>1. /\ Write([op |-> "case"], Unclosed(Since(Top.base), Top.dead) # {}) /\ frames # <<>>
        /\ frames' = [frames EXCEPT ![Len(frames)] = WithArm(Top)]
        /\ locals' = SubSeq(locals, 1, Top.base)
        /\ moved' = Top.pre /\ consumed' = Top.preC /\ dead' = Top.dead /\ diverges' = FALSE
        /\ forgotten' = forgotten /\ misjudged' = misjudged
    BY <1>8 DEF Case
  <2>2. PICK f : f = WithArm(Top)
    OBVIOUS
  <2>3. f \in Construct /\ f.base = frames[Len(frames)].base /\ Len(frames) \in 1 .. Len(frames) /\ Top.base = f.base
    BY <2>1, <2>2, TopTyped, ArmsTyped
  <2>4. Top.pre \subseteq Binding /\ Top.preC \subseteq Binding /\ Top.dead \in BOOLEAN
    BY <2>1, TopTyped DEF Construct
  <2>. QED
    BY <2>1, <2>2, <2>3, <2>4, MarkIsText, UpdateTyped
<1>9. CASE EndMatch
  <2>1. PICK f : f = WithArm(Top)
    OBVIOUS
  <2>2. PICK e : Write([op |-> "end"], e)
    BY <1>9 DEF EndMatch
  <2>3. frames # <<>> /\ Leave(f, FALSE) /\ moved' = f.acc /\ consumed' = f.accC
        /\ forgotten' = forgotten /\ misjudged' = misjudged
    BY <1>9, <2>1 DEF EndMatch
  <2>4. f \in Construct /\ f.base = Top.base
    BY <2>1, <2>3, TopTyped, ArmsTyped
  <2>5. f.acc \subseteq Binding /\ f.accC \subseteq Binding
    BY <2>4 DEF Construct
  <2>. QED
    BY <2>2, <2>3, <2>4, <2>5, LeaveTyped, MarkIsText
<1>10. ASSUME NEW op \in {"break", "continue"}, NEW f \in Construct, InLoop,
              f.base = frames[Innermost].base, Jumps([op |-> op], f)
       PROVE  CheckTypes'
  <2>1. PICK e : Write([op |-> op], e)
    BY <1>10 DEF Jumps
  <2>2. PICK i : i = Innermost
    OBVIOUS
  <2>3. i \in 1 .. Len(frames) /\ f.base = frames[i].base
    BY <1>10, <2>2, InnermostTyped DEF CheckTypes
  <2>4. /\ frames' = [frames EXCEPT ![i] = f] /\ dead' = TRUE /\ diverges' = TRUE /\ locals' = locals
        /\ moved' = moved /\ consumed' = consumed /\ forgotten' = forgotten /\ misjudged' = misjudged
    BY <1>10, <2>2 DEF Jumps
  <2>. QED
    BY <2>1, <2>3, <2>4, MarkIsText, UpdateTyped
<1>11. InLoop => frames[Innermost] \in Construct
  BY InnermostTyped DEF CheckTypes
<1>12. CASE Break
  BY <1>10, <1>11, <1>12, ArmsTyped DEF Break
<1>13. CASE Continue
  BY <1>10, <1>11, <1>13, ArmsTyped DEF Continue
<1>14. CASE EndLoop
  <2>1. PICK f : f = AtEnd(Top)
    OBVIOUS
  <2>2. PICK e : Write([op |-> "end"], e)
    BY <1>14 DEF EndLoop
  <2>3. frames # <<>> /\ Leave(f, FALSE) /\ moved' = After(f).m /\ consumed' = After(f).c
        /\ forgotten' = forgotten \union (Outer(f) \intersect (Exits(f).m \ After(f).m))
        /\ misjudged' = misjudged \union (Outer(f) \intersect ((After(f).c \ Exits(f).c)
                                                      \union (f.preC \ f.backC)))
    BY <1>14, <2>1 DEF EndLoop
  <2>4. f \in Construct /\ f.base = Top.base
    BY <2>1, <2>3, TopTyped, ArmsTyped
  <2>5. After(f).m \subseteq Binding /\ After(f).c \subseteq Binding
    BY <2>4 DEF After, Construct
  <2>6. Outer(f) \subseteq Binding
    <3>1. PICK ls : ls = SubSeq(locals, 1, f.base)
      OBVIOUS
    <3>2. ls \in Seq(Binding)
      BY <2>3, <2>4, <3>1, TopTyped, Cut DEF CheckTypes
    <3>. QED
      BY <3>1, <3>2 DEF Outer, ToSet
  <2>7. forgotten' \subseteq Binding /\ misjudged' \subseteq Binding
    BY <2>3, <2>6
  <2>. QED
    BY <2>2, <2>3, <2>4, <2>5, <2>7, LeaveTyped, MarkIsText
<1>15. CASE Return
  <2>1. Write([op |-> "return"], Unclosed(InScope, dead) # {})
    BY <1>15 DEF Return
  <2>2. moved' = moved /\ consumed' = consumed /\ locals' = locals
        /\ forgotten' = forgotten /\ misjudged' = misjudged /\ dead' = TRUE /\ diverges' = TRUE /\ frames' = frames
    BY <1>15 DEF Return
  <2>. QED
    BY <2>1, <2>2, PlainTyped, MarkIsText
<1>16. CASE Finish
  BY <1>16 DEF Finish, checker, CheckTypes, Bases, Phases
<1> QED
  BY <1>1, <1>2, <1>3, <1>4, <1>5, <1>6, <1>7, <1>8, <1>9, <1>12, <1>13, <1>14, <1>15, <1>16 DEF Check
-----------------------------------------------------------------------------
(* One more statement *)

\* g is h with one more statement.
Extends(h, g) ==
  /\ Size(h) \in Nat /\ Size(g) = Size(h) + 1
  /\ \A p \in 1 .. Size(h) : g.text[p] = h.text[p] /\ At(g, p) = At(h, p)
  /\ \A p \in 1 .. Size(h) + 1 : Pt(g, p) = Pt(h, p)
  /\ g.kind = h.kind
  /\ h.forgotten \subseteq g.forgotten /\ h.misjudged \subseteq g.misjudged

\* What one more statement keeps: the edges among the points there were,
LEMMA FlowsGrow ==
  ASSUME NEW h, NEW g, Extends(h, g), NEW x \in 1 .. Size(h) + 1,
         NEW q \in 1 .. Size(h) + 1,
         Flows(h, x, q)
  PROVE  Flows(g, x, q)
BY DEF Extends, Flows

\* the nesting of positions,
LEMMA WithinGrow ==
  ASSUME NEW h, NEW g, Extends(h, g), NEW i \in 1 .. Size(h) + 1,
         NEW p \in 1 .. Size(h) + 1
  PROVE  Within(h, i, p) <=> Within(g, i, p)
<1>1. \A q \in i + 1 .. p : q \in 1 .. Size(h) + 1
  BY DEF Extends
<1> QED
  BY <1>1 DEF Extends, Within

\* the exits,
LEMMA LeavesGrow ==
  ASSUME NEW h, NEW g, Extends(h, g), NEW p \in 1 .. Size(h) + 1, NEW i, Leaves(h, p, i)
  PROVE  Leaves(g, p, i)
<1>1. i \in 1 .. Size(h) + 1 /\ i \in 1 .. p - 1
  BY DEF Leaves, Extends
<1>2. Within(g, i, p)
  BY <1>1, WithinGrow DEF Leaves
<1>3. Pt(g, i) = Pt(h, i) /\ Pt(g, p) = Pt(h, p) /\ g.kind = h.kind
  BY <1>1 DEF Extends
<1>4. \A q \in i + 1 .. p - 1 : g.text[q] = h.text[q] /\ Op(g, q) = Op(h, q)
  BY <1>1 DEF Extends, Op
<1> QED
  BY <1>1, <1>2, <1>3, <1>4 DEF Leaves

\* the ends,
LEMMA EndGrow ==
  ASSUME NEW h, NEW g, Extends(h, g), NEW p \in 1 .. Size(h), EndOK(h, p)
  PROVE  EndOK(g, p)
<1>1. PICK i : i = At(h, p)
  OBVIOUS
<1>2. At(g, p) = i
  BY <1>1 DEF Extends
<1>3. p \in 1 .. Size(h) + 1 /\ p + 1 \in 1 .. Size(h) + 1
  BY DEF Extends
<1>4. Leaves(h, p, i) /\ i \in 1 .. Size(h) + 1 /\ i \in 1 .. Size(h)
  BY <1>1, <1>3 DEF EndOK, Leaves, Extends
<1>5. Leaves(g, p, i)
  BY <1>3, <1>4, LeavesGrow
<1>6. Pt(g, i) = Pt(h, i) /\ Pt(g, p) = Pt(h, p) /\ Pt(g, p + 1) = Pt(h, p + 1) /\ Op(g, i) = Op(h, i)
  BY <1>3, <1>4 DEF Extends, Op
<1>7. \A e \in 1 .. p - 1 : e \in 1 .. Size(h) + 1 /\ Op(g, e) = Op(h, e) /\ At(g, e) = At(h, e)
  BY DEF Extends, Op
<1>8. \A x, q \in 1 .. Size(h) + 1 : Flows(h, x, q) => Flows(g, x, q)
  BY FlowsGrow
<1>9. ASSUME NEW e \in 1 .. p - 1, At(g, e) = i
      PROVE  /\ Op(g, e) \in {"else", "case", "break"} => Flows(g, e, p + 1)
             /\ Op(g, e) = "continue" => Flows(g, e, i)
  BY <1>1, <1>3, <1>4, <1>7, <1>8, <1>9 DEF EndOK
<1>10. Op(g, i) = "if" => \/ Flows(g, i, p + 1)
                          \/ \E e \in 1 .. p - 1 : Op(g, e) = "else" /\ At(g, e) = i
  BY <1>1, <1>3, <1>4, <1>6, <1>7, <1>8 DEF EndOK
<1>11. /\ IF Op(g, i) \in Loops THEN Flows(g, p, i) ELSE Flows(g, p, p + 1)
       /\ Op(g, i) = "for" => Flows(g, i, p + 1)
  BY <1>1, <1>3, <1>4, <1>6, <1>8 DEF EndOK
<1>12. /\ Op(g, i) \in Openers
       /\ Pt(g, p).dp = Pt(g, i).dp + 1 /\ Pt(g, p + 1).dp = Pt(g, i).dp
       /\ Pt(g, p + 1).loc = Pt(g, i).loc
  BY <1>1, <1>6 DEF EndOK
<1> QED
  BY <1>2, <1>5, <1>9, <1>10, <1>11, <1>12 DEF EndOK

\* the arms,
LEMMA ArmGrow ==
  ASSUME NEW h, NEW g, Extends(h, g), NEW p \in 1 .. Size(h), NEW op, ArmOK(h, p, op)
  PROVE  ArmOK(g, p, op)
<1>1. PICK i : i = At(h, p) /\ At(g, p) = i
  BY DEF Extends
<1>2. p \in 1 .. Size(h) + 1 /\ p + 1 \in 1 .. Size(h) + 1
  BY DEF Extends
<1>3. Leaves(h, p, i) /\ i \in 1 .. Size(h) + 1 /\ i \in 1 .. Size(h)
  BY <1>1, <1>2 DEF ArmOK, Leaves, Extends
<1>4. Pt(g, i) = Pt(h, i) /\ Pt(g, p) = Pt(h, p) /\ Pt(g, p + 1) = Pt(h, p + 1) /\ Op(g, i) = Op(h, i)
  BY <1>2, <1>3 DEF Extends, Op
<1>5. Leaves(g, p, i)
  BY <1>2, <1>3, LeavesGrow
<1> QED
  BY <1>1, <1>4, <1>5 DEF ArmOK

\* the jumps,
LEMMA JumpGrow ==
  ASSUME NEW h, NEW g, Extends(h, g), NEW p \in 1 .. Size(h), JumpOK(h, p)
  PROVE  JumpOK(g, p)
<1>1. PICK i : i = At(h, p) /\ At(g, p) = i
  BY DEF Extends
<1>2. p \in 1 .. Size(h) + 1 /\ p + 1 \in 1 .. Size(h) + 1
  BY DEF Extends
<1>3. Leaves(h, p, i) /\ i \in 1 .. Size(h) + 1 /\ i \in 1 .. Size(h)
  BY <1>1, <1>2 DEF JumpOK, Leaves, Extends
<1>4. Pt(g, p) = Pt(h, p) /\ Pt(g, p + 1) = Pt(h, p + 1) /\ Op(g, i) = Op(h, i)
  BY <1>2, <1>3 DEF Extends, Op
<1>5. Leaves(g, p, i)
  BY <1>2, <1>3, LeavesGrow
<1>6. ASSUME NEW j \in i + 1 .. p - 1, Op(g, j) \in Loops PROVE ~Within(g, j, p)
  <2>1. j \in 1 .. Size(h) + 1 /\ j \in 1 .. Size(h)
    BY <1>3 DEF Extends
  <2>2. Op(h, j) = Op(g, j)
    BY <2>1 DEF Extends, Op
  <2>3. ~Within(h, j, p)
    BY <1>1, <1>6, <2>2 DEF JumpOK
  <2> QED
    BY <1>2, <2>1, <2>3, WithinGrow
<1> QED
  BY <1>1, <1>4, <1>5, <1>6 DEF JumpOK

\* and so every statement's annotation.
LEMMA GoodGrow ==
  ASSUME NEW h, NEW g, Extends(h, g), NEW p \in 1 .. Size(h), Good(h, p)
  PROVE  Good(g, p)
<1>1. p \in 1 .. Size(h) + 1 /\ p + 1 \in 1 .. Size(h) + 1
  BY DEF Extends
<1>2. /\ Pt(g, p) = Pt(h, p) /\ Pt(g, p + 1) = Pt(h, p + 1) /\ g.text[p] = h.text[p]
      /\ Op(g, p) = Op(h, p) /\ g.kind = h.kind
  BY <1>1 DEF Extends, Op
<1>3. LetOK(h, p) => LetOK(g, p)
  BY <1>2 DEF LetOK
<1>4. UseOK(h, p) => UseOK(g, p)
  BY <1>2 DEF UseOK
<1>5. TakeOK(h, p) => TakeOK(g, p)
  BY <1>2 DEF TakeOK
<1>6. SetOK(h, p) => SetOK(g, p)
  BY <1>2 DEF SetOK
<1>7. OpenOK(h, p) => OpenOK(g, p)
  BY <1>2 DEF OpenOK
<1>8. ReturnOK(h, p) => ReturnOK(g, p)
  BY <1>2 DEF ReturnOK, AllClosed
<1> QED
  BY <1>2, <1>3, <1>4, <1>5, <1>6, <1>7, <1>8, EndGrow, ArmGrow, JumpGrow DEF Good

\* The annotation is complete again if the new statement and point are annotated well.
LEMMA AnnotatedGrow ==
  ASSUME NEW h, NEW g, Extends(h, g), Annotated(h),
         g.text \in Seq(Plain \union Marks),
         Good(g, Size(g)), At(g, Size(g)) \in 0 .. Size(h),
         Pt(g, Size(g) + 1).loc \subseteq Binding,
         Pt(g, Size(g) + 1).d \in BOOLEAN, Pt(g, Size(g) + 1).dv \in BOOLEAN,
         Pt(g, Size(g) + 1).dv => Pt(g, Size(g) + 1).d,
         Pt(g, Size(g) + 1).dp \in Nat,
         \/ Pt(g, Size(g) + 1).loc \subseteq Pt(h, Size(h) + 1).loc
         \/ Pt(g, Size(g) + 1).loc \subseteq Pt(h, Size(h) + 1).loc \union {g.text[Size(g)].v} /\ Op(g, Size(g)) = "let",
         Op(g, Size(g)) = "let" => \A p \in 1 .. Size(h) : Op(h, p) = "let" => h.text[p].v # g.text[Size(g)].v
  PROVE  Annotated(g)
<1>0. PICK n \in Nat : n = Size(h) /\ Size(g) = n + 1
  BY DEF Extends
<1>1. /\ \A p \in 1 .. n : g.text[p] = h.text[p] /\ Op(g, p) = Op(h, p)
      /\ \A p \in 1 .. n + 1 : Pt(g, p) = Pt(h, p)
  BY <1>0 DEF Extends, Op
<1>2. /\ \A p \in 1 .. Size(g) : p \in 1 .. n \/ p = n + 1
      /\ \A p \in 1 .. Size(g) + 1 : p \in 1 .. n + 1 \/ p = n + 2
      /\ 1 \in 1 .. n + 1 /\ Size(g) + 1 = n + 2
  BY <1>0
<1>3. Typed(g)
  BY <1>0, <1>1, <1>2 DEF Typed, Annotated
<1>4. Begins(g)
  BY <1>1, <1>2 DEF Begins, Annotated
<1>5. ASSUME NEW p \in 1 .. Size(g), NEW q \in 1 .. Size(g),
             Op(g, p) = "let", Op(g, q) = "let", g.text[p].v = g.text[q].v
      PROVE  p = q
  <2>1. \A x \in 1 .. n : Op(g, x) = "let" => Op(h, x) = "let" /\ h.text[x].v = g.text[x].v
    BY <1>1
  <2>2. \A x \in 1 .. n : Op(g, n + 1) = "let" /\ Op(g, x) = "let" => g.text[x].v # g.text[n + 1].v
    BY <1>0, <2>1
  <2>3. CASE p \in 1 .. n /\ q \in 1 .. n
    <3>1. Lets(h)
      BY DEF Annotated
    <3> QED
      BY <1>0, <1>5, <2>1, <2>3, <3>1 DEF Lets
  <2>4. CASE p = n + 1 \/ q = n + 1
    BY <1>2, <1>5, <2>2, <2>4
  <2> QED
    BY <1>2, <2>3, <2>4
<1>6. ASSUME NEW p \in 1 .. Size(g) + 1, NEW v \in Pt(g, p).loc
      PROVE  \E q \in 1 .. p - 1 : Op(g, q) = "let" /\ g.text[q].v = v
  <2>1. CASE p \in 1 .. n + 1
    <3>1. \A q \in 1 .. p - 1 : q \in 1 .. n
      BY <1>0, <2>1
    <3>2. PICK q \in 1 .. p - 1 : Op(h, q) = "let" /\ h.text[q].v = v
      <4>1. ScopeOK(h) /\ v \in Pt(h, p).loc /\ p \in 1 .. Size(h) + 1
        BY <1>0, <1>1, <1>6, <2>1 DEF Annotated
      <4> QED
        BY <4>1 DEF ScopeOK
    <3> QED
      BY <1>1, <3>1, <3>2
  <2>2. CASE p = n + 2
    <3>1. CASE v \in Pt(h, n + 1).loc
      <4>1. PICK q \in 1 .. n : Op(h, q) = "let" /\ h.text[q].v = v
        BY <1>0, <3>1 DEF ScopeOK, Annotated
      <4>2. q \in 1 .. p - 1
        BY <2>2, <4>1
      <4> QED
        BY <1>1, <4>1, <4>2
    <3>2. CASE v \notin Pt(h, n + 1).loc
      <4>1. v = g.text[n + 1].v /\ Op(g, n + 1) = "let"
        BY <1>0, <1>2, <1>6, <2>2, <3>2
      <4>2. n + 1 \in 1 .. p - 1
        BY <2>2
      <4> QED
        BY <4>1, <4>2
    <3> QED
      BY <3>1, <3>2
  <2> QED
    BY <1>2, <2>1, <2>2
<1>7. ASSUME NEW p \in 1 .. Size(g) PROVE Good(g, p)
  BY <1>0, <1>2, GoodGrow DEF Annotated
<1>8. Refers(g)
  <2>1. At(g, n + 1) \in 0 .. n
    BY <1>0
  <2>2. \A p \in 1 .. n : At(g, p) = At(h, p)
    BY <1>0 DEF Extends
  <2>3. \A p \in 1 .. n : At(h, p) \in 0 .. p - 1
    BY <1>0 DEF Annotated, Refers
  <2>4. n + 1 - 1 = n
    BY <1>0
  <2> QED
    BY <1>0, <1>2, <2>1, <2>2, <2>3, <2>4 DEF Refers
<1>9. Lets(g)
  BY <1>5 DEF Lets
<1>10. ScopeOK(g)
  BY <1>6 DEF ScopeOK
<1>11. \A p \in 1 .. Size(g) : Good(g, p)
  BY <1>7
<1> QED
  BY <1>3, <1>4, <1>8, <1>9, <1>10, <1>11 DEF Annotated
-----------------------------------------------------------------------------
(* The open constructs *)

\* The locals above a base, as a set of elements.
LEMMA AboveIs ==
  ASSUME NEW S, NEW ls \in Seq(S), NEW b \in 0 .. Len(ls)
  PROVE  Above(ls, b) = {ls[k] : k \in b + 1 .. Len(ls)}
<1>1. PICK t : t = SubSeq(ls, b + 1, Len(ls))
  OBVIOUS
<1>2. /\ Len(ls) \in Nat /\ Len(t) = Len(ls) - b /\ DOMAIN t = 1 .. Len(t)
      /\ \A k \in 1 .. Len(t) : t[k] = ls[b + k]
  BY <1>1
<1>3. ASSUME NEW k \in 1 .. Len(t) PROVE b + k \in b + 1 .. Len(ls)
  BY <1>2
<1>4. ASSUME NEW k \in b + 1 .. Len(ls) PROVE k - b \in 1 .. Len(t) /\ b + (k - b) = k
  BY <1>2
<1>5. ToSet(t) \subseteq {ls[k] : k \in b + 1 .. Len(ls)}
  BY <1>2, <1>3 DEF ToSet
<1>6. ASSUME NEW k \in b + 1 .. Len(ls) PROVE ls[k] \in ToSet(t)
  BY <1>2, <1>4 DEF ToSet
<1> QED
  BY <1>1, <1>5, <1>6 DEF Above

\* The locals below a base.
LEMMA BelowIs ==
  ASSUME NEW S, NEW ls \in Seq(S), NEW b \in 0 .. Len(ls)
  PROVE  Below(ls, b) = {ls[k] : k \in 1 .. b}
<1>1. PICK t : t = SubSeq(ls, 1, b)
  OBVIOUS
<1>2. Len(t) = b /\ DOMAIN t = 1 .. b /\ \A k \in 1 .. b : t[k] = ls[k]
  BY <1>1, Cut
<1> QED
  BY <1>1, <1>2 DEF Below, ToSet

\* All of them.
LEMMA SetIs ==
  ASSUME NEW S, NEW ls \in Seq(S)
  PROVE  ToSet(ls) = {ls[k] : k \in 1 .. Len(ls)}
BY DEF ToSet

\* A declaration adds to the locals above every base.
LEMMA BelowAppend ==
  ASSUME NEW S, NEW ls \in Seq(S), NEW v \in S, NEW b \in 0 .. Len(ls)
  PROVE  /\ Below(Append(ls, v), b) = Below(ls, b)
         /\ Above(Append(ls, v), b) = Above(ls, b) \union {v}
         /\ ToSet(Append(ls, v)) = ToSet(ls) \union {v}
         /\ Append(ls, v) \in Seq(S) /\ Len(Append(ls, v)) = Len(ls) + 1
<1>1. PICK l2 : l2 = Append(ls, v)
  OBVIOUS
<1>2. /\ l2 \in Seq(S) /\ Len(l2) = Len(ls) + 1 /\ l2[Len(ls) + 1] = v /\ Len(ls) \in Nat
      /\ \A k \in 1 .. Len(ls) : l2[k] = ls[k]
  BY <1>1
<1>3. b \in 0 .. Len(l2)
  BY <1>2
<1>4. Below(l2, b) = {l2[k] : k \in 1 .. b} /\ Below(ls, b) = {ls[k] : k \in 1 .. b}
  BY <1>2, <1>3, BelowIs
<1>5. Below(l2, b) = Below(ls, b)
  <2>1. \A k \in 1 .. b : l2[k] = ls[k]
    BY <1>2
  <2> QED
    BY <1>4, <2>1
<1>6. Above(l2, b) = {l2[k] : k \in b + 1 .. Len(l2)} /\ Above(ls, b) = {ls[k] : k \in b + 1 .. Len(ls)}
  BY <1>2, <1>3, AboveIs
<1>7. ToSet(l2) = {l2[k] : k \in 1 .. Len(l2)} /\ ToSet(ls) = {ls[k] : k \in 1 .. Len(ls)}
  BY <1>2, SetIs
<1>8. ASSUME NEW a \in 0 .. Len(ls)
      PROVE  {l2[k] : k \in a + 1 .. Len(l2)} = {ls[k] : k \in a + 1 .. Len(ls)} \union {v}
  <2>1. \A k \in a + 1 .. Len(l2) : k \in a + 1 .. Len(ls) \/ k = Len(ls) + 1
    BY <1>2
  <2>2. /\ \A k \in a + 1 .. Len(ls) : k \in a + 1 .. Len(l2) /\ k \in 1 .. Len(ls)
        /\ Len(ls) + 1 \in a + 1 .. Len(l2)
    BY <1>2
  <2> QED
    BY <1>2, <2>1, <2>2
<1>9. ToSet(l2) = ToSet(ls) \union {v}
  <2>1. 0 \in 0 .. Len(ls) /\ 0 + 1 = 1
    BY <1>2
  <2> QED
    BY <1>7, <1>8, <2>1
<1> QED
  BY <1>1, <1>2, <1>5, <1>6, <1>8, <1>9

\* Leaving a scope takes from them.
LEMMA BelowCut ==
  ASSUME NEW S, NEW ls \in Seq(S), NEW c \in 0 .. Len(ls), NEW b \in 0 .. c
  PROVE  /\ Below(SubSeq(ls, 1, c), b) = Below(ls, b)
         /\ Above(SubSeq(ls, 1, c), b) \subseteq Above(ls, b)
         /\ ToSet(SubSeq(ls, 1, c)) = Below(ls, c)
<1>1. PICK l2 : l2 = SubSeq(ls, 1, c)
  OBVIOUS
<1>2. l2 \in Seq(S) /\ Len(l2) = c /\ \A k \in 1 .. c : l2[k] = ls[k]
  BY <1>1, Cut
<1>3. b \in 0 .. Len(l2) /\ b \in 0 .. Len(ls) /\ Len(ls) \in Nat
  BY <1>2
<1>4. Below(l2, b) = {l2[k] : k \in 1 .. b} /\ Below(ls, b) = {ls[k] : k \in 1 .. b}
  BY <1>2, <1>3, BelowIs
<1>5. Above(l2, b) = {l2[k] : k \in b + 1 .. c} /\ Above(ls, b) = {ls[k] : k \in b + 1 .. Len(ls)}
  BY <1>2, <1>3, AboveIs
<1>6. \A k \in 1 .. b : k \in 1 .. c
  BY <1>2
<1>7. \A k \in b + 1 .. c : k \in 1 .. c /\ k \in b + 1 .. Len(ls)
  BY <1>2, <1>3
<1>8. Below(l2, b) = Below(ls, b)
  BY <1>2, <1>4, <1>6
<1>9. Above(l2, b) \subseteq Above(ls, b)
  BY <1>2, <1>5, <1>7
<1> QED
  BY <1>1, <1>8, <1>9 DEF Below

\* The locals are those below a base and those above it.
LEMMA BelowAbove ==
  ASSUME NEW S, NEW ls \in Seq(S), NEW b \in 0 .. Len(ls)
  PROVE  ToSet(ls) = Below(ls, b) \union Above(ls, b)
<1>1. /\ Below(ls, b) = {ls[k] : k \in 1 .. b} /\ Above(ls, b) = {ls[k] : k \in b + 1 .. Len(ls)}
      /\ ToSet(ls) = {ls[k] : k \in 1 .. Len(ls)}
  BY BelowIs, AboveIs, SetIs
<1>2. \A k \in 1 .. Len(ls) : k \in 1 .. b \/ k \in b + 1 .. Len(ls)
  OBVIOUS
<1>3. (\A k \in 1 .. b : k \in 1 .. Len(ls)) /\ (\A k \in b + 1 .. Len(ls) : k \in 1 .. Len(ls))
  OBVIOUS
<1> QED
  BY <1>1, <1>2, <1>3

(* The locals that a construct at base b still finds, and those declared in it. *)
\* From locals ls to l2 those below base b stay; a new one is the statement's `let`.
Covers(g, ls, l2, b) ==
  /\ b \in 0 .. Len(l2)
  /\ Below(l2, b) = Below(ls, b)
  /\ \A v \in Above(l2, b) : \/ v \in Above(ls, b)
                             \/ Op(g, Size(g)) = "let" /\ g.text[Size(g)].v = v

\* What one more statement keeps of an open construct: its entry,
LEMMA EnteredGrow ==
  ASSUME NEW h, NEW g, Extends(h, g), NEW f, NEW i, NEW k \in Nat, Entered(h, f, i, k),
         Pt(g, Size(g) + 1).dp \in Nat, k <= Pt(g, Size(g) + 1).dp,
         Pt(h, i).d => Pt(g, Size(g) + 1).d
  PROVE  Entered(g, f, i, k)
<1>0. PICK n \in Nat : n = Size(h) /\ Size(g) = n + 1
  BY DEF Extends
<1>1. i \in 1 .. n /\ i \in 1 .. n + 1 /\ i \in 1 .. Size(g)
  BY <1>0 DEF Entered
<1>2. Op(g, i) = Op(h, i) /\ Pt(g, i) = Pt(h, i)
  BY <1>0, <1>1 DEF Extends, Op
<1>3. ASSUME f.op = "else" PROVE \E e \in 1 .. Size(g) : Op(g, e) = "else" /\ At(g, e) = i
  <2>1. PICK e \in 1 .. n : Op(h, e) = "else" /\ At(h, e) = i
    BY <1>0, <1>3 DEF Entered
  <2> QED
    BY <1>0, <2>1 DEF Extends, Op
<1>4. ASSUME NEW q \in i + 1 .. Size(g) + 1 PROVE Pt(g, q).dp > Pt(g, i).dp
  <2>1. CASE q = n + 2
    BY <1>0, <1>2, <2>1 DEF Entered
  <2>2. CASE q # n + 2
    <3>1. q \in 1 .. n + 1 /\ q \in i + 1 .. n + 1
      BY <1>0, <1>1, <2>2
    <3>2. Pt(g, q) = Pt(h, q)
      BY <1>0, <3>1 DEF Extends
    <3>3. Pt(h, q).dp > Pt(h, i).dp
      BY <1>0, <3>1 DEF Entered, Within
    <3> QED
      BY <1>2, <3>2, <3>3
  <2> QED
    BY <2>1, <2>2
<1>5. Within(g, i, Size(g) + 1)
  BY <1>0, <1>1, <1>4 DEF Within
<1> QED
  BY <1>1, <1>2, <1>3, <1>5 DEF Entered

\* its edges, if the statement does not refer to it,
LEMMA EdgesGrow ==
  ASSUME NEW h, NEW g, Extends(h, g), NEW f, NEW i, Edges(h, f, i), At(g, Size(g)) # i
  PROVE  Edges(g, f, i)
<1>0. PICK n \in Nat : n = Size(h) /\ Size(g) = n + 1
  BY DEF Extends
<1>1. ASSUME NEW p \in 1 .. Size(g), At(g, p) = i
      PROVE  p \in 1 .. Size(h) /\ Op(g, p) = Op(h, p) /\ Pt(g, p) = Pt(h, p) /\ At(h, p) = i
  <2>1. p \in 1 .. n /\ p \in 1 .. n + 1
    BY <1>0, <1>1
  <2> QED
    BY <1>0, <1>1, <2>1 DEF Extends, Op
<1> QED
  BY <1>1 DEF Edges

\* its scope,
LEMMA ScopedGrow ==
  ASSUME NEW h, NEW g, Extends(h, g), NEW f, NEW i \in 1 .. Size(h), NEW ls, NEW l2,
         Scoped(h, f, i, ls), Covers(g, ls, l2, f.base)
  PROVE  Scoped(g, f, i, l2)
<1>0. PICK n \in Nat : n = Size(h) /\ Size(g) = n + 1
  BY DEF Extends
<1>1. Pt(g, i) = Pt(h, i)
  BY <1>0 DEF Extends
<1>2. ASSUME NEW v \in Above(l2, f.base)
      PROVE  \E q \in i + 1 .. Size(g) : Op(g, q) = "let" /\ g.text[q].v = v
  <2>1. CASE v \in Above(ls, f.base)
    <3>1. PICK q \in i + 1 .. n : Op(h, q) = "let" /\ h.text[q].v = v
      BY <1>0, <2>1 DEF Scoped
    <3>2. q \in 1 .. n /\ q \in i + 1 .. Size(g)
      BY <1>0
    <3>3. Op(g, q) = "let" /\ g.text[q].v = v
      BY <1>0, <3>1, <3>2 DEF Extends, Op
    <3> QED
      BY <3>2, <3>3
  <2>2. CASE Op(g, Size(g)) = "let" /\ g.text[Size(g)].v = v
    <3>1. Size(g) \in i + 1 .. Size(g)
      BY <1>0
    <3> QED
      BY <2>2, <3>1
  <2> QED
    BY <1>2, <2>1, <2>2 DEF Covers
<1> QED
  BY <1>1, <1>2 DEF Scoped, Covers

\* and so the construct;
LEMMA CarriedGrow ==
  ASSUME NEW h, NEW g, Extends(h, g), NEW f, NEW i, NEW k \in Nat, NEW ls, NEW l2,
         Carried(h, f, i, k, ls),
         Pt(g, Size(g) + 1).dp \in Nat, k <= Pt(g, Size(g) + 1).dp,
         Pt(h, i).d => Pt(g, Size(g) + 1).d,
         At(g, Size(g)) # i,
         Covers(g, ls, l2, f.base)
  PROVE  Carried(g, f, i, k, l2)
<1>1. i \in 1 .. Size(h)
  BY DEF Carried, Entered
<1> QED
  BY <1>1, EnteredGrow, EdgesGrow, ScopedGrow DEF Carried

\* that every opener is accounted for,
LEMMA AccountedGrow ==
  ASSUME NEW h, NEW g, Extends(h, g), NEW st, Accounted(h, st),
         Op(g, Size(g)) \notin Openers
  PROVE  Accounted(g, st)
<1>0. PICK n \in Nat : n = Size(h) /\ Size(g) = n + 1
  BY DEF Extends
<1>1. ASSUME NEW j \in 1 .. Size(g), Op(g, j) \in Openers
      PROVE  \/ \E k \in 1 .. Len(st) : st[k] = j
             \/ \E p \in j + 1 .. Size(g) : Op(g, p) = "end" /\ At(g, p) = j
  <2>1. j \in 1 .. n
    BY <1>0, <1>1
  <2>2. Op(h, j) \in Openers
    BY <1>0, <1>1, <2>1 DEF Extends, Op
  <2>3. CASE \E k \in 1 .. Len(st) : st[k] = j
    BY <2>3
  <2>4. ASSUME NEW p \in j + 1 .. n, Op(h, p) = "end", At(h, p) = j
        PROVE  p \in j + 1 .. Size(g) /\ Op(g, p) = "end" /\ At(g, p) = j
    <3>1. p \in 1 .. n /\ p \in j + 1 .. Size(g)
      BY <1>0, <2>1
    <3> QED
      BY <1>0, <2>4, <3>1 DEF Extends, Op
  <2> QED
    BY <1>0, <2>1, <2>2, <2>3, <2>4 DEF Accounted
<1> QED
  BY <1>1 DEF Accounted

\* and the nesting.
LEMMA NestedGrow ==
  ASSUME NEW h, NEW g, Extends(h, g), NEW fs, NEW f2, NEW st, Nested(h, fs, st),
         Len(f2) = Len(fs),
         \A k \in 1 .. Len(fs) : st[k] \in 1 .. Size(h) /\ f2[k].base = fs[k].base
  PROVE  Nested(g, f2, st)
<1>1. \A k \in 1 .. Len(fs) : Pt(g, st[k]) = Pt(h, st[k])
  BY DEF Extends
<1> QED
  BY <1>1 DEF Nested

\* A statement that changes no construct.
LEMMA OpenKept ==
  ASSUME NEW h, NEW g, Extends(h, g), NEW fs, NEW st, NEW ls, NEW l2,
         OpenConstructs(h, fs, st, ls),
         Len(fs) \in Nat,
         Pt(g, Size(g) + 1).dp = Len(fs),
         Pt(h, Size(h) + 1).d => Pt(g, Size(g) + 1).d,
         At(g, Size(g)) = 0, Op(g, Size(g)) \notin Openers,
         \A k \in 1 .. Len(fs) : Covers(g, ls, l2, fs[k].base)
  PROVE  OpenConstructs(g, fs, st, l2)
<1>1. ASSUME NEW k \in 1 .. Len(fs) PROVE Carried(g, fs[k], st[k], k, l2) /\ st[k] \in 1 .. Size(h)
  <2>1. Carried(h, fs[k], st[k], k, ls)
    BY DEF OpenConstructs
  <2>2. st[k] \in 1 .. Size(h) /\ (Pt(h, st[k]).d => Pt(g, Size(g) + 1).d)
    BY <2>1 DEF Carried, Entered
  <2> QED
    BY <2>1, <2>2, CarriedGrow
<1> QED
  BY <1>1, NestedGrow, AccountedGrow DEF OpenConstructs

\* A statement that changes what one construct remembers.
LEMMA OpenChanged ==
  ASSUME NEW h, NEW g, Extends(h, g), NEW fs \in Seq(Construct), NEW st, NEW ls, NEW l2,
         OpenConstructs(h, fs, st, ls),
         NEW m \in 1 .. Len(fs), NEW f \in Construct,
         f.base = fs[m].base, f.dead = fs[m].dead, f.pre = fs[m].pre, f.preC = fs[m].preC,
         \/ f.op = fs[m].op
         \/ fs[m].op = "if" /\ f.op = "else" /\ Op(g, Size(g)) = "else",
         Edges(g, f, st[m]),
         Pt(g, Size(g) + 1).dp = Len(fs),
         \A k \in 1 .. Len(fs) : Pt(h, st[k]).d => Pt(g, Size(g) + 1).d,
         At(g, Size(g)) = st[m], Op(g, Size(g)) \notin Openers,
         \A k \in 1 .. Len(fs) : Covers(g, ls, l2, fs[k].base)
  PROVE  OpenConstructs(g, [fs EXCEPT ![m] = f], st, l2)
<1>0. Len(fs) \in Nat /\ Size(h) \in Nat /\ Size(g) = Size(h) + 1
  BY DEF Extends
<1>1. PICK f2 : f2 = [fs EXCEPT ![m] = f]
  OBVIOUS
<1>2. Len(f2) = Len(fs) /\ \A k \in 1 .. Len(fs) : f2[k] = IF k = m THEN f ELSE fs[k]
  BY <1>1
<1>3. \A k \in 1 .. Len(fs) : Carried(h, fs[k], st[k], k, ls)
  BY DEF OpenConstructs
<1>4. \A k \in 1 .. Len(fs) : st[k] \in 1 .. Size(h)
  BY <1>3 DEF Carried, Entered
<1>5. ASSUME NEW k \in 1 .. Len(fs), k # m PROVE Carried(g, f2[k], st[k], k, l2)
  <2>1. st[k] # st[m]
    <3>1. Nested(h, fs, st) /\ (k < m \/ m < k)
      BY <1>5 DEF OpenConstructs
    <3> QED
      BY <1>4, <3>1 DEF Nested
  <2> QED
    BY <1>0, <1>2, <1>3, <1>5, <2>1, CarriedGrow
<1>6. Carried(g, f, st[m], m, l2)
  <2>1. Entered(g, fs[m], st[m], m)
    BY <1>0, <1>3, EnteredGrow DEF Carried
  <2>2. f.op = "else" => \E e \in 1 .. Size(g) : Op(g, e) = "else" /\ At(g, e) = st[m]
    <3>1. CASE f.op = fs[m].op
      BY <2>1, <3>1 DEF Entered
    <3>2. CASE Op(g, Size(g)) = "else"
      <4>1. Size(g) \in 1 .. Size(g)
        BY <1>0
      <4> QED
        BY <3>2, <4>1
    <3> QED
      BY <3>1, <3>2
  <2>3. f.left \in BOOLEAN /\ f.op \in Openers \union {"else"}
    BY DEF Construct
  <2>4. Op(g, st[m]) = IF f.op = "else" THEN "if" ELSE f.op
    BY <2>1 DEF Entered
  <2>5. Entered(g, f, st[m], m)
    BY <2>1, <2>2, <2>3, <2>4 DEF Entered
  <2>6. Scoped(g, fs[m], st[m], l2)
    BY <1>3, <1>4, ScopedGrow DEF Carried
  <2>7. Scoped(g, f, st[m], l2)
    BY <2>6 DEF Scoped
  <2> QED
    BY <2>5, <2>7 DEF Carried
<1>7. Nested(g, f2, st)
  BY <1>2, <1>4, NestedGrow DEF OpenConstructs
<1>8. \A k \in 1 .. Len(f2) : Carried(g, f2[k], st[k], k, l2)
  BY <1>2, <1>5, <1>6
<1> QED
  BY <1>1, <1>2, <1>7, <1>8, AccountedGrow DEF OpenConstructs

\* A construct opens.
LEMMA OpenPushed ==
  ASSUME NEW h, NEW g, Extends(h, g), NEW fs \in Seq(Construct), NEW st,
         NEW ls \in Seq(Binding), OpenConstructs(h, fs, st, ls),
         Refers(h), Typed(h),
         \A k \in 1 .. Len(fs) : fs[k].base <= Len(ls),
         NEW f \in Construct, f.op \in Openers,
         f.base = Len(ls),
         f.pre = Pt(h, Size(h) + 1).m, f.preC = Pt(h, Size(h) + 1).c, f.dead = Pt(h, Size(h) + 1).d,
         Pt(h, Size(h) + 1).dp = Len(fs), Pt(h, Size(h) + 1).loc = ToSet(ls),
         Op(g, Size(g)) = f.op, At(g, Size(g)) = 0,
         Pt(g, Size(g) + 1).dp = Len(fs) + 1,
         Pt(g, Size(g) + 1).d = Pt(h, Size(h) + 1).d
  PROVE  OpenConstructs(g, Append(fs, f), Append(st, Size(g)), ls)
<1>0. PICK n \in Nat : n = Size(h) /\ Size(g) = n + 1
  BY DEF Extends
<1>1. PICK f2, s2 : f2 = Append(fs, f) /\ s2 = Append(st, n + 1)
  OBVIOUS
<1>2. st \in Seq(Nat) /\ Len(st) = Len(fs) /\ Len(fs) \in Nat /\ Len(ls) \in Nat
  BY DEF OpenConstructs
<1>3. /\ s2 \in Seq(Nat) /\ Len(s2) = Len(fs) + 1 /\ Len(f2) = Len(fs) + 1
      /\ s2[Len(fs) + 1] = n + 1 /\ f2[Len(fs) + 1] = f
      /\ \A k \in 1 .. Len(fs) : s2[k] = st[k] /\ f2[k] = fs[k]
  BY <1>0, <1>1, <1>2
<1>4. \A k \in 1 .. Len(f2) : k \in 1 .. Len(fs) \/ k = Len(fs) + 1
  BY <1>2, <1>3
<1>5. \A k \in 1 .. Len(fs) : /\ Carried(h, fs[k], st[k], k, ls) /\ st[k] \in 1 .. n
                              /\ (Pt(h, st[k]).d => Pt(h, n + 1).d)
  BY <1>0 DEF OpenConstructs, Carried, Entered
<1>6. ASSUME NEW k \in 1 .. Len(fs) PROVE Carried(g, fs[k], st[k], k, ls)
  <2>1. fs[k].base \in 0 .. Len(ls)
    BY <1>5 DEF Carried, Scoped
  <2>2. Covers(g, ls, ls, fs[k].base)
    BY <2>1 DEF Covers
  <2>3. /\ k \in Nat /\ Pt(g, Size(g) + 1).dp \in Nat /\ k <= Pt(g, Size(g) + 1).dp
        /\ (Pt(h, st[k]).d => Pt(g, Size(g) + 1).d)
    BY <1>0, <1>2, <1>5
  <2>4. At(g, Size(g)) # st[k]
    BY <1>0, <1>5
  <2>5. Carried(h, fs[k], st[k], k, ls)
    BY <1>5
  <2> QED
    BY <2>2, <2>3, <2>4, <2>5, CarriedGrow
<1>7. Pt(g, n + 1) = Pt(h, n + 1)
  BY <1>0 DEF Extends
<1>8. Entered(g, f, n + 1, Len(fs) + 1)
  <2>1. \A q \in n + 1 + 1 .. Size(g) + 1 : q = Size(g) + 1
    BY <1>0
  <2>2. Within(g, n + 1, Size(g) + 1)
    BY <1>0, <1>2, <1>7, <2>1 DEF Within
  <2>3. f.op # "else" /\ f.left \in BOOLEAN
    BY DEF Openers, Loops, Construct
  <2> QED
    BY <1>0, <1>2, <1>7, <2>2, <2>3 DEF Entered
<1>9. Edges(g, f, n + 1)
  <2>1. ASSUME NEW p \in 1 .. Size(g) PROVE At(g, p) # n + 1
    <3>1. CASE p = n + 1
      BY <1>0, <3>1
    <3>2. CASE p \in 1 .. n
      <4>1. At(g, p) = At(h, p) /\ At(h, p) \in 0 .. p - 1
        BY <1>0, <3>2 DEF Extends, Refers
      <4> QED
        BY <3>2, <4>1
    <3> QED
      BY <1>0, <3>1, <3>2
  <2> QED
    BY <2>1 DEF Edges
<1>10. Scoped(g, f, n + 1, ls)
  <2>1. Below(ls, Len(ls)) = ToSet(ls)
    <3>1. Below(ls, Len(ls)) = {ls[k] : k \in 1 .. Len(ls)}
      <4>1. Len(ls) \in 0 .. Len(ls)
        BY <1>2
      <4> QED
        BY <4>1, BelowIs
    <3>2. ToSet(ls) = {ls[k] : k \in 1 .. Len(ls)}
      BY SetIs
    <3> QED
      BY <3>1, <3>2
  <2>2. Above(ls, Len(ls)) = {}
    <3>1. \A k \in Len(ls) + 1 .. Len(ls) : FALSE
      BY <1>2
    <3> QED
      BY <1>2, <3>1, AboveIs
  <2> QED
    BY <1>0, <1>2, <1>7, <2>1, <2>2 DEF Scoped
<1>11. \A k \in 1 .. Len(f2) : Carried(g, f2[k], s2[k], k, ls)
  BY <1>3, <1>4, <1>6, <1>8, <1>9, <1>10 DEF Carried
<1>12. Nested(g, f2, s2)
  <2>1. ASSUME NEW k \in 1 .. Len(f2), NEW l \in 1 .. Len(f2), k < l
        PROVE  s2[k] < s2[l] /\ f2[k].base <= f2[l].base /\ (Pt(g, s2[k]).d => Pt(g, s2[l]).d)
    <3>1. k \in 1 .. Len(fs)
      BY <1>2, <1>3, <2>1
    <3>2. Pt(g, st[k]) = Pt(h, st[k])
      BY <1>0, <1>5, <3>1 DEF Extends
    <3>3. CASE l = Len(fs) + 1
      <4>1. st[k] < n + 1 /\ fs[k].base <= f.base
        BY <1>0, <1>5, <3>1
      <4> QED
        BY <1>3, <1>5, <1>7, <3>1, <3>2, <3>3, <4>1
    <3>4. CASE l \in 1 .. Len(fs)
      <4>1. Pt(g, st[l]) = Pt(h, st[l])
        BY <1>0, <1>5, <3>4 DEF Extends
      <4>2. st[k] < st[l] /\ fs[k].base <= fs[l].base /\ (Pt(h, st[k]).d => Pt(h, st[l]).d)
        BY <2>1, <3>1, <3>4 DEF OpenConstructs, Nested
      <4>3. s2[k] = st[k] /\ s2[l] = st[l] /\ f2[k] = fs[k] /\ f2[l] = fs[l]
        BY <1>3, <3>1, <3>4
      <4> QED
        BY <3>2, <4>1, <4>2, <4>3
    <3> QED
      BY <1>4, <3>3, <3>4
  <2> QED
    BY <2>1 DEF Nested
<1>13. Accounted(g, s2)
  <2>1. ASSUME NEW j \in 1 .. Size(g), Op(g, j) \in Openers
        PROVE  \/ \E k \in 1 .. Len(s2) : s2[k] = j
               \/ \E p \in j + 1 .. Size(g) : Op(g, p) = "end" /\ At(g, p) = j
    <3>1. CASE j = n + 1
      <4>1. Len(fs) + 1 \in 1 .. Len(s2)
        BY <1>2, <1>3
      <4> QED
        BY <1>3, <3>1, <4>1
    <3>2. CASE j \in 1 .. n
      <4>1. Op(h, j) \in Openers
        BY <1>0, <2>1, <3>2 DEF Extends, Op
      <4>2. ASSUME NEW k \in 1 .. Len(st), st[k] = j PROVE k \in 1 .. Len(s2) /\ s2[k] = j
        BY <1>2, <1>3, <4>2
      <4>3. ASSUME NEW p \in j + 1 .. n, Op(h, p) = "end", At(h, p) = j
            PROVE  p \in j + 1 .. Size(g) /\ Op(g, p) = "end" /\ At(g, p) = j
        <5>1. p \in 1 .. n /\ p \in j + 1 .. Size(g)
          BY <1>0, <3>2
        <5> QED
          BY <1>0, <4>3, <5>1 DEF Extends, Op
      <4> QED
        BY <1>0, <3>2, <4>1, <4>2, <4>3 DEF OpenConstructs, Accounted
    <3> QED
      BY <1>0, <3>1, <3>2
  <2> QED
    BY <2>1 DEF Accounted
<1> QED
  BY <1>0, <1>1, <1>2, <1>3, <1>11, <1>12, <1>13 DEF OpenConstructs

\* The innermost construct ends.
LEMMA OpenPopped ==
  ASSUME NEW h, NEW g, Extends(h, g), NEW fs \in Seq(Construct), fs # <<>>, NEW st,
         NEW ls, NEW l2, OpenConstructs(h, fs, st, ls),
         Op(g, Size(g)) = "end", At(g, Size(g)) = st[Len(fs)],
         Pt(g, Size(g) + 1).dp = Len(fs) - 1,
         Pt(h, st[Len(fs)]).d => Pt(g, Size(g) + 1).d,
         \A k \in 1 .. Len(fs) - 1 : Covers(g, ls, l2, fs[k].base)
  PROVE  OpenConstructs(g, Front(fs), Front(st), l2)
<1>0. PICK n \in Nat : n = Size(h) /\ Size(g) = n + 1
  BY DEF Extends
<1>1. PICK f2, s2 : f2 = Front(fs) /\ s2 = Front(st)
  OBVIOUS
<1>2. PICK m \in Nat : m = Len(fs) /\ m # 0
  OBVIOUS
<1>3. st \in Seq(Nat) /\ Len(st) = m /\ st # <<>>
  BY <1>2 DEF OpenConstructs
<1>4. /\ s2 \in Seq(Nat) /\ Len(s2) = m - 1 /\ Len(f2) = m - 1
      /\ \A k \in 1 .. m - 1 : s2[k] = st[k] /\ f2[k] = fs[k]
  BY <1>1, <1>2, <1>3, Popped
<1>5. m \in 1 .. m /\ \A k \in 1 .. m - 1 : k \in 1 .. m /\ k < m
  BY <1>2
<1>6. \A k \in 1 .. m : Carried(h, fs[k], st[k], k, ls) /\ st[k] \in 1 .. n
  BY <1>0, <1>2 DEF OpenConstructs, Carried, Entered
<1>7. ASSUME NEW k \in 1 .. m - 1 PROVE Carried(g, f2[k], s2[k], k, l2)
  <2>1. st[k] # st[m] /\ (Pt(h, st[k]).d => Pt(h, st[m]).d)
    BY <1>2, <1>5, <1>6 DEF OpenConstructs, Nested
  <2>2. /\ k \in Nat /\ Pt(g, Size(g) + 1).dp \in Nat /\ k <= Pt(g, Size(g) + 1).dp
        /\ (Pt(h, st[k]).d => Pt(g, Size(g) + 1).d)
    BY <1>2, <2>1
  <2>3. Carried(h, fs[k], st[k], k, ls) /\ At(g, Size(g)) # st[k]
    BY <1>2, <1>5, <1>6, <2>1
  <2>4. Covers(g, ls, l2, fs[k].base)
    BY <1>2
  <2>5. f2[k] = fs[k] /\ s2[k] = st[k]
    BY <1>4
  <2> QED
    BY <2>2, <2>3, <2>4, <2>5, CarriedGrow
<1>8. Nested(g, f2, s2)
  <2>1. \A k \in 1 .. m : Pt(g, st[k]) = Pt(h, st[k])
    BY <1>0, <1>6 DEF Extends
  <2>2. ASSUME NEW k \in 1 .. m - 1, NEW l \in 1 .. m - 1, k < l
        PROVE  s2[k] < s2[l] /\ f2[k].base <= f2[l].base /\ (Pt(g, s2[k]).d => Pt(g, s2[l]).d)
    <3>1. k \in 1 .. m /\ l \in 1 .. m
      BY <1>5
    <3>2. st[k] < st[l] /\ fs[k].base <= fs[l].base /\ (Pt(h, st[k]).d => Pt(h, st[l]).d)
      BY <1>2, <2>2, <3>1 DEF OpenConstructs, Nested
    <3>3. s2[k] = st[k] /\ s2[l] = st[l] /\ f2[k] = fs[k] /\ f2[l] = fs[l]
      BY <1>4
    <3> QED
      BY <2>1, <3>1, <3>2, <3>3
  <2> QED
    BY <1>4, <2>2 DEF Nested
<1>9. ASSUME NEW j \in 1 .. Size(g), Op(g, j) \in Openers
      PROVE  \/ \E k \in 1 .. Len(s2) : s2[k] = j
             \/ \E p \in j + 1 .. Size(g) : Op(g, p) = "end" /\ At(g, p) = j
  <2>1. j # n + 1
    BY <1>0, <1>9 DEF Openers, Loops
  <2>2. j \in 1 .. n
    BY <1>0, <2>1
  <2>3. Op(h, j) \in Openers
    BY <1>0, <1>9, <2>2 DEF Extends, Op
  <2>4. ASSUME NEW k \in 1 .. m, st[k] = j
        PROVE  \/ \E c \in 1 .. Len(s2) : s2[c] = j
               \/ \E p \in j + 1 .. Size(g) : Op(g, p) = "end" /\ At(g, p) = j
    <3>1. CASE k = m
      <4>1. Size(g) \in j + 1 .. Size(g)
        BY <1>0, <2>2
      <4> QED
        BY <1>2, <2>4, <3>1, <4>1
    <3>2. CASE k # m
      <4>1. k \in 1 .. m - 1
        BY <1>2, <3>2
      <4> QED
        BY <1>4, <2>4, <4>1
    <3> QED
      BY <3>1, <3>2
  <2>5. ASSUME NEW p \in j + 1 .. n, Op(h, p) = "end", At(h, p) = j
        PROVE  p \in j + 1 .. Size(g) /\ Op(g, p) = "end" /\ At(g, p) = j
    <3>1. p \in 1 .. n /\ p \in j + 1 .. Size(g)
      BY <1>0, <2>2
    <3> QED
      BY <1>0, <2>5, <3>1 DEF Extends, Op
  <2> QED
    BY <1>0, <1>3, <2>2, <2>3, <2>4, <2>5 DEF OpenConstructs, Accounted
<1> QED
  BY <1>1, <1>2, <1>4, <1>7, <1>8, <1>9 DEF OpenConstructs, Accounted
-----------------------------------------------------------------------------
(* The checker's state and the annotation *)

\* Some annotation agrees with the checker: the invariant while a body is checked.
Checked == \E h, st : Checking(h, st)

\* g is h with the statement s, which refers to the construct at a.
Writes(h, g, s, a) ==
  /\ Extends(h, g)
  /\ g.text = text' /\ g.kind = kind' /\ g.forgotten = forgotten' /\ g.misjudged = misjudged'
  /\ g.text[Size(g)] = s /\ Op(g, Size(g)) = s.op /\ At(g, Size(g)) = a
  /\ Pt(g, Size(g) + 1).loc = ToSet(locals') /\ Pt(g, Size(g) + 1).m = moved'
  /\ Pt(g, Size(g) + 1).c = consumed' /\ Pt(g, Size(g) + 1).d = dead'
  /\ Pt(g, Size(g) + 1).dv = diverges' /\ Pt(g, Size(g) + 1).dp = Len(frames')

\* A statement that is written extends the annotation with the point it leads to.
LEMMA WritesExists ==
  ASSUME NEW h, NEW st, Checking(h, st), CheckTypes, NEW s \in Plain \union Marks,
         NEW e, Write(s, e), NEW a,
         forgotten \subseteq forgotten', misjudged \subseteq misjudged'
  PROVE  \E g : Writes(h, g, s, a)
<1>1. PICK n \in Nat : n = Len(text)
  BY DEF CheckTypes
<1>2. Size(h) = n /\ h.text = text
  BY <1>1 DEF Checking, Size
<1>3. text' = Append(text, s)
  BY DEF Write
<1>4. /\ Len(text') = n + 1 /\ text'[n + 1] = s
      /\ \A p \in 1 .. n : text'[p] = text[p]
  BY <1>1, <1>3 DEF CheckTypes
<1>5. PICK pt : pt = [loc |-> ToSet(locals'), m |-> moved', c |-> consumed', d |-> dead',
                      dv |-> diverges', dp |-> Len(frames')]
  OBVIOUS
<1>6. PICK pts : pts = [p \in 1 .. n + 2 |-> IF p = n + 2 THEN pt ELSE h.pts[p]]
  OBVIOUS
<1>7. PICK at : at = [p \in 1 .. n + 1 |-> IF p = n + 1 THEN a ELSE h.at[p]]
  OBVIOUS
<1>8. /\ pts[n + 2] = pt /\ at[n + 1] = a
      /\ \A p \in 1 .. n + 1 : pts[p] = h.pts[p]
      /\ \A p \in 1 .. n : at[p] = h.at[p]
  BY <1>6, <1>7
<1>9. PICK g : g = [text |-> text', kind |-> kind', forgotten |-> forgotten', misjudged |-> misjudged',
                    at |-> at, pts |-> pts]
  OBVIOUS
<1>10. Size(g) = n + 1 /\ g.at = at /\ g.pts = pts /\ g.text = text' /\ g.kind = kind'
       /\ g.forgotten = forgotten' /\ g.misjudged = misjudged'
  BY <1>4, <1>9 DEF Size
<1>11. h.kind = kind /\ kind' = kind /\ h.forgotten = forgotten /\ h.misjudged = misjudged
  BY DEF Write, Checking
<1>12. Extends(h, g)
  BY <1>2, <1>4, <1>8, <1>10, <1>11 DEF Extends, At, Pt
<1>13. Size(g) + 1 = n + 2
  BY <1>10
<1>14. Pt(g, Size(g) + 1) = pt /\ At(g, Size(g)) = a /\ g.text[Size(g)] = s /\ Op(g, Size(g)) = s.op
  BY <1>4, <1>8, <1>10, <1>13 DEF Pt, At, Op
<1> QED
  BY <1>5, <1>10, <1>12, <1>14 DEF Writes

\* An extension that is annotated well agrees with the checker after the statement.
LEMMA CheckingAgain ==
  ASSUME NEW h, NEW g, NEW s, NEW a, Writes(h, g, s, a), Annotated(g), NEW s2,
         OpenConstructs(g, frames', s2, locals')
  PROVE  Checked'
<1>1. Checking(g, s2)'
  BY DEF Checking, Writes, Reached, InScope
<1> QED
  BY <1>1 DEF Checked

\* What is known of the point reached.
LEMMA Here ==
  ASSUME NEW h, NEW st, Checking(h, st), CheckTypes, NEW g, NEW s, NEW a,
         Writes(h, g, s, a)
  PROVE  /\ Size(h) \in Nat /\ Size(g) = Size(h) + 1
         /\ Pt(g, Size(g)) = Pt(h, Size(h) + 1)
         /\ Pt(h, Size(h) + 1).loc = InScope /\ Pt(h, Size(h) + 1).m = moved /\ Pt(h, Size(h) + 1).c = consumed
         /\ Pt(h, Size(h) + 1).d = dead /\ Pt(h, Size(h) + 1).dv = diverges /\ Pt(h, Size(h) + 1).dp = Len(frames)
         /\ Annotated(h) /\ OpenConstructs(h, frames, st, locals) /\ Extends(h, g)
         /\ h.text = text /\ h.kind = kind /\ h.forgotten = forgotten /\ h.misjudged = misjudged
<1>1. Size(h) \in Nat /\ Size(g) = Size(h) + 1 /\ Extends(h, g)
  BY DEF Writes, Extends
<1>2. Size(h) + 1 \in 1 .. Size(h) + 1
  BY <1>1
<1>3. Pt(g, Size(g)) = Pt(h, Size(h) + 1)
  BY <1>1, <1>2 DEF Extends
<1> QED
  BY <1>1, <1>3 DEF Checking, Reached

\* The annotation stays complete if the new statement is annotated well.
LEMMA AnnotatedAgain ==
  ASSUME NEW h, NEW st, Checking(h, st), CheckTypes, CheckTypes', NEW g, NEW s, NEW a,
         Writes(h, g, s, a),
         a \in 0 .. Size(h), Good(g, Size(g)), diverges' => dead',
         \/ ToSet(locals') \subseteq InScope
         \/ ToSet(locals') \subseteq InScope \union {s.v} /\ s.op = "let",
         s.op = "let" => \A i \in DOMAIN text : text[i].op = "let" => text[i].v # s.v
  PROVE  Annotated(g)
<1>1. /\ ToSet(locals') \subseteq Binding
      /\ dead' \in BOOLEAN /\ diverges' \in BOOLEAN /\ Len(frames') \in Nat /\ text' \in Seq(Plain \union Marks)
  BY DEF CheckTypes, ToSet
<1>2. s.op = "let" => \A p \in 1 .. Size(h) : Op(h, p) = "let" => h.text[p].v # s.v
  <2>1. h.text = text /\ text \in Seq(Plain \union Marks)
    BY Here DEF CheckTypes
  <2>2. DOMAIN text = 1 .. Size(h)
    BY <2>1 DEF Size
  <2> QED
    BY <2>1, <2>2 DEF Op
<1>3. Annotated(h) /\ Extends(h, g) /\ Pt(h, Size(h) + 1).loc = InScope
  BY Here
<1> QED
  BY <1>1, <1>2, <1>3, AnnotatedGrow DEF Writes

\* The same locals cover themselves.
LEMMA CoversSame ==
  ASSUME CheckTypes, NEW g
  PROVE  \A k \in 1 .. Len(frames) : Covers(g, locals, locals, frames[k].base)
BY FramesTyped DEF Covers

\* A statement of the straight line.
LEMMA PlainStep ==
  ASSUME NEW h, NEW st, Checking(h, st), CheckTypes, CheckTypes', NEW g, NEW s,
         Writes(h, g, s, 0),
         Good(g, Size(g)), s.op \notin Openers, frames' = frames, dead => dead', diverges' => dead',
         \/ locals' = locals
         \/ locals' = Append(locals, s.v) /\ s.op = "let" /\ s.v \in Binding,
         s.op = "let" => \A i \in DOMAIN text : text[i].op = "let" => text[i].v # s.v
  PROVE  Checked'
<1>1. /\ locals \in Seq(Binding) /\ Len(frames) \in Nat /\ Len(locals) \in Nat
  BY DEF CheckTypes
<1>2. /\ \/ ToSet(locals') \subseteq InScope
         \/ ToSet(locals') \subseteq InScope \union {s.v} /\ s.op = "let"
      /\ \A k \in 1 .. Len(frames) : Covers(g, locals, locals', frames[k].base)
  <2>1. CASE locals' = locals
    BY <2>1, CoversSame DEF InScope
  <2>2. CASE locals' = Append(locals, s.v) /\ s.op = "let" /\ s.v \in Binding
    <3>1. 0 \in 0 .. Len(locals)
      BY <1>1
    <3>2. ToSet(locals') = InScope \union {s.v} /\ Len(locals') = Len(locals) + 1
      BY <1>1, <2>2, <3>1, BelowAppend DEF InScope
    <3>3. ASSUME NEW k \in 1 .. Len(frames) PROVE Covers(g, locals, locals', frames[k].base)
      <4>1. frames[k].base \in 0 .. Len(locals)
        BY FramesTyped
      <4>2. Below(locals', frames[k].base) = Below(locals, frames[k].base)
            /\ Above(locals', frames[k].base) = Above(locals, frames[k].base) \union {s.v}
        BY <1>1, <2>2, <4>1, BelowAppend
      <4>3. frames[k].base \in 0 .. Len(locals')
        BY <1>1, <3>2, <4>1
      <4> QED
        BY <2>2, <4>2, <4>3 DEF Covers, Writes
    <3> QED
      BY <2>2, <3>2, <3>3
  <2> QED
    BY <2>1, <2>2
<1>3. Annotated(g)
  <2>1. 0 \in 0 .. Size(h)
    BY Here
  <2> QED
    BY <1>2, <2>1, AnnotatedAgain
<1>4. OpenConstructs(g, frames', st, locals')
  <2>1. /\ Extends(h, g) /\ OpenConstructs(h, frames, st, locals) /\ At(g, Size(g)) = 0 /\ Op(g, Size(g)) \notin Openers
        /\ Pt(g, Size(g) + 1).dp = Len(frames) /\ (Pt(h, Size(h) + 1).d => Pt(g, Size(g) + 1).d)
    BY Here DEF Writes
  <2> QED
    BY <1>1, <1>2, <2>1, OpenKept
<1> QED
  BY <1>3, <1>4, CheckingAgain
-----------------------------------------------------------------------------
(* Checking: the straight line *)

\* A declaration keeps the invariant of the checker.
LEMMA LetChecked ==
  ASSUME Checked, CheckTypes, CheckTypes', NEW v \in Binding, Let(v)
  PROVE  Checked'
<1>1. PICK h, st : Checking(h, st)
  BY DEF Checked
<1>2. PICK s : s = [op |-> "let", v |-> v]
  OBVIOUS
<1>3. s \in Plain \union Marks /\ s.op = "let" /\ s.v = v
  BY <1>2, PlainIsText
<1>4. /\ Write(s, FALSE) /\ forgotten' = forgotten /\ misjudged' = misjudged
      /\ locals' = Append(locals, v) /\ moved' = moved \ {v} /\ consumed' = consumed \ {v}
      /\ diverges' = FALSE /\ dead' = dead /\ frames' = frames
      /\ \A i \in DOMAIN text : text[i].op = "let" => text[i].v # v
  BY <1>2 DEF Let
<1>5. PICK g : Writes(h, g, s, 0)
  BY <1>1, <1>3, <1>4, WritesExists
<1>6. LetOK(g, Size(g))
  <2>1. ToSet(locals') = InScope \union {v}
    <3>1. 0 \in 0 .. Len(locals) /\ locals \in Seq(Binding)
      BY DEF CheckTypes
    <3> QED
      BY <1>4, <3>1, BelowAppend DEF InScope
  <2> QED
    BY <1>1, <1>3, <1>4, <1>5, <2>1, Here DEF LetOK, Writes
<1>7. Op(g, Size(g)) = "let"
  BY <1>3, <1>5 DEF Writes
<1>8. Good(g, Size(g)) /\ s.op \notin Openers
  BY <1>3, <1>6, <1>7 DEF Good, Openers, Loops
<1> QED
  BY <1>1, <1>3, <1>4, <1>5, <1>8, PlainStep

\* A read keeps it.
LEMMA UseChecked ==
  ASSUME Checked, CheckTypes, CheckTypes', NEW v \in Binding, Use(v), phase' = "check"
  PROVE  Checked'
<1>1. PICK h, st : Checking(h, st)
  BY DEF Checked
<1>2. PICK s : s = [op |-> "use", v |-> v]
  OBVIOUS
<1>3. s \in Plain \union Marks /\ s.op = "use" /\ s.v = v
  BY <1>2, PlainIsText
<1>4. /\ Write(s, v \in moved) /\ forgotten' = forgotten /\ misjudged' = misjudged /\ v \in InScope
      /\ locals' = locals /\ moved' = moved /\ consumed' = consumed
      /\ diverges' = FALSE /\ dead' = dead /\ frames' = frames
  BY <1>2 DEF Use
<1>5. PICK g : Writes(h, g, s, 0)
  BY <1>1, <1>3, <1>4, WritesExists
<1>6. UseOK(g, Size(g))
  <2>1. v \notin moved
    BY <1>4 DEF Write
  <2> QED
    BY <1>1, <1>3, <1>4, <1>5, <2>1, Here DEF UseOK, Writes, Same, InScope
<1>7. Op(g, Size(g)) = "use"
  BY <1>3, <1>5 DEF Writes
<1>8. Good(g, Size(g)) /\ s.op \notin Openers /\ s.op # "let"
  BY <1>3, <1>6, <1>7 DEF Good, Openers, Loops
<1> QED
  BY <1>1, <1>3, <1>4, <1>5, <1>8, PlainStep

\* A read that moves keeps it.
LEMMA TakeChecked ==
  ASSUME Checked, CheckTypes, CheckTypes', NEW v \in Binding, Take(v), phase' = "check"
  PROVE  Checked'
<1>1. PICK h, st : Checking(h, st)
  BY DEF Checked
<1>2. PICK s : s = [op |-> "take", v |-> v]
  OBVIOUS
<1>3. s \in Plain \union Marks /\ s.op = "take" /\ s.v = v
  BY <1>2, PlainIsText
<1>4. /\ Write(s, v \in moved) /\ forgotten' = forgotten /\ misjudged' = misjudged /\ v \in InScope
      /\ locals' = locals /\ moved' = moved \union {v} /\ consumed' = consumed \union {v}
      /\ diverges' = FALSE /\ dead' = dead /\ frames' = frames
  BY <1>2 DEF Take
<1>5. PICK g : Writes(h, g, s, 0)
  BY <1>1, <1>3, <1>4, WritesExists
<1>6. TakeOK(g, Size(g))
  <2>1. v \notin moved
    BY <1>4 DEF Write
  <2> QED
    BY <1>1, <1>3, <1>4, <1>5, <2>1, Here DEF TakeOK, Writes, InScope
<1>7. Op(g, Size(g)) = "take"
  BY <1>3, <1>5 DEF Writes
<1>8. Good(g, Size(g)) /\ s.op \notin Openers /\ s.op # "let"
  BY <1>3, <1>6, <1>7 DEF Good, Openers, Loops
<1> QED
  BY <1>1, <1>3, <1>4, <1>5, <1>8, PlainStep

\* An assignment keeps it.
LEMMA SetChecked ==
  ASSUME Checked, CheckTypes, CheckTypes', NEW v \in Binding, Set(v), phase' = "check"
  PROVE  Checked'
<1>1. PICK h, st : Checking(h, st)
  BY DEF Checked
<1>2. PICK s : s = [op |-> "set", v |-> v]
  OBVIOUS
<1>3. s \in Plain \union Marks /\ s.op = "set" /\ s.v = v
  BY <1>2, PlainIsText
<1>4. /\ Write(s, kind[v] = "handle" /\ v \notin consumed)
      /\ forgotten' = forgotten /\ misjudged' = misjudged /\ v \in InScope
      /\ locals' = locals /\ moved' = moved \ {v}
      /\ consumed' = IF kind[v] = "handle" THEN consumed \ {v} ELSE consumed
      /\ diverges' = FALSE /\ dead' = dead /\ frames' = frames
  BY <1>2 DEF Set
<1>5. PICK g : Writes(h, g, s, 0)
  BY <1>1, <1>3, <1>4, WritesExists
<1>6. SetOK(g, Size(g))
  <2>1. kind[v] = "handle" => v \in consumed
    BY <1>4 DEF Write
  <2>2. g.kind = kind
    BY <1>4, <1>5 DEF Writes, Write
  <2> QED
    <3>1. /\ Pt(g, Size(g)).loc = InScope /\ Pt(g, Size(g)).m = moved /\ Pt(g, Size(g)).c = consumed
          /\ Pt(g, Size(g)).d = dead /\ Pt(g, Size(g)).dp = Len(frames)
      BY <1>1, <1>5, Here
    <3>2. /\ Pt(g, Size(g) + 1).loc = InScope /\ Pt(g, Size(g) + 1).m = moved \ {v}
          /\ Pt(g, Size(g) + 1).c = consumed' /\ g.text[Size(g)].v = v
          /\ Pt(g, Size(g) + 1).d = dead /\ Pt(g, Size(g) + 1).dp = Len(frames)
      BY <1>3, <1>4, <1>5 DEF Writes, InScope
    <3> QED
      BY <1>4, <2>1, <2>2, <3>1, <3>2 DEF SetOK
<1>7. Op(g, Size(g)) = "set"
  BY <1>3, <1>5 DEF Writes
<1>8. Good(g, Size(g)) /\ s.op \notin Openers /\ s.op # "let"
  BY <1>3, <1>6, <1>7 DEF Good, Openers, Loops
<1> QED
  BY <1>1, <1>3, <1>4, <1>5, <1>8, PlainStep

\* A return keeps it.
LEMMA ReturnChecked ==
  ASSUME Checked, CheckTypes, CheckTypes', Return, phase' = "check"
  PROVE  Checked'
<1>1. PICK h, st : Checking(h, st)
  BY DEF Checked
<1>2. PICK s : s = [op |-> "return"]
  OBVIOUS
<1>3. s \in Plain \union Marks /\ s.op = "return"
  BY <1>2, MarkIsText
<1>4. /\ Write(s, Unclosed(InScope, dead) # {})
      /\ forgotten' = forgotten /\ misjudged' = misjudged
      /\ locals' = locals /\ moved' = moved /\ consumed' = consumed
      /\ diverges' = TRUE /\ dead' = TRUE /\ frames' = frames
  BY <1>2 DEF Return
<1>5. PICK g : Writes(h, g, s, 0)
  BY <1>1, <1>3, <1>4, WritesExists
<1>6. ReturnOK(g, Size(g))
  <2>1. Unclosed(InScope, dead) = {}
    BY <1>4 DEF Write
  <2>2. dead \/ \A v \in InScope : kind[v] = "handle" => v \in consumed
    BY <2>1 DEF Unclosed
  <2>3. g.kind = kind
    BY <1>4, <1>5 DEF Writes, Write
  <2> QED
    <3>1. /\ Pt(g, Size(g)).loc = InScope /\ Pt(g, Size(g)).c = consumed
          /\ Pt(g, Size(g)).d = dead /\ Pt(g, Size(g)).dp = Len(frames)
      BY <1>1, <1>5, Here
    <3>2. Pt(g, Size(g) + 1).dp = Len(frames)
      BY <1>4, <1>5 DEF Writes
    <3> QED
      BY <2>2, <2>3, <3>1, <3>2 DEF ReturnOK, AllClosed
<1>7. Op(g, Size(g)) = "return"
  BY <1>3, <1>5 DEF Writes
<1>8. Good(g, Size(g)) /\ s.op \notin Openers /\ s.op # "let"
  BY <1>3, <1>6, <1>7 DEF Good, Openers, Loops
<1> QED
  BY <1>1, <1>3, <1>4, <1>5, <1>8, PlainStep

\* An opener keeps it.
LEMMA OpenChecked ==
  ASSUME Checked, CheckTypes, CheckTypes', NEW op \in Openers, Open(op)
  PROVE  Checked'
<1>1. PICK h, st : Checking(h, st)
  BY DEF Checked
<1>2. PICK s : s = [op |-> op]
  OBVIOUS
<1>3. s \in Plain \union Marks /\ s.op = op /\ op # "let"
  BY <1>2, MarkIsText DEF Openers, Loops
<1>4. /\ Write(s, FALSE)
      /\ forgotten' = forgotten /\ misjudged' = misjudged
      /\ locals' = locals /\ moved' = moved /\ consumed' = consumed
      /\ diverges' = FALSE /\ dead' = dead /\ frames' = Append(frames, Frame(op))
  BY <1>2 DEF Open
<1>5. PICK g : Writes(h, g, s, 0)
  BY <1>1, <1>3, <1>4, WritesExists
<1>6. PICK f : f = Frame(op)
  OBVIOUS
<1>7. /\ f \in Construct /\ f.op = op /\ f.base = Len(locals) /\ f.pre = moved /\ f.preC = consumed /\ f.dead = dead
  BY <1>6 DEF Frame, Construct, Depth, CheckTypes
<1>8. /\ frames \in Seq(Construct) /\ locals \in Seq(Binding) /\ Len(frames) \in Nat
      /\ frames' = Append(frames, f) /\ Len(frames') = Len(frames) + 1
  BY <1>4, <1>6, <1>7 DEF CheckTypes
<1>9. Op(g, Size(g)) = op
  BY <1>3, <1>5 DEF Writes
<1>10. OpenOK(g, Size(g))
  BY <1>1, <1>4, <1>5, <1>8, Here DEF OpenOK, Same, Writes, InScope
<1>11. Good(g, Size(g))
  BY <1>9, <1>10 DEF Good, Openers, Loops
<1>12. Annotated(g)
  <2>1. 0 \in 0 .. Size(h) /\ ToSet(locals') \subseteq InScope /\ s.op # "let"
    BY <1>1, <1>3, <1>4, <1>5, Here DEF InScope
  <2> QED
    BY <1>1, <1>4, <1>5, <1>11, <2>1, AnnotatedAgain
<1>13. OpenConstructs(g, frames', Append(st, Size(g)), locals)
  <2>1. /\ Extends(h, g) /\ OpenConstructs(h, frames, st, locals) /\ Refers(h) /\ Typed(h)
        /\ Pt(h, Size(h) + 1).dp = Len(frames) /\ Pt(h, Size(h) + 1).loc = ToSet(locals)
        /\ f.pre = Pt(h, Size(h) + 1).m /\ f.preC = Pt(h, Size(h) + 1).c /\ f.dead = Pt(h, Size(h) + 1).d
    BY <1>1, <1>5, <1>7, Here DEF Annotated, InScope
  <2>2. /\ Op(g, Size(g)) = f.op /\ At(g, Size(g)) = 0 /\ f.op \in Openers
        /\ Pt(g, Size(g) + 1).dp = Len(frames) + 1 /\ Pt(g, Size(g) + 1).d = Pt(h, Size(h) + 1).d
    BY <1>1, <1>4, <1>5, <1>7, <1>8, <1>9, Here DEF Writes
  <2>3. \A k \in 1 .. Len(frames) : frames[k].base <= Len(locals)
    BY FramesTyped
  <2> QED
    BY <1>7, <1>8, <2>1, <2>2, <2>3, OpenPushed
<1> QED
  BY <1>4, <1>5, <1>12, <1>13, CheckingAgain
-----------------------------------------------------------------------------
(* Checking: branches *)

\* Nothing that is declared since base and still open is a handle.
Tidy(base) == dead \/ \A v \in Above(locals, base) : kind[v] = "handle" => v \in consumed

\* What the scan at the end of a scope finds.
LEMMA TidyIs ==
  ASSUME NEW base, Unclosed(Since(base), dead) = {}
  PROVE  Tidy(base)
BY DEF Unclosed, Since, Tidy, Above

\* The construct at k, where it was entered and what the point reached owes it.
LEMMA FrameHere ==
  ASSUME NEW h, NEW st, Checking(h, st), CheckTypes, NEW k \in 1 .. Len(frames)
  PROVE  /\ Carried(h, frames[k], st[k], k, locals)
         /\ st[k] \in 1 .. Size(h) /\ st[k] \in 0 .. Size(h)
         /\ Pt(h, st[k]).dp = k - 1
         /\ Op(h, st[k]) = IF frames[k].op = "else" THEN "if" ELSE frames[k].op
         /\ frames[k].pre = Pt(h, st[k]).m /\ frames[k].preC = Pt(h, st[k]).c /\ frames[k].dead = Pt(h, st[k]).d
         /\ Pt(h, st[k]).loc = Below(locals, frames[k].base)
         /\ (Pt(h, st[k]).d => dead)
         /\ Edges(h, frames[k], st[k])
         /\ Pt(h, st[k]).loc \subseteq InScope
         /\ \A e \in 1 .. Len(frames) : e <= k => (Pt(h, st[e]).d => Pt(h, st[k]).d)
<1>1. OpenConstructs(h, frames, st, locals) /\ Pt(h, Size(h) + 1).d = dead
  BY DEF Checking, Reached
<1>2. Carried(h, frames[k], st[k], k, locals)
  BY <1>1 DEF OpenConstructs
<1>3. Pt(h, st[k]).loc \subseteq InScope
  <2>1. frames[k].base \in 0 .. Len(locals) /\ locals \in Seq(Binding)
    BY FramesTyped DEF CheckTypes
  <2>2. InScope = Below(locals, frames[k].base) \union Above(locals, frames[k].base)
    BY <2>1, BelowAbove DEF InScope
  <2> QED
    BY <1>2, <2>2 DEF Carried, Scoped
<1>4. \A e \in 1 .. Len(frames) : e <= k => (Pt(h, st[e]).d => Pt(h, st[k]).d)
  <2>1. Nested(h, frames, st)
    BY <1>1 DEF OpenConstructs
  <2> QED
    BY <2>1 DEF Nested
<1> QED
  BY <1>1, <1>2, <1>3, <1>4 DEF Carried, Entered, Scoped

\* A point inside an open construct leaves it, if what it declared is closed.
LEMMA LeavesFrom ==
  ASSUME NEW h, NEW st, Checking(h, st), CheckTypes, NEW k \in 1 .. Len(frames),
         Tidy(frames[k].base),
         NEW g, NEW s, NEW a, Writes(h, g, s, a)
  PROVE  Leaves(g, Size(g), st[k])
<1>0. PICK n \in Nat : n = Size(h) /\ Size(g) = n + 1
  BY Here
<1>1. Carried(h, frames[k], st[k], k, locals)
  BY FrameHere
<1>2. /\ Pt(h, n + 1).loc = InScope /\ Pt(h, n + 1).c = consumed /\ Pt(h, n + 1).d = dead /\ h.kind = kind
  BY <1>0, Here
<1>3. frames[k].base \in 0 .. Len(locals) /\ locals \in Seq(Binding)
  BY FramesTyped DEF CheckTypes
<1>4. InScope = Below(locals, frames[k].base) \union Above(locals, frames[k].base)
  BY <1>3, BelowAbove DEF InScope
<1>5. Pt(h, st[k]).loc = Below(locals, frames[k].base) /\ Pt(h, st[k]).loc \subseteq InScope
  BY <1>1, <1>4 DEF Carried, Scoped
<1>6. \A v \in InScope \ Pt(h, st[k]).loc : v \in Above(locals, frames[k].base)
  BY <1>4, <1>5
<1>7. n + 1 - 1 = n
  BY <1>0
<1>8. \A v \in InScope \ Pt(h, st[k]).loc : \E q \in st[k] + 1 .. n : Op(h, q) = "let" /\ h.text[q].v = v
  BY <1>0, <1>1, <1>6 DEF Carried, Scoped
<1>9. st[k] \in 1 .. n /\ Within(h, st[k], n + 1) /\ (Pt(h, st[k]).d => dead)
  BY <1>0, <1>1, <1>2 DEF Carried, Entered
<1>10. dead \/ \A v \in InScope \ Pt(h, st[k]).loc : kind[v] = "handle" => v \in consumed
  BY <1>6 DEF Tidy
<1>11. Leaves(h, n + 1, st[k])
  BY <1>2, <1>5, <1>7, <1>8, <1>9, <1>10 DEF Leaves
<1>12. n + 1 \in 1 .. Size(h) + 1 /\ Extends(h, g)
  BY <1>0, Here
<1> QED
  BY <1>0, <1>11, <1>12, LeavesGrow

\* Leaving the innermost construct leaves the others with their locals.
LEMMA CoversCut ==
  ASSUME CheckTypes, frames # <<>>, locals' = SubSeq(locals, 1, Top.base), NEW g
  PROVE  /\ \A k \in 1 .. Len(frames) : Covers(g, locals, locals', frames[k].base)
         /\ ToSet(locals') = Below(locals, Top.base)
<1>1. /\ Len(frames) \in 1 .. Len(frames) /\ Len(frames) \in Nat
      /\ Top = frames[Len(frames)] /\ Top.base \in 0 .. Len(locals)
  BY TopTyped
<1>2. locals \in Seq(Binding) /\ Len(locals) \in Nat
  BY DEF CheckTypes
<1>3. Len(locals') = Top.base
  BY <1>1, <1>2, Cut
<1>4. ToSet(locals') = Below(locals, Top.base)
  BY DEF Below
<1>5. ASSUME NEW k \in 1 .. Len(frames) PROVE Covers(g, locals, locals', frames[k].base)
  <2>1. frames[k].base \in 0 .. Top.base
    <3>1. frames[k].base \in Nat
      BY FramesTyped
    <3>2. frames[k].base <= Top.base
      <4>1. CASE k = Len(frames)
        BY <1>1, <3>1, <4>1
      <4>2. CASE k < Len(frames)
        BY <1>1, <4>2, FramesTyped
      <4> QED
        BY <1>1, <4>1, <4>2
    <3> QED
      BY <1>1, <3>1, <3>2
  <2>2. Below(locals', frames[k].base) = Below(locals, frames[k].base)
        /\ Above(locals', frames[k].base) \subseteq Above(locals, frames[k].base)
    BY <1>1, <1>2, <2>1, BelowCut
  <2> QED
    BY <1>3, <2>1, <2>2 DEF Covers
<1> QED
  BY <1>4, <1>5

\* An arm ends and the next one begins where the first one did.
LEMMA ArmStep ==
  ASSUME NEW h, NEW st, Checking(h, st), CheckTypes, CheckTypes', frames # <<>>,
         NEW g, NEW s, Writes(h, g, s, st[Len(frames)]),
         NEW f \in Construct, f.base = Top.base, f.dead = Top.dead, f.pre = Top.pre, f.preC = Top.preC,
         \/ s.op = "else" /\ Top.op = "if" /\ f.op = "else"
         \/ s.op = "case" /\ Top.op = "match" /\ f.op = "match",
         Edges(g, f, st[Len(frames)]),
         Tidy(Top.base),
         locals' = SubSeq(locals, 1, Top.base), moved' = Top.pre, consumed' = Top.preC,
         dead' = Top.dead, diverges' = FALSE, frames' = [frames EXCEPT ![Len(frames)] = f]
  PROVE  Checked'
<1>1. PICK m \in Nat : m = Len(frames) /\ m \in 1 .. Len(frames) /\ Top = frames[m]
  BY TopTyped
<1>2. PICK i : i = st[m]
  OBVIOUS
<1>3. /\ i \in 1 .. Size(h) /\ i \in 0 .. Size(h) /\ Pt(h, i).dp = m - 1
      /\ Op(h, i) = IF Top.op = "else" THEN "if" ELSE Top.op
      /\ Top.pre = Pt(h, i).m /\ Top.preC = Pt(h, i).c /\ Top.dead = Pt(h, i).d
      /\ Pt(h, i).loc = Below(locals, Top.base) /\ Pt(h, i).loc \subseteq InScope
      /\ \A e \in 1 .. Len(frames) : Pt(h, st[e]).d => Pt(h, i).d
  BY <1>1, <1>2, FrameHere
<1>4. /\ Size(h) \in Nat /\ Size(g) = Size(h) + 1 /\ Extends(h, g)
      /\ Pt(g, Size(g)).dp = m /\ OpenConstructs(h, frames, st, locals)
  BY <1>1, Here
<1>5. Pt(g, i) = Pt(h, i) /\ Op(g, i) = Op(h, i)
  BY <1>3, <1>4 DEF Extends, Op
<1>6. Leaves(g, Size(g), i)
  BY <1>1, <1>2, LeavesFrom
<1>7. ToSet(locals') = Pt(h, i).loc /\ \A k \in 1 .. Len(frames) : Covers(g, locals, locals', frames[k].base)
  BY <1>3, CoversCut
<1>8. Same(Pt(g, i), Pt(g, Size(g) + 1))
  BY <1>3, <1>5, <1>7 DEF Same, Writes
<1>9. Len(frames') = Len(frames)
  BY DEF CheckTypes
<1>10. /\ Op(g, Size(g)) = s.op /\ At(g, Size(g)) = i /\ Pt(g, Size(g) + 1).dp = m /\ Pt(g, Size(g) + 1).d = Pt(h, i).d
  BY <1>1, <1>2, <1>3, <1>9 DEF Writes
<1>11. \/ s.op = "else" /\ ArmOK(g, Size(g), "if")
       \/ s.op = "case" /\ ArmOK(g, Size(g), "match")
  BY <1>1, <1>3, <1>4, <1>5, <1>6, <1>8, <1>10 DEF ArmOK
<1>12. Good(g, Size(g)) /\ s.op \notin Openers /\ s.op # "let"
  BY <1>10, <1>11 DEF Good, Openers, Loops
<1>13. Annotated(g)
  <2>1. ToSet(locals') \subseteq InScope
    BY <1>3, <1>7
  <2> QED
    BY <1>1, <1>2, <1>3, <1>12, <2>1, AnnotatedAgain
<1>14. OpenConstructs(g, frames', st, locals')
  <2>1. frames \in Seq(Construct)
    BY DEF CheckTypes
  <2>2. \/ f.op = frames[m].op
        \/ frames[m].op = "if" /\ f.op = "else" /\ Op(g, Size(g)) = "else"
    BY <1>1, <1>10
  <2>3. \A k \in 1 .. Len(frames) : Pt(h, st[k]).d => Pt(g, Size(g) + 1).d
    BY <1>3, <1>10
  <2>4. f.base = frames[m].base /\ f.dead = frames[m].dead /\ f.pre = frames[m].pre /\ f.preC = frames[m].preC
    BY <1>1
  <2>5. Edges(g, f, st[m]) /\ At(g, Size(g)) = st[m] /\ Op(g, Size(g)) \notin Openers /\ Pt(g, Size(g) + 1).dp = Len(frames)
    BY <1>1, <1>2, <1>10, <1>12
  <2> QED
    BY <1>1, <1>4, <1>7, <2>1, <2>2, <2>3, <2>4, <2>5, OpenChanged
<1> QED
  BY <1>13, <1>14, CheckingAgain

\* Which statements the annotation grown by one refers to a construct with.
LEMMA ReferrersGrow ==
  ASSUME NEW h, NEW st, Checking(h, st), CheckTypes, NEW g, NEW s, NEW a,
         Writes(h, g, s, a),
         NEW p \in 1 .. Size(g)
  PROVE  \/ p \in 1 .. Size(h) /\ At(g, p) = At(h, p) /\ Op(g, p) = Op(h, p) /\ Pt(g, p) = Pt(h, p)
         \/ /\ p = Size(g) /\ At(g, p) = a /\ Op(g, p) = s.op
            /\ Pt(g, p).m = moved /\ Pt(g, p).c = consumed /\ Pt(g, p).d = dead /\ Pt(g, p).dv = diverges
<1>1. Size(h) \in Nat /\ Size(g) = Size(h) + 1 /\ Extends(h, g)
  BY Here
<1>2. CASE p = Size(g)
  BY <1>2, Here DEF Writes
<1>3. CASE p \in 1 .. Size(h)
  <2>1. p \in 1 .. Size(h) + 1
    BY <1>1
  <2> QED
    BY <1>1, <1>3, <2>1 DEF Extends, Op
<1> QED
  BY <1>1, <1>2, <1>3

\* The second branch of an `if`.
LEMMA ElseChecked ==
  ASSUME Checked, CheckTypes, CheckTypes', Else, phase' = "check"
  PROVE  Checked'
<1>1. PICK h, st : Checking(h, st)
  BY DEF Checked
<1>2. PICK s : s = [op |-> "else"]
  OBVIOUS
<1>3. s \in Plain \union Marks /\ s.op = "else"
  BY <1>2, MarkIsText
<1>4. PICK f : f = [Top EXCEPT !.op = "else", !.acc = moved, !.accC = consumed, !.left = diverges]
  OBVIOUS
<1>5. /\ frames # <<>> /\ Top.op = "if"
      /\ Write(s, Unclosed(Since(Top.base), dead) # {})
      /\ locals' = SubSeq(locals, 1, Top.base) /\ moved' = Top.pre /\ consumed' = Top.preC
      /\ dead' = Top.dead /\ diverges' = FALSE /\ forgotten' = forgotten /\ misjudged' = misjudged
      /\ frames' = [frames EXCEPT ![Len(frames)] = f]
  BY <1>2, <1>4, TopTyped DEF Else
<1>6. PICK i : i = st[Len(frames)]
  OBVIOUS
<1>7. PICK g : Writes(h, g, s, i)
  BY <1>1, <1>3, <1>5, WritesExists
<1>8. Top \in Construct /\ Len(frames) \in 1 .. Len(frames) /\ Top = frames[Len(frames)]
  BY <1>5, TopTyped
<1>9. /\ f \in Construct /\ f.op = "else" /\ f.base = Top.base /\ f.dead = Top.dead /\ f.pre = Top.pre /\ f.preC = Top.preC
      /\ f.acc = moved /\ f.accC = consumed /\ f.left = diverges
  <2>1. f \in Construct
    BY <1>4, <1>8, ArmsTyped
  <2> QED
    BY <1>4, <1>8, <2>1 DEF Construct
<1>10. Tidy(Top.base)
  BY <1>5, TidyIs DEF Write
<1>11. Edges(h, Top, i)
  BY <1>1, <1>6, <1>8, FrameHere
<1>12. Edges(g, f, i)
  <2>1. ASSUME NEW p \in 1 .. Size(g), At(g, p) = i, Op(g, p) = "else"
        PROVE  f.acc = Pt(g, p).m /\ f.accC = Pt(g, p).c /\ f.left = Pt(g, p).dv
    <3>1. ~(p \in 1 .. Size(h) /\ At(h, p) = i /\ Op(h, p) = "else")
      BY <1>5, <1>11 DEF Edges
    <3> QED
      BY <1>1, <1>7, <1>9, <2>1, <3>1, ReferrersGrow
  <2> QED
    BY <1>9, <2>1 DEF Edges, Loops
<1> QED
  BY <1>1, <1>3, <1>5, <1>6, <1>7, <1>9, <1>10, <1>12, ArmStep

\* The next arm of a `match`.
LEMMA CaseChecked ==
  ASSUME Checked, CheckTypes, CheckTypes', Case, phase' = "check"
  PROVE  Checked'
<1>1. PICK h, st : Checking(h, st)
  BY DEF Checked
<1>2. PICK s : s = [op |-> "case"]
  OBVIOUS
<1>3. s \in Plain \union Marks /\ s.op = "case"
  BY <1>2, MarkIsText
<1>4. PICK f : f = WithArm(Top)
  OBVIOUS
<1>5. /\ frames # <<>> /\ Top.op = "match"
      /\ Write(s, Unclosed(Since(Top.base), Top.dead) # {})
      /\ locals' = SubSeq(locals, 1, Top.base) /\ moved' = Top.pre /\ consumed' = Top.preC
      /\ dead' = Top.dead /\ diverges' = FALSE /\ forgotten' = forgotten /\ misjudged' = misjudged
      /\ frames' = [frames EXCEPT ![Len(frames)] = f]
  BY <1>2, <1>4 DEF Case
<1>6. PICK i : i = st[Len(frames)]
  OBVIOUS
<1>7. PICK g : Writes(h, g, s, i)
  BY <1>1, <1>3, <1>5, WritesExists
<1>8. Top \in Construct /\ Len(frames) \in 1 .. Len(frames) /\ Top = frames[Len(frames)]
  BY <1>5, TopTyped
<1>9. /\ f \in Construct /\ f.op = "match" /\ f.base = Top.base /\ f.dead = Top.dead /\ f.pre = Top.pre /\ f.preC = Top.preC
  BY <1>4, <1>5, <1>8, ArmsTyped
<1>10. Tidy(Top.base)
  <2>1. Unclosed(Since(Top.base), Top.dead) = {}
    BY <1>5 DEF Write
  <2>2. Top.dead => dead
    BY <1>1, <1>8, FrameHere
  <2> QED
    BY <2>1, <2>2 DEF Unclosed, Since, Tidy, Above
<1>11. Edges(h, Top, i)
  BY <1>1, <1>6, <1>8, FrameHere
<1>12. /\ Top.acc \subseteq f.acc /\ f.accC \subseteq Top.accC
       /\ diverges \/ (moved \subseteq f.acc /\ f.accC \subseteq consumed)
  BY <1>4, <1>8 DEF WithArm, Construct
<1>13. Edges(g, f, i)
  <2>1. ASSUME NEW p \in 1 .. Size(g), At(g, p) = i, Op(g, p) = "case"
        PROVE  Pt(g, p).dv \/ (Pt(g, p).m \subseteq f.acc /\ f.accC \subseteq Pt(g, p).c)
    <3>1. p \in 1 .. Size(h) /\ At(h, p) = i /\ Op(h, p) = "case"
            => Pt(h, p).dv \/ (Pt(h, p).m \subseteq Top.acc /\ Top.accC \subseteq Pt(h, p).c)
      BY <1>5, <1>11 DEF Edges
    <3> QED
      BY <1>1, <1>7, <1>12, <2>1, <3>1, ReferrersGrow
  <2> QED
    BY <1>9, <2>1 DEF Edges, Loops
<1> QED
  BY <1>1, <1>3, <1>5, <1>6, <1>7, <1>9, <1>10, <1>13, ArmStep

\* The innermost construct ends.
LEMMA EndStep ==
  ASSUME NEW h, NEW st, Checking(h, st), CheckTypes, CheckTypes', frames # <<>>,
         NEW g, NEW s, s.op = "end", Writes(h, g, s, st[Len(frames)]),
         NEW f, f.base = Top.base, f.dead = Top.dead, NEW div \in BOOLEAN,
         Leave(f, div),
         EndOK(g, Size(g))
  PROVE  Checked'
<1>1. PICK m \in Nat : m = Len(frames) /\ m \in 1 .. Len(frames) /\ Top = frames[m]
  BY TopTyped
<1>2. PICK i : i = st[m]
  OBVIOUS
<1>3. /\ i \in 0 .. Size(h) /\ Top.dead = Pt(h, i).d
      /\ Pt(h, i).loc = Below(locals, Top.base) /\ Pt(h, i).loc \subseteq InScope
  BY <1>1, <1>2, FrameHere
<1>4. locals' = SubSeq(locals, 1, Top.base) /\ dead' = (Top.dead \/ div) /\ diverges' = div /\ frames' = Front(frames)
  BY DEF Leave
<1>5. ToSet(locals') = Pt(h, i).loc /\ \A k \in 1 .. Len(frames) : Covers(g, locals, locals', frames[k].base)
  BY <1>3, <1>4, CoversCut
<1>6. Op(g, Size(g)) = "end"
  BY DEF Writes
<1>7. Good(g, Size(g))
  BY <1>6 DEF Good, Openers, Loops
<1>8. Annotated(g)
  <2>1. diverges' => dead'
    BY <1>4
  <2>2. ToSet(locals') \subseteq InScope /\ s.op # "let"
    BY <1>3, <1>5
  <2> QED
    BY <1>1, <1>2, <1>3, <1>7, <2>1, <2>2, AnnotatedAgain
<1>9. OpenConstructs(g, frames', Front(st), locals')
  <2>1. frames \in Seq(Construct) /\ Len(frames') = Len(frames) - 1
    BY <1>4, Popped DEF CheckTypes
  <2>2. Extends(h, g) /\ OpenConstructs(h, frames, st, locals)
    BY Here
  <2>3. At(g, Size(g)) = st[Len(frames)] /\ Pt(g, Size(g) + 1).dp = Len(frames) - 1 /\ Pt(g, Size(g) + 1).d = dead'
    BY <2>1 DEF Writes
  <2>4. Pt(h, st[Len(frames)]).d => Pt(g, Size(g) + 1).d
    BY <1>1, <1>2, <1>3, <1>4, <2>3
  <2>5. \A k \in 1 .. Len(frames) - 1 : Covers(g, locals, locals', frames[k].base)
    BY <1>1, <1>5
  <2> QED
    BY <1>4, <1>6, <2>1, <2>2, <2>3, <2>4, <2>5, OpenPopped
<1> QED
  BY <1>8, <1>9, CheckingAgain

\* How a construct that is entered at i ends: all of EndOK but the edges.
Ending(h, g, i) ==
  /\ At(g, Size(g)) = i /\ i \in 1 .. Size(h)
  /\ Leaves(g, Size(g), i)
  /\ Op(g, i) = IF Top.op = "else" THEN "if" ELSE Top.op
  /\ Op(g, i) \in Openers
  /\ Pt(g, Size(g)).dp = Pt(g, i).dp + 1 /\ Pt(g, Size(g) + 1).dp = Pt(g, i).dp
  /\ Pt(g, Size(g) + 1).loc = Pt(g, i).loc
  /\ Pt(g, i).loc = Below(locals, Top.base)
  /\ Pt(g, i).m = Top.pre /\ Pt(g, i).c = Top.preC /\ Pt(g, i).d = Top.dead
  /\ (Top.dead => dead)

\* Everything EndOK asks for but the edges holds at the end of any construct.
LEMMA EndShape ==
  ASSUME NEW h, NEW st, Checking(h, st), CheckTypes, CheckTypes', frames # <<>>,
         NEW g, NEW s, s.op = "end", Writes(h, g, s, st[Len(frames)]),
         NEW f, f.base = Top.base, f.dead = Top.dead, NEW div \in BOOLEAN,
         Leave(f, div),
         Tidy(Top.base), NEW i, i = st[Len(frames)]
  PROVE  Ending(h, g, i)
<1>1. PICK m \in Nat : m = Len(frames) /\ m \in 1 .. Len(frames) /\ Top = frames[m] /\ Top \in Construct
  BY TopTyped
<1>2. i = st[m]
  BY <1>1
<1>3. /\ i \in 1 .. Size(h) /\ Pt(h, i).dp = m - 1
      /\ Op(h, i) = IF Top.op = "else" THEN "if" ELSE Top.op
      /\ Top.pre = Pt(h, i).m /\ Top.preC = Pt(h, i).c /\ Top.dead = Pt(h, i).d
      /\ Pt(h, i).loc = Below(locals, Top.base) /\ (Pt(h, i).d => dead)
  BY <1>1, <1>2, FrameHere
<1>4. /\ Size(h) \in Nat /\ Size(g) = Size(h) + 1 /\ Extends(h, g) /\ Pt(g, Size(g)).dp = m
  BY <1>1, Here
<1>5. Pt(g, i) = Pt(h, i) /\ Op(g, i) = Op(h, i)
  BY <1>3, <1>4 DEF Extends, Op
<1>6. Leaves(g, Size(g), i)
  BY <1>1, <1>2, LeavesFrom
<1>7. ToSet(locals') = Below(locals, Top.base)
  BY CoversCut DEF Leave
<1>8. Len(frames') = m - 1
  BY <1>1, Popped DEF CheckTypes, Leave
<1>9. Op(g, i) \in Openers
  BY <1>1, <1>3, <1>5 DEF Construct, Openers, Loops
<1>10. /\ At(g, Size(g)) = i /\ Pt(g, Size(g) + 1).loc = ToSet(locals') /\ Pt(g, Size(g) + 1).dp = Len(frames')
  BY <1>1, <1>2 DEF Writes
<1>11. m - 1 + 1 = m
  BY <1>1
<1> QED
  BY <1>1, <1>3, <1>4, <1>5, <1>6, <1>7, <1>8, <1>9, <1>10, <1>11 DEF Ending

\* An edge that loses nothing.
LEMMA FlowIn ==
  ASSUME NEW g, NEW x, NEW q,
         ~Pt(g, x).d => /\ ~Pt(g, q).d
                        /\ Pt(g, x).m \subseteq Pt(g, q).m
                        /\ Pt(g, q).c \subseteq Pt(g, x).c
  PROVE  Flows(g, x, q)
BY DEF Flows

\* A statement that refers to a construct, by the kind of the construct.
LEMMA Referrer ==
  ASSUME NEW h, Annotated(h), NEW e \in 1 .. Size(h), NEW i, i = At(h, e)
  PROVE  /\ Op(h, e) = "else" => Op(h, i) = "if" /\ (Pt(h, i).d => Pt(h, e).d)
         /\ Op(h, e) = "case" => Op(h, i) = "match" /\ (Pt(h, i).d => Pt(h, e).d)
         /\ Op(h, e) \in {"break", "continue"} => Op(h, i) \in Loops /\ (Pt(h, i).d => Pt(h, e).d)
         /\ (Pt(h, e).dv => Pt(h, e).d)
<1>1. Good(h, e)
  BY DEF Annotated
<1>2. Op(h, e) = "else" => ArmOK(h, e, "if")
  BY <1>1 DEF Good
<1>3. Op(h, e) = "case" => ArmOK(h, e, "match")
  BY <1>1 DEF Good
<1>4. Op(h, e) \in {"break", "continue"} => JumpOK(h, e)
  BY <1>1 DEF Good
<1>5. e \in 1 .. Size(h) + 1
  <2>1. Size(h) \in Nat
    BY DEF Annotated, Size
  <2> QED
    BY <2>1
<1>6. (Pt(h, e).dv => Pt(h, e).d)
  BY <1>5 DEF Annotated, Typed
<1> QED
  BY <1>2, <1>3, <1>4, <1>6 DEF ArmOK, JumpOK, Leaves

\* A join covers each branch that reaches it.
LEMMA JoinTakes ==
  ASSUME NEW one, NEW two, NEW f, one.left \in BOOLEAN, two.left \in BOOLEAN
  PROVE  /\ ~one.left => one.m \subseteq Join(one, two, f).m /\ Join(one, two, f).c \subseteq one.c
         /\ ~two.left => two.m \subseteq Join(one, two, f).m /\ Join(one, two, f).c \subseteq two.c
BY DEF Join, MergeMoved, MergeConsumed

\* At the end of an `if` both branches flow into the join.
LEMMA EndIfChecked ==
  ASSUME Checked, CheckTypes, CheckTypes', EndIf, phase' = "check"
  PROVE  Checked'
<1>1. PICK h, st : Checking(h, st)
  BY DEF Checked
<1>2. PICK s : s = [op |-> "end"]
  OBVIOUS
<1>3. s \in Plain \union Marks /\ s.op = "end"
  BY <1>2, MarkIsText
<1>4. PICK one, two : one = Branches(Top)[1] /\ two = Branches(Top)[2]
  OBVIOUS
<1>5. PICK j : j = Join(one, two, Top)
  OBVIOUS
<1>6. PICK e : e = (\/ Unclosed(Since(Top.base), dead) # {}
                    \/ Handles(Outer(Top) \intersect j.wedged) # {})
  OBVIOUS
<1>7. /\ frames # <<>> /\ Top.op \in {"if", "else"}
      /\ Write(s, e)
      /\ moved' = j.m /\ consumed' = j.c /\ Leave(Top, one.left /\ two.left)
      /\ forgotten' = forgotten /\ misjudged' = misjudged
  BY <1>2, <1>4, <1>5, <1>6 DEF EndIf
<1>8. PICK i : i = st[Len(frames)]
  OBVIOUS
<1>9. PICK g : Writes(h, g, s, i)
  BY <1>1, <1>3, <1>7, WritesExists
<1>10. Top \in Construct /\ Len(frames) \in 1 .. Len(frames) /\ Top = frames[Len(frames)]
  BY <1>7, TopTyped
<1>11. Tidy(Top.base)
  <2>1. e = FALSE
    BY <1>6, <1>7 DEF Write
  <2> QED
    BY <1>6, <2>1, TidyIs
<1>12. one.left \in BOOLEAN /\ two.left \in BOOLEAN
  BY <1>4, <1>10 DEF Branches, Construct, CheckTypes
<1>13. /\ At(g, Size(g)) = i /\ i \in 1 .. Size(h)
       /\ Leaves(g, Size(g), i)
       /\ Op(g, i) = "if"
       /\ Op(g, i) \in Openers
       /\ Pt(g, Size(g)).dp = Pt(g, i).dp + 1 /\ Pt(g, Size(g) + 1).dp = Pt(g, i).dp
       /\ Pt(g, Size(g) + 1).loc = Pt(g, i).loc
       /\ Pt(g, i).m = Top.pre /\ Pt(g, i).c = Top.preC /\ Pt(g, i).d = Top.dead
       /\ (Top.dead => dead)
  <2>1. Ending(h, g, i)
    BY <1>1, <1>3, <1>7, <1>8, <1>9, <1>11, <1>12, EndShape
  <2> QED
    BY <1>7, <2>1 DEF Ending
<1>14. /\ Pt(g, Size(g) + 1).m = j.m /\ Pt(g, Size(g) + 1).c = j.c
       /\ Pt(g, Size(g) + 1).d = (Top.dead \/ (one.left /\ two.left))
  BY <1>7, <1>9 DEF Writes, Leave
<1>15. /\ Pt(g, Size(g)).m = moved /\ Pt(g, Size(g)).c = consumed /\ Pt(g, Size(g)).d = dead
       /\ Annotated(h) /\ Extends(h, g) /\ Size(h) \in Nat /\ Size(g) = Size(h) + 1
  BY <1>1, <1>9, Here
<1>16. diverges => dead
  <2>1. Size(h) + 1 \in 1 .. Size(h) + 1
    BY <1>15
  <2> QED
    BY <1>1, <1>9, <1>15, <2>1, Here DEF Annotated, Typed
<1>17. /\ ~one.left => one.m \subseteq j.m /\ j.c \subseteq one.c
       /\ ~two.left => two.m \subseteq j.m /\ j.c \subseteq two.c
  BY <1>5, <1>12, JoinTakes
<1>18. Edges(h, Top, i)
  BY <1>1, <1>8, <1>10, FrameHere
<1>19. ASSUME NEW x \in 1 .. Size(g) - 1, At(g, x) = i
       PROVE  /\ x \in 1 .. Size(h) /\ At(h, x) = i /\ Op(g, x) = Op(h, x) /\ Pt(g, x) = Pt(h, x)
              /\ Op(g, x) \notin {"case", "break", "continue"}
              /\ Op(g, x) = "else" => (Top.dead => Pt(g, x).d) /\ (Pt(g, x).dv => Pt(g, x).d)
  <2>1. x \in 1 .. Size(h) /\ x \in 1 .. Size(h) + 1 /\ i \in 1 .. Size(h) + 1
    BY <1>13, <1>15
  <2>2. At(h, x) = i /\ Op(g, x) = Op(h, x) /\ Pt(g, x) = Pt(h, x) /\ Op(g, i) = Op(h, i) /\ Pt(g, i) = Pt(h, i)
    BY <1>13, <1>15, <1>19, <2>1 DEF Extends, Op
  <2> QED
    BY <1>13, <1>15, <2>1, <2>2, Referrer DEF Loops
<1>20. EndOK(g, Size(g))
  <2>1. CASE Top.op = "if"
    <3>1. /\ one.m = moved /\ one.c = consumed /\ one.left = diverges
          /\ two.m = Top.pre /\ two.c = Top.preC /\ two.left = FALSE
      BY <1>4, <2>1 DEF Branches
    <3>2. Flows(g, Size(g), Size(g) + 1)
      BY <1>13, <1>14, <1>15, <1>16, <1>17, <3>1, FlowIn
    <3>3. Flows(g, i, Size(g) + 1)
      BY <1>13, <1>14, <1>17, <3>1, FlowIn
    <3>4. \A x \in 1 .. Size(g) - 1 : At(g, x) = i => Op(g, x) \notin {"else", "case", "break", "continue"}
      BY <1>18, <1>19, <2>1 DEF Edges
    <3> QED
      BY <1>13, <3>2, <3>3, <3>4 DEF EndOK, Loops
  <2>2. CASE Top.op = "else"
    <3>1. /\ one.m = Top.acc /\ one.c = Top.accC /\ one.left = Top.left
          /\ two.m = moved /\ two.c = consumed /\ two.left = diverges
      BY <1>4, <2>2 DEF Branches
    <3>2. Flows(g, Size(g), Size(g) + 1)
      BY <1>13, <1>14, <1>15, <1>16, <1>17, <3>1, FlowIn
    <3>3. ASSUME NEW x \in 1 .. Size(g) - 1, At(g, x) = i, Op(g, x) = "else"
          PROVE  Flows(g, x, Size(g) + 1)
      <4>1. Top.acc = Pt(g, x).m /\ Top.accC = Pt(g, x).c /\ Top.left = Pt(g, x).dv
        BY <1>18, <1>19, <2>2, <3>3 DEF Edges
      <4> QED
        BY <1>14, <1>17, <1>19, <3>1, <3>3, <4>1, FlowIn
    <3>4. \E x \in 1 .. Size(g) - 1 : Op(g, x) = "else" /\ At(g, x) = i
      <4>1. Entered(h, Top, i, Len(frames))
        BY <1>1, <1>8, <1>10, FrameHere DEF Carried
      <4>2. PICK x \in 1 .. Size(h) : Op(h, x) = "else" /\ At(h, x) = i
        BY <2>2, <4>1 DEF Entered
      <4>3. x \in 1 .. Size(g) - 1
        BY <1>15
      <4> QED
        BY <1>15, <4>2, <4>3 DEF Extends, Op
    <3>5. \A x \in 1 .. Size(g) - 1 : At(g, x) = i => Op(g, x) \notin {"case", "break", "continue"}
      BY <1>19
    <3> QED
      BY <1>13, <3>2, <3>3, <3>4, <3>5 DEF EndOK, Loops
  <2> QED
    BY <1>7, <2>1, <2>2
<1> QED
  BY <1>1, <1>3, <1>7, <1>8, <1>9, <1>12, <1>20, EndStep

\* At the end of a `match` every arm that reaches it does.
LEMMA EndMatchChecked ==
  ASSUME Checked, CheckTypes, CheckTypes', EndMatch, phase' = "check"
  PROVE  Checked'
<1>1. PICK h, st : Checking(h, st)
  BY DEF Checked
<1>2. PICK s : s = [op |-> "end"]
  OBVIOUS
<1>3. s \in Plain \union Marks /\ s.op = "end"
  BY <1>2, MarkIsText
<1>4. PICK f : f = WithArm(Top)
  OBVIOUS
<1>5. PICK e : e = (\/ Unclosed(Since(f.base), f.dead) # {}
                    \/ Handles(Outer(f) \intersect (f.anyC \ f.accC)) # {})
  OBVIOUS
<1>0. PICK div \in BOOLEAN : div = FALSE
  OBVIOUS
<1>6. /\ frames # <<>> /\ Top.op = "match"
      /\ Write(s, e)
      /\ moved' = f.acc /\ consumed' = f.accC /\ Leave(f, div)
      /\ forgotten' = forgotten /\ misjudged' = misjudged
  BY <1>0, <1>2, <1>4, <1>5 DEF EndMatch
<1>7. PICK i : i = st[Len(frames)]
  OBVIOUS
<1>8. PICK g : Writes(h, g, s, i)
  BY <1>1, <1>3, <1>6, WritesExists
<1>9. Top \in Construct /\ Len(frames) \in 1 .. Len(frames) /\ Top = frames[Len(frames)]
  BY <1>6, TopTyped
<1>10. /\ f.base = Top.base /\ f.dead = Top.dead
       /\ Top.acc \subseteq f.acc /\ f.accC \subseteq Top.accC
       /\ diverges \/ (moved \subseteq f.acc /\ f.accC \subseteq consumed)
  BY <1>4, <1>9 DEF WithArm, Construct
<1>11. Tidy(Top.base)
  <2>1. Unclosed(Since(Top.base), Top.dead) = {}
    BY <1>5, <1>6, <1>10 DEF Write
  <2>2. Top.dead => dead
    BY <1>1, <1>9, FrameHere
  <2> QED
    BY <2>1, <2>2 DEF Unclosed, Since, Tidy, Above
<1>12. /\ At(g, Size(g)) = i /\ i \in 1 .. Size(h)
       /\ Leaves(g, Size(g), i)
       /\ Op(g, i) = "match"
       /\ Op(g, i) \in Openers
       /\ Pt(g, Size(g)).dp = Pt(g, i).dp + 1 /\ Pt(g, Size(g) + 1).dp = Pt(g, i).dp
       /\ Pt(g, Size(g) + 1).loc = Pt(g, i).loc
       /\ Pt(g, i).d = Top.dead
       /\ (Top.dead => dead)
  <2>1. Ending(h, g, i)
    BY <1>1, <1>3, <1>6, <1>7, <1>8, <1>10, <1>11, EndShape
  <2> QED
    BY <1>6, <2>1 DEF Ending
<1>13. /\ Pt(g, Size(g) + 1).m = f.acc /\ Pt(g, Size(g) + 1).c = f.accC
       /\ Pt(g, Size(g) + 1).d = (Top.dead \/ FALSE)
  BY <1>0, <1>6, <1>8, <1>10 DEF Writes, Leave
<1>14. /\ Pt(g, Size(g)).m = moved /\ Pt(g, Size(g)).c = consumed /\ Pt(g, Size(g)).d = dead
       /\ Annotated(h) /\ Extends(h, g) /\ Size(h) \in Nat /\ Size(g) = Size(h) + 1
  BY <1>1, <1>8, Here
<1>15. diverges => dead
  <2>1. Size(h) + 1 \in 1 .. Size(h) + 1
    BY <1>14
  <2> QED
    BY <1>1, <1>8, <1>14, <2>1, Here DEF Annotated, Typed
<1>16. Edges(h, Top, i)
  BY <1>1, <1>7, <1>9, FrameHere
<1>17. ASSUME NEW x \in 1 .. Size(g) - 1, At(g, x) = i
       PROVE  /\ x \in 1 .. Size(h) /\ At(h, x) = i /\ Op(g, x) = Op(h, x) /\ Pt(g, x) = Pt(h, x)
              /\ Op(g, x) \notin {"else", "break", "continue"}
              /\ Op(g, x) = "case" => (Top.dead => Pt(g, x).d) /\ (Pt(g, x).dv => Pt(g, x).d)
  <2>1. x \in 1 .. Size(h) /\ x \in 1 .. Size(h) + 1 /\ i \in 1 .. Size(h) + 1
    BY <1>12, <1>14
  <2>2. At(h, x) = i /\ Op(g, x) = Op(h, x) /\ Pt(g, x) = Pt(h, x) /\ Op(g, i) = Op(h, i) /\ Pt(g, i) = Pt(h, i)
    BY <1>12, <1>14, <1>17, <2>1 DEF Extends, Op
  <2> QED
    BY <1>12, <1>14, <2>1, <2>2, Referrer DEF Loops
<1>18. Flows(g, Size(g), Size(g) + 1)
  BY <1>10, <1>12, <1>13, <1>14, <1>15, FlowIn
<1>19. ASSUME NEW x \in 1 .. Size(g) - 1, At(g, x) = i, Op(g, x) = "case"
       PROVE  Flows(g, x, Size(g) + 1)
  <2>1. Pt(g, x).dv \/ (Pt(g, x).m \subseteq Top.acc /\ Top.accC \subseteq Pt(g, x).c)
    BY <1>6, <1>16, <1>17, <1>19 DEF Edges
  <2> QED
    BY <1>10, <1>13, <1>17, <1>19, <2>1, FlowIn
<1>20. EndOK(g, Size(g))
  <2>1. \A x \in 1 .. Size(g) - 1 : At(g, x) = i => Op(g, x) \notin {"else", "break", "continue"}
    BY <1>17
  <2> QED
    BY <1>12, <1>18, <1>19, <2>1 DEF EndOK, Loops
<1> QED
  BY <1>1, <1>3, <1>6, <1>7, <1>8, <1>10, <1>20, EndStep
-----------------------------------------------------------------------------
(* Checking: loops *)

\* What the end of a body adds to the back-edges of its loop.
LEMMA AtEndKeeps ==
  ASSUME NEW t \in Construct, NEW f, f = AtEnd(t)
  PROVE  /\ f.op = t.op /\ f.base = t.base /\ f.dead = t.dead /\ f.pre = t.pre /\ f.preC = t.preC
         /\ f.out = t.out /\ f.outC = t.outC
         /\ t.acc \subseteq f.acc /\ f.backC \subseteq t.backC
         /\ diverges \/ (moved \subseteq f.acc /\ f.backC \subseteq consumed)
BY DEF AtEnd, Back, AtBackEdge, Construct

\* At the end of a loop the breaks and a `for`'s own exit flow out of it, and the
\* back-edges to its top, up to what the checker forgets and misjudges there.
LEMMA EndLoopChecked ==
  ASSUME Checked, CheckTypes, CheckTypes', EndLoop, phase' = "check"
  PROVE  Checked'
<1>0. PICK div \in BOOLEAN : div = FALSE
  OBVIOUS
<1>1. PICK h, st : Checking(h, st)
  BY DEF Checked
<1>2. PICK s : s = [op |-> "end"]
  OBVIOUS
<1>3. s \in Plain \union Marks /\ s.op = "end"
  BY <1>2, MarkIsText
<1>4. PICK f : f = AtEnd(Top)
  OBVIOUS
<1>5. PICK e : e = (\/ Unclosed(Since(f.base), IF f.op = "for" THEN f.dead ELSE dead) # {}
                    \/ Outer(f) \intersect (f.acc \ f.pre) # {})
  OBVIOUS
<1>6. PICK O, after, exits : O = Outer(f) /\ after = After(f) /\ exits = Exits(f)
  OBVIOUS
<1>7. /\ frames # <<>> /\ Top.op \in Loops
      /\ Write(s, e)
      /\ moved' = after.m /\ consumed' = after.c /\ Leave(f, div)
      /\ forgotten' = forgotten \union (O \intersect (exits.m \ after.m))
      /\ misjudged' = misjudged \union (O \intersect ((after.c \ exits.c) \union (f.preC \ f.backC)))
  BY <1>0, <1>2, <1>4, <1>5, <1>6 DEF EndLoop
<1>8. PICK i : i = st[Len(frames)]
  OBVIOUS
<1>9. PICK g : Writes(h, g, s, i)
  BY <1>1, <1>3, <1>7, WritesExists
<1>10. Top \in Construct /\ Len(frames) \in 1 .. Len(frames) /\ Top = frames[Len(frames)]
  BY <1>7, TopTyped
<1>11. /\ f.op = Top.op /\ f.base = Top.base /\ f.dead = Top.dead /\ f.pre = Top.pre /\ f.preC = Top.preC
       /\ f.out = Top.out /\ f.outC = Top.outC
       /\ Top.acc \subseteq f.acc /\ f.backC \subseteq Top.backC
       /\ diverges \/ (moved \subseteq f.acc /\ f.backC \subseteq consumed)
  BY <1>4, <1>10, AtEndKeeps
<1>12. /\ Unclosed(Since(Top.base), IF f.op = "for" THEN Top.dead ELSE dead) = {}
       /\ O \intersect (f.acc \ f.pre) = {}
  <2>1. e = FALSE
    BY <1>5, <1>7 DEF Write
  <2> QED
    BY <1>5, <1>6, <1>11, <2>1
<1>13. Tidy(Top.base)
  <2>1. Top.dead => dead
    BY <1>1, <1>10, FrameHere
  <2> QED
    BY <1>12, <2>1 DEF Unclosed, Since, Tidy, Above
<1>14. /\ At(g, Size(g)) = i /\ i \in 1 .. Size(h)
       /\ Leaves(g, Size(g), i)
       /\ Op(g, i) = IF Top.op = "else" THEN "if" ELSE Top.op
       /\ Op(g, i) \in Openers
       /\ Pt(g, Size(g)).dp = Pt(g, i).dp + 1 /\ Pt(g, Size(g) + 1).dp = Pt(g, i).dp
       /\ Pt(g, Size(g) + 1).loc = Pt(g, i).loc
       /\ Pt(g, i).loc = Below(locals, Top.base)
       /\ Pt(g, i).m = Top.pre /\ Pt(g, i).c = Top.preC /\ Pt(g, i).d = Top.dead
       /\ (Top.dead => dead)
  <2>1. /\ frames # <<>> /\ Leave(f, div) /\ f.base = Top.base /\ f.dead = Top.dead
        /\ s.op = "end" /\ Writes(h, g, s, st[Len(frames)]) /\ i = st[Len(frames)]
    BY <1>3, <1>7, <1>8, <1>9, <1>11
  <2>2. Ending(h, g, i)
    BY <1>1, <1>13, <2>1, EndShape
  <2> QED
    BY <2>2 DEF Ending
<1>15. Op(g, i) = Top.op
  BY <1>7, <1>14 DEF Loops
<1>16. Pt(g, i).loc = O
  BY <1>6, <1>11, <1>14 DEF Outer, Below
<1>17. /\ Pt(g, Size(g) + 1).m = after.m /\ Pt(g, Size(g) + 1).c = after.c
       /\ Pt(g, Size(g) + 1).d = (Top.dead \/ FALSE)
       /\ g.forgotten = forgotten' /\ g.misjudged = misjudged'
  BY <1>0, <1>7, <1>9, <1>11 DEF Writes, Leave
<1>18. /\ Pt(g, Size(g)).m = moved /\ Pt(g, Size(g)).c = consumed /\ Pt(g, Size(g)).d = dead
       /\ Annotated(h) /\ Extends(h, g) /\ Size(h) \in Nat /\ Size(g) = Size(h) + 1
  BY <1>1, <1>9, Here
<1>19. diverges => dead
  <2>1. Size(h) + 1 \in 1 .. Size(h) + 1
    BY <1>18
  <2> QED
    BY <1>1, <1>9, <1>18, <2>1, Here DEF Annotated, Typed
<1>20. Edges(h, Top, i)
  BY <1>1, <1>8, <1>10, FrameHere
<1>21. ASSUME NEW x \in 1 .. Size(g) - 1, At(g, x) = i
       PROVE  /\ x \in 1 .. Size(h) /\ At(h, x) = i /\ Op(g, x) = Op(h, x) /\ Pt(g, x) = Pt(h, x)
              /\ Op(g, x) \notin {"else", "case"}
              /\ Op(g, x) \in {"break", "continue"} => (Top.dead => Pt(g, x).d)
  <2>1. x \in 1 .. Size(h) /\ x \in 1 .. Size(h) + 1 /\ i \in 1 .. Size(h) + 1
    BY <1>14, <1>18
  <2>2. At(h, x) = i /\ Op(g, x) = Op(h, x) /\ Pt(g, x) = Pt(h, x) /\ Op(g, i) = Op(h, i) /\ Pt(g, i) = Pt(h, i)
    BY <1>14, <1>18, <1>21, <2>1 DEF Extends, Op
  <2>3. Op(h, i) \in Loops
    BY <1>7, <1>15, <2>2
  <2> QED
    BY <1>14, <1>18, <2>1, <2>2, <2>3, Referrer DEF Loops
<1>22. ASSUME NEW x, Top.dead => Pt(g, x).d,
              Pt(g, x).d \/ (Pt(g, x).m \subseteq f.acc /\ f.backC \subseteq Pt(g, x).c)
       PROVE  Flows(g, x, i)
  <2>1. SUFFICES ASSUME ~Pt(g, x).d, NEW v \in O
                 PROVE  /\ v \in Pt(g, x).m => v \in Top.pre
                        /\ v \in Top.preC => v \in Pt(g, x).c \union misjudged'
    BY <1>14, <1>16, <1>17, <1>22 DEF Flows
  <2>2. v \in Pt(g, x).m => v \in Top.pre
    BY <1>11, <1>12, <1>22, <2>1
  <2>3. v \in Top.preC => v \in Pt(g, x).c \union misjudged'
    BY <1>7, <1>11, <1>22, <2>1
  <2> QED
    BY <2>2, <2>3
<1>23. ASSUME NEW x, Top.dead => Pt(g, x).d, Pt(g, x).m \subseteq exits.m, exits.c \subseteq Pt(g, x).c
       PROVE  Flows(g, x, Size(g) + 1)
  <2>1. SUFFICES ASSUME ~Pt(g, x).d, NEW v \in O
                 PROVE  /\ v \in Pt(g, x).m => v \in after.m \union forgotten'
                        /\ v \in after.c => v \in Pt(g, x).c \union misjudged'
    BY <1>14, <1>16, <1>17, <1>23 DEF Flows
  <2> QED
    BY <1>7, <1>23, <2>1
<1>24. Flows(g, Size(g), i)
  BY <1>11, <1>14, <1>18, <1>19, <1>22
<1>25. f.op = "for" => Flows(g, i, Size(g) + 1)
  <2>1. f.op = "for" => f.pre \subseteq exits.m /\ exits.c \subseteq f.preC
    BY <1>6 DEF Exits
  <2> QED
    BY <1>11, <1>14, <1>23, <2>1
<1>26. f.out \subseteq exits.m /\ exits.c \subseteq f.outC
  BY <1>6 DEF Exits
<1>27. ASSUME NEW x \in 1 .. Size(g) - 1, At(g, x) = i
       PROVE  /\ Op(g, x) = "break" => Flows(g, x, Size(g) + 1)
              /\ Op(g, x) = "continue" => Flows(g, x, i)
  <2>1. ASSUME Op(g, x) = "break" PROVE Flows(g, x, Size(g) + 1)
    <3>1. Pt(g, x).m \subseteq f.out /\ f.outC \subseteq Pt(g, x).c
      BY <1>7, <1>11, <1>20, <1>21, <1>27, <2>1 DEF Edges
    <3> QED
      BY <1>21, <1>23, <1>26, <1>27, <2>1, <3>1
  <2>2. ASSUME Op(g, x) = "continue" PROVE Flows(g, x, i)
    <3>1. Pt(g, x).m \subseteq f.acc /\ f.backC \subseteq Pt(g, x).c
      BY <1>7, <1>11, <1>20, <1>21, <1>27, <2>2 DEF Edges
    <3> QED
      BY <1>21, <1>22, <1>27, <2>2, <3>1
  <2> QED
    BY <2>1, <2>2
<1>28. EndOK(g, Size(g))
  <2>1. \A x \in 1 .. Size(g) - 1 : At(g, x) = i => Op(g, x) \notin {"else", "case"}
    BY <1>21
  <2>2. Op(g, i) # "if" /\ Op(g, i) \in Loops /\ Op(g, i) = f.op
    BY <1>7, <1>11, <1>15 DEF Loops
  <2>3. \A x \in 1 .. Size(g) - 1 : At(g, x) = i =>
          /\ Op(g, x) \in {"else", "case", "break"} => Flows(g, x, Size(g) + 1)
          /\ Op(g, x) = "continue" => Flows(g, x, i)
    BY <1>27, <2>1
  <2> QED
    BY <1>14, <1>24, <1>25, <2>2, <2>3 DEF EndOK
<1> QED
  BY <1>1, <1>3, <1>7, <1>8, <1>9, <1>11, <1>28, EndStep

\* A jump out of the innermost loop, or back to its start, recorded in f.
JumpsWith(f) ==
  LET t == frames[Innermost] IN
  /\ InLoop
  /\ f \in Construct
  /\ f.op = t.op /\ f.base = t.base /\ f.dead = t.dead /\ f.pre = t.pre /\ f.preC = t.preC
  /\ Tidy(t.base)
  /\ locals' = locals /\ moved' = moved /\ consumed' = consumed /\ dead' = TRUE /\ diverges' = TRUE
  /\ frames' = [frames EXCEPT ![Innermost] = f]

\* A jump is recorded in its loop and makes what follows dead.
LEMMA JumpStep ==
  ASSUME NEW h, NEW st, Checking(h, st), CheckTypes, CheckTypes',
         NEW i, i = st[Innermost],
         NEW g, NEW s, s.op \in {"break", "continue"}, Writes(h, g, s, i),
         NEW f, JumpsWith(f), Edges(g, f, i)
  PROVE  Checked'
<1>0. PICK t : t = frames[Innermost]
  OBVIOUS
<1>. /\ InLoop /\ f \in Construct
     /\ f.op = t.op /\ f.base = t.base /\ f.dead = t.dead /\ f.pre = t.pre /\ f.preC = t.preC
     /\ Tidy(t.base)
     /\ locals' = locals /\ moved' = moved /\ consumed' = consumed /\ dead' = TRUE /\ diverges' = TRUE
     /\ frames' = [frames EXCEPT ![Innermost] = f]
     /\ Writes(h, g, s, i) /\ Edges(g, f, i)
  BY <1>0 DEF JumpsWith
<1>1. PICK m : m = Innermost
  OBVIOUS
<1>2. /\ m \in 1 .. Len(frames) /\ frames[m].op \in Loops
      /\ \A j \in 1 .. Len(frames) : frames[j].op \in Loops => j <= m
      /\ Len(frames) \in Nat /\ frames \in Seq(Construct)
  BY <1>1, InnermostTyped DEF CheckTypes
<1>3. i = st[m] /\ t = frames[m]
  BY <1>0, <1>1
<1>4. /\ i \in 1 .. Size(h) /\ i \in 0 .. Size(h)
      /\ Op(h, i) = IF t.op = "else" THEN "if" ELSE t.op
  BY <1>2, <1>3, FrameHere
<1>5. /\ Size(h) \in Nat /\ Size(g) = Size(h) + 1 /\ Extends(h, g)
      /\ Pt(g, Size(g)).dp = Len(frames) /\ OpenConstructs(h, frames, st, locals) /\ Annotated(h)
  BY Here
<1>6. Op(g, i) = Op(h, i) /\ Op(g, i) \in Loops
  BY <1>2, <1>3, <1>4, <1>5 DEF Extends, Op, Loops
<1>7. Leaves(g, Size(g), i)
  BY <1>2, <1>3, LeavesFrom
<1>8. ASSUME NEW j \in i + 1 .. Size(g) - 1, Op(g, j) \in Loops
      PROVE  ~Within(g, j, Size(g))
  <2>1. j \in 1 .. Size(h) /\ j \in 1 .. Size(h) + 1 /\ i < j
    BY <1>4, <1>5
  <2>2. Op(h, j) \in Loops /\ Op(h, j) \in Openers
    BY <1>5, <1>8, <2>1 DEF Extends, Op, Openers
  <2>3. ~(\E k \in 1 .. Len(st) : st[k] = j)
    <3>1. SUFFICES ASSUME NEW k \in 1 .. Len(frames), st[k] = j PROVE FALSE
      BY <1>5 DEF OpenConstructs
    <3>2. Op(h, j) = IF frames[k].op = "else" THEN "if" ELSE frames[k].op
      BY <3>1, FrameHere
    <3>3. frames[k].op \in Loops
      BY <2>2, <3>2 DEF Loops
    <3>4. k <= m /\ k # m
      BY <1>2, <1>3, <2>1, <3>1, <3>3, <1>4
    <3>5. k < m
      BY <1>2, <3>4
    <3>6. st[k] < st[m]
      BY <1>2, <1>5, <3>5 DEF OpenConstructs, Nested
    <3> QED
      BY <1>3, <1>4, <2>1, <3>1, <3>6
  <2>4. PICK p \in j + 1 .. Size(h) : Op(h, p) = "end" /\ At(h, p) = j
    BY <1>5, <2>1, <2>2, <2>3 DEF OpenConstructs, Accounted
  <2>5. p \in 1 .. Size(h) /\ p + 1 \in j + 1 .. Size(h) + 1
    BY <1>5, <2>1
  <2>6. EndOK(h, p)
    BY <1>5, <2>4, <2>5 DEF Annotated, Good
  <2>7. Pt(h, p + 1).dp = Pt(h, j).dp
    BY <2>4, <2>6 DEF EndOK
  <2>8. Pt(h, j).dp \in Nat
    BY <1>5, <2>1 DEF Annotated, Typed
  <2>9. ~Within(h, j, Size(h) + 1)
    BY <2>5, <2>7, <2>8 DEF Within
  <2>10. Size(h) + 1 \in 1 .. Size(h) + 1
    BY <1>5
  <2> QED
    BY <1>5, <2>1, <2>9, <2>10, WithinGrow
<1>9. Len(frames') = Len(frames)
  BY <1>2
<1>10. /\ Op(g, Size(g)) = s.op /\ At(g, Size(g)) = i
       /\ Pt(g, Size(g) + 1).dp = Len(frames) /\ Pt(g, Size(g) + 1).d = TRUE
  BY <1>9 DEF Writes
<1>11. JumpOK(g, Size(g))
  BY <1>5, <1>6, <1>7, <1>8, <1>10 DEF JumpOK
<1>12. Good(g, Size(g)) /\ s.op \notin Openers /\ s.op # "let"
  BY <1>10, <1>11 DEF Good, Openers, Loops
<1>13. Annotated(g)
  <2>1. ToSet(locals') \subseteq InScope /\ (diverges' => dead')
    BY DEF InScope
  <2> QED
    BY <1>4, <1>12, <2>1, AnnotatedAgain
<1>14. OpenConstructs(g, frames', st, locals')
  <2>1. \A k \in 1 .. Len(frames) : Covers(g, locals, locals', frames[k].base)
    BY CoversSame
  <2>2. /\ f.op = frames[m].op /\ f.base = frames[m].base /\ f.dead = frames[m].dead
        /\ f.pre = frames[m].pre /\ f.preC = frames[m].preC
    BY <1>3
  <2>3. Edges(g, f, st[m]) /\ At(g, Size(g)) = st[m] /\ Op(g, Size(g)) \notin Openers
    BY <1>3, <1>10, <1>12
  <2>4. \A k \in 1 .. Len(frames) : Pt(h, st[k]).d => Pt(g, Size(g) + 1).d
    BY <1>10
  <2>5. frames' = [frames EXCEPT ![m] = f]
    BY <1>1
  <2>6. \A k \in 1 .. Len(frames) : Covers(g, locals, locals, frames[k].base)
    BY <2>1
  <2>7. OpenConstructs(g, [frames EXCEPT ![m] = f], st, locals)
    BY <1>2, <1>5, <1>10, <2>2, <2>3, <2>4, <2>6, OpenChanged
  <2> QED
    BY <2>5, <2>7
<1> QED
  BY <1>13, <1>14, CheckingAgain

\* A break.
LEMMA BreakChecked ==
  ASSUME Checked, CheckTypes, CheckTypes', Break, phase' = "check"
  PROVE  Checked'
<1>1. PICK h, st : Checking(h, st)
  BY DEF Checked
<1>2. PICK s : s = [op |-> "break"]
  OBVIOUS
<1>3. s \in Plain \union Marks /\ s.op = "break"
  BY <1>2, MarkIsText
<1>4. PICK t : t = frames[Innermost]
  OBVIOUS
<1>5. PICK f : f = Seen(AtBreak(t))
  OBVIOUS
<1>6. /\ InLoop /\ Write(s, Unclosed(Since(f.base), dead) # {})
      /\ frames' = [frames EXCEPT ![Innermost] = f] /\ dead' = TRUE /\ diverges' = TRUE
      /\ locals' = locals /\ moved' = moved /\ consumed' = consumed
      /\ forgotten' = forgotten /\ misjudged' = misjudged
  BY <1>2, <1>4, <1>5 DEF Break, Jumps
<1>7. PICK i : i = st[Innermost]
  OBVIOUS
<1>8. PICK g : Writes(h, g, s, i)
  BY <1>1, <1>3, <1>6, WritesExists
<1>9. Innermost \in 1 .. Len(frames) /\ t.op \in Loops /\ t \in Construct
  BY <1>4, <1>6, InnermostTyped DEF CheckTypes
<1>10. /\ f \in Construct
       /\ f.op = t.op /\ f.base = t.base /\ f.dead = t.dead /\ f.pre = t.pre /\ f.preC = t.preC
       /\ f.acc = t.acc /\ f.backC = t.backC
       /\ t.out \subseteq f.out /\ f.outC \subseteq t.outC /\ moved \subseteq f.out /\ f.outC \subseteq consumed
  <2>1. f \in Construct
    BY <1>5, <1>9, ArmsTyped
  <2> QED
    BY <1>5, <1>9, <2>1 DEF Seen, AtBreak, Construct
<1>11. Tidy(t.base)
  BY <1>6, <1>10, TidyIs DEF Write
<1>12. Edges(h, t, i)
  BY <1>1, <1>4, <1>7, <1>9, FrameHere
<1>13. Edges(g, f, i)
  <2>1. ASSUME NEW p \in 1 .. Size(g), At(g, p) = i
        PROVE  /\ Op(g, p) = "break" => Pt(g, p).m \subseteq f.out /\ f.outC \subseteq Pt(g, p).c
               /\ Op(g, p) = "continue" => Pt(g, p).m \subseteq f.acc /\ f.backC \subseteq Pt(g, p).c
    <3>1. p \in 1 .. Size(h) /\ At(h, p) = i =>
            /\ Op(h, p) = "break" => Pt(h, p).m \subseteq t.out /\ t.outC \subseteq Pt(h, p).c
            /\ Op(h, p) = "continue" => Pt(h, p).m \subseteq t.acc /\ t.backC \subseteq Pt(h, p).c
      BY <1>9, <1>12 DEF Edges
    <3>2. CASE p \in 1 .. Size(h) /\ At(g, p) = At(h, p) /\ Op(g, p) = Op(h, p) /\ Pt(g, p) = Pt(h, p)
      BY <1>10, <2>1, <3>1, <3>2
    <3>3. CASE Op(g, p) = s.op /\ Pt(g, p).m = moved /\ Pt(g, p).c = consumed
      BY <1>3, <1>10, <3>3
    <3> QED
      BY <1>1, <1>8, <3>2, <3>3, ReferrersGrow
  <2> QED
    BY <1>9, <1>10, <2>1 DEF Edges, Loops
<1>14. s.op \in {"break", "continue"}
  BY <1>3
<1>15. JumpsWith(f)
  BY <1>4, <1>6, <1>10, <1>11 DEF JumpsWith
<1>17. CheckTypes /\ CheckTypes'
  OBVIOUS
<1> QED
  BY ONLY <1>1, <1>7, <1>8, <1>13, <1>14, <1>15, <1>17, JumpStep

\* A continue.
LEMMA ContinueChecked ==
  ASSUME Checked, CheckTypes, CheckTypes', Continue, phase' = "check"
  PROVE  Checked'
<1>1. PICK h, st : Checking(h, st)
  BY DEF Checked
<1>2. PICK s : s = [op |-> "continue"]
  OBVIOUS
<1>3. s \in Plain \union Marks /\ s.op = "continue"
  BY <1>2, MarkIsText
<1>4. PICK t : t = frames[Innermost]
  OBVIOUS
<1>5. PICK f : f = Back(AtBackEdge(t))
  OBVIOUS
<1>6. /\ InLoop /\ Write(s, Unclosed(Since(f.base), dead) # {})
      /\ frames' = [frames EXCEPT ![Innermost] = f] /\ dead' = TRUE /\ diverges' = TRUE
      /\ locals' = locals /\ moved' = moved /\ consumed' = consumed
      /\ forgotten' = forgotten /\ misjudged' = misjudged
  BY <1>2, <1>4, <1>5 DEF Continue, Jumps
<1>7. PICK i : i = st[Innermost]
  OBVIOUS
<1>8. PICK g : Writes(h, g, s, i)
  BY <1>1, <1>3, <1>6, WritesExists
<1>9. Innermost \in 1 .. Len(frames) /\ t.op \in Loops /\ t \in Construct
  BY <1>4, <1>6, InnermostTyped DEF CheckTypes
<1>10. /\ f \in Construct
       /\ f.op = t.op /\ f.base = t.base /\ f.dead = t.dead /\ f.pre = t.pre /\ f.preC = t.preC
       /\ f.out = t.out /\ f.outC = t.outC
       /\ t.acc \subseteq f.acc /\ f.backC \subseteq t.backC /\ moved \subseteq f.acc /\ f.backC \subseteq consumed
  <2>1. f \in Construct
    BY <1>5, <1>9, ArmsTyped
  <2> QED
    BY <1>5, <1>9, <2>1 DEF Back, AtBackEdge, Construct
<1>11. Tidy(t.base)
  BY <1>6, <1>10, TidyIs DEF Write
<1>12. Edges(h, t, i)
  BY <1>1, <1>4, <1>7, <1>9, FrameHere
<1>13. Edges(g, f, i)
  <2>1. ASSUME NEW p \in 1 .. Size(g), At(g, p) = i
        PROVE  /\ Op(g, p) = "break" => Pt(g, p).m \subseteq f.out /\ f.outC \subseteq Pt(g, p).c
               /\ Op(g, p) = "continue" => Pt(g, p).m \subseteq f.acc /\ f.backC \subseteq Pt(g, p).c
    <3>1. p \in 1 .. Size(h) /\ At(h, p) = i =>
            /\ Op(h, p) = "break" => Pt(h, p).m \subseteq t.out /\ t.outC \subseteq Pt(h, p).c
            /\ Op(h, p) = "continue" => Pt(h, p).m \subseteq t.acc /\ t.backC \subseteq Pt(h, p).c
      BY <1>9, <1>12 DEF Edges
    <3>2. CASE p \in 1 .. Size(h) /\ At(g, p) = At(h, p) /\ Op(g, p) = Op(h, p) /\ Pt(g, p) = Pt(h, p)
      BY <1>10, <2>1, <3>1, <3>2
    <3>3. CASE Op(g, p) = s.op /\ Pt(g, p).m = moved /\ Pt(g, p).c = consumed
      BY <1>3, <1>10, <3>3
    <3> QED
      BY <1>1, <1>8, <3>2, <3>3, ReferrersGrow
  <2> QED
    BY <1>9, <1>10, <2>1 DEF Edges, Loops
<1>14. s.op \in {"break", "continue"}
  BY <1>3
<1>15. JumpsWith(f)
  BY <1>4, <1>6, <1>10, <1>11 DEF JumpsWith
<1>17. CheckTypes /\ CheckTypes'
  OBVIOUS
<1> QED
  BY ONLY <1>1, <1>7, <1>8, <1>13, <1>14, <1>15, <1>17, JumpStep

\* Every statement the checker goes on after keeps the invariant.
LEMMA CheckStep ==
  ASSUME Checked, CheckTypes, CheckTypes', Check, phase' = "check"
  PROVE  Checked'
<1>1. CASE \E v \in Binding : Let(v) \/ Use(v) \/ Take(v) \/ Set(v)
  BY <1>1, LetChecked, UseChecked, TakeChecked, SetChecked
<1>2. CASE \E op \in Openers : Open(op)
  BY <1>2, OpenChecked
<1>3. CASE Else \/ EndIf \/ Case \/ EndMatch
  BY <1>3, ElseChecked, EndIfChecked, CaseChecked, EndMatchChecked
<1>4. CASE Break \/ Continue \/ EndLoop \/ Return
  BY <1>4, BreakChecked, ContinueChecked, EndLoopChecked, ReturnChecked
<1>5. ~Finish
  BY DEF Finish
<1> QED
  BY <1>1, <1>2, <1>3, <1>4, <1>5 DEF Check

\* The empty body has an annotation.
LEMMA NothingWritten ==
  ASSUME Init
  PROVE  Checked
<1>1. PICK pt : pt = [loc |-> {}, m |-> {}, c |-> {}, d |-> FALSE, dv |-> FALSE, dp |-> 0]
  OBVIOUS
<1>2. PICK h : h = [text |-> <<>>, kind |-> kind, forgotten |-> {}, misjudged |-> {},
                    at |-> <<>>, pts |-> <<pt>>]
  OBVIOUS
<1>3. Size(h) = 0 /\ h.text = <<>> /\ Pt(h, 1) = pt
  BY <1>2 DEF Size, Pt
<1>4. \A p \in 1 .. Size(h) : FALSE
  BY <1>3
<1>5. \A p \in 1 .. Size(h) + 1 : p = 1
  BY <1>3
<1>6. InScope = {}
  BY DEF Init, InScope, ToSet
<1>7. Annotated(h)
  <2>1. Typed(h)
    <3>1. /\ pt.loc = {} /\ pt.d = FALSE /\ pt.dv = FALSE /\ pt.dp = 0
      BY <1>1
    <3>2. \A p \in 1 .. Size(h) + 1 : Pt(h, p) = pt
      BY <1>3, <1>5
    <3>3. pt.loc \subseteq Binding /\ pt.dp \in Nat
      BY <3>1
    <3>4. pt.d \in BOOLEAN /\ pt.dv \in BOOLEAN /\ ~pt.dv
      BY <1>1, Zenon
    <3> QED
      BY <3>2, <3>3, <3>4, Zenon DEF Typed
  <2>2. Begins(h)
    BY <1>1, <1>3 DEF Begins
  <2>3. Lets(h) /\ Refers(h)
    BY <1>4 DEF Lets, Refers
  <2>4. ScopeOK(h)
    BY <1>1, <1>3, <1>5 DEF ScopeOK
  <2> QED
    BY <1>3, <1>4, <2>1, <2>2, <2>3, <2>4 DEF Annotated
<1>8. Reached(Pt(h, Size(h) + 1))
  <2>1. /\ pt.loc = {} /\ pt.m = {} /\ pt.c = {} /\ pt.d = FALSE /\ pt.dv = FALSE /\ pt.dp = 0
    BY <1>1
  <2>2. moved = {} /\ consumed = {} /\ dead = FALSE /\ diverges = FALSE /\ Len(frames) = 0
    BY DEF Init
  <2>3. Pt(h, Size(h) + 1) = pt
    BY <1>3
  <2> QED
    BY <1>6, <2>1, <2>2, <2>3 DEF Reached
<1>9. OpenConstructs(h, frames, <<>>, locals)
  <2>1. frames = <<>> /\ Len(frames) = 0
    BY DEF Init
  <2>2. \A k \in 1 .. Len(frames) : FALSE
    BY <2>1
  <2> QED
    BY <1>4, <2>1, <2>2 DEF OpenConstructs, Nested, Accounted
<1>10. Checking(h, <<>>)
  BY <1>2, <1>3, <1>7, <1>8, <1>9 DEF Checking, Init
<1> QED
  BY <1>10 DEF Checked

\* At the closing brace no construct is open and no handle is: the body is accepted.
LEMMA FinishAccepts ==
  ASSUME Checked, CheckTypes, Finish, phase' = "run"
  PROVE  \E h : Accepted(h)
<1>1. PICK h, st : Checking(h, st)
  BY DEF Checked
<1>2. frames = <<>> /\ Unclosed(InScope, dead) = {}
  BY DEF Finish
<1>3. st \in Seq(Nat) /\ Len(st) = 0 /\ Accounted(h, st)
  BY <1>1, <1>2 DEF Checking, OpenConstructs
<1>4. \A k \in 1 .. Len(st) : FALSE
  BY <1>3
<1>5. AllClosed(h, Size(h) + 1)
  BY <1>1, <1>2 DEF AllClosed, Checking, Reached, Unclosed
<1>6. \A j \in 1 .. Size(h) : Op(h, j) \in Openers =>
       \E p \in j + 1 .. Size(h) : Op(h, p) = "end" /\ At(h, p) = j
  BY <1>3, <1>4 DEF Accounted
<1> QED
  BY <1>1, <1>5, <1>6 DEF Accepted, Checking
-----------------------------------------------------------------------------
(* The structure of an accepted body *)

\* A statement is one of those the language has.
LEMMA StatementTyped ==
  ASSUME NEW h, Annotated(h), NEW p \in 1 .. Size(h)
  PROVE  /\ Size(h) \in Nat /\ Len(h.text) = Size(h) /\ h.text \in Seq(Plain \union Marks)
         /\ \/ Op(h, p) \in {"use", "take", "set", "let"} /\ h.text[p].v \in Binding
            \/ Op(h, p) \in Openers \union {"else", "case", "end", "break", "continue", "return"}
<1>1. h.text \in Seq(Plain \union Marks) /\ Size(h) = Len(h.text)
  BY DEF Annotated, Size
<1>2. Size(h) \in Nat /\ h.text[p] \in Plain \union Marks
  BY <1>1
<1>3. \A s \in Plain : s.op \in {"use", "take", "set", "let"} /\ s.v \in Binding
  BY DEF Plain
<1>4. \A s \in Marks : s.op \in Openers \union {"else", "case", "end", "break", "continue", "return"}
  BY DEF Marks, Openers, Loops
<1> QED
  BY <1>1, <1>2, <1>3, <1>4 DEF Op

\* The depth rises by one at an opener and falls by one at an end.
LEMMA DepthStep ==
  ASSUME NEW h, Annotated(h), NEW p \in 1 .. Size(h)
  PROVE  /\ Pt(h, p).dp \in Nat /\ Pt(h, p + 1).dp \in Nat
         /\ Op(h, p) \in Openers => Pt(h, p + 1).dp = Pt(h, p).dp + 1
         /\ Op(h, p) = "end" => Pt(h, p).dp = Pt(h, p + 1).dp + 1
         /\ Op(h, p) \notin Openers /\ Op(h, p) # "end" => Pt(h, p + 1).dp = Pt(h, p).dp
<1>1. Size(h) \in Nat
  BY StatementTyped
<1>2. p \in 1 .. Size(h) + 1 /\ p + 1 \in 1 .. Size(h) + 1
  BY <1>1
<1>3. Pt(h, p).dp \in Nat /\ Pt(h, p + 1).dp \in Nat
  BY <1>2 DEF Annotated, Typed
<1>4. Good(h, p)
  BY DEF Annotated
<1>5. Op(h, p) \in Openers => Pt(h, p + 1).dp = Pt(h, p).dp + 1
  BY <1>4 DEF Good, OpenOK
<1>6. Op(h, p) = "end" => Pt(h, p).dp = Pt(h, p + 1).dp + 1
  BY <1>4 DEF Good, EndOK
<1>7. Op(h, p) \in {"use", "take", "set", "let"} => Pt(h, p + 1).dp = Pt(h, p).dp
  BY <1>4 DEF Good, LetOK, UseOK, TakeOK, SetOK
<1>8. Op(h, p) \in {"else", "case", "break", "continue", "return"} => Pt(h, p + 1).dp = Pt(h, p).dp
  BY <1>4 DEF Good, ArmOK, JumpOK, ReturnOK
<1>9. \/ Op(h, p) \in {"use", "take", "set", "let"}
      \/ Op(h, p) \in Openers \union {"else", "case", "end", "break", "continue", "return"}
  BY StatementTyped
<1> QED
  BY <1>3, <1>5, <1>6, <1>7, <1>8, <1>9

\* Counting up to j.
LEMMA CountStep ==
  ASSUME NEW i \in Nat, NEW j \in Nat, i <= j, NEW S
  PROVE  LET A == {k \in i .. j : k \in S}  B == {k \in i .. j - 1 : k \in S} IN
         /\ Cardinality(A) \in Nat /\ Cardinality(B) \in Nat
         /\ Cardinality(A) = Cardinality(B) + IF j \in S THEN 1 ELSE 0
<1>1. PICK A, B : A = {k \in i .. j : k \in S} /\ B = {k \in i .. j - 1 : k \in S}
  OBVIOUS
<1>2. IsFiniteSet(i .. j) /\ IsFiniteSet(i .. j - 1)
  BY FS_Interval
<1>3. IsFiniteSet(A) /\ IsFiniteSet(B)
  BY <1>1, <1>2, FS_Subset
<1>4. Cardinality(A) \in Nat /\ Cardinality(B) \in Nat
  BY <1>3, FS_CardinalityType
<1>5. ASSUME j \in S PROVE A = B \cup {j} /\ j \notin B
  BY <1>1, <1>5
<1>6. ASSUME j \notin S PROVE A = B
  BY <1>1, <1>6
<1>7. Cardinality(A) = Cardinality(B) + IF j \in S THEN 1 ELSE 0
  BY <1>3, <1>4, <1>5, <1>6, FS_AddElement
<1> QED
  BY <1>1, <1>4, <1>7

\* The openers less the ends of a stretch of text is what the depth rises over it.
LEMMA Balance ==
  ASSUME NEW h, Annotated(h), h.text = text, NEW i \in 1 .. Size(h),
         NEW j \in i .. Size(h)
  PROVE  /\ Opens(i, j) \in Nat /\ Ends(i, j) \in Nat
         /\ Opens(i, j) + Pt(h, i).dp = Ends(i, j) + Pt(h, j + 1).dp
<1>0. Size(h) \in Nat /\ i \in Nat /\ j \in Nat /\ i <= j
  BY StatementTyped
<1>1. PICK O, E : O = {k \in Nat : text[k].op \in Openers} /\ E = {k \in Nat : text[k].op = "end"}
  OBVIOUS
<1>2. \A x : /\ {k \in i .. x : text[k].op \in Openers} = {k \in i .. x : k \in O}
             /\ {k \in i .. x : text[k].op = "end"} = {k \in i .. x : k \in E}
  BY <1>0, <1>1
<1>3. PICK B : B = {x \in Nat : x + i <= Size(h) + 1 /\
                     ~(/\ Opens(i, x + i - 1) \in Nat /\ Ends(i, x + i - 1) \in Nat
                       /\ Opens(i, x + i - 1) + Pt(h, i).dp = Ends(i, x + i - 1) + Pt(h, x + i).dp)}
  OBVIOUS
<1>4. 0 \notin B
  <2>1. {k \in i .. i - 1 : text[k].op \in Openers} = {} /\ {k \in i .. i - 1 : text[k].op = "end"} = {}
    BY <1>0
  <2>2. 0 + i = i
    BY <1>0
  <2>3. Opens(i, i - 1) = 0 /\ Ends(i, i - 1) = 0
    BY <2>1, FS_EmptySet DEF Opens, Ends
  <2>4. Pt(h, i).dp \in Nat
    BY DepthStep
  <2> QED
    BY <1>3, <2>2, <2>3, <2>4
<1>5. ASSUME NEW x \in Nat, x \notin B PROVE x + 1 \notin B
  <2>1. SUFFICES ASSUME x + i <= Size(h)
                 PROVE /\ Opens(i, x + i) \in Nat /\ Ends(i, x + i) \in Nat
                       /\ Opens(i, x + i) + Pt(h, i).dp = Ends(i, x + i) + Pt(h, x + i + 1).dp
    <3>1. (x + 1) + i = x + i + 1 /\ (x + 1) + i - 1 = x + i
      BY <1>0
    <3> QED
      BY <1>0, <1>3, <3>1
  <2>2. PICK q \in 1 .. Size(h) : q = x + i
    BY <1>0, <2>1
  <2>3. /\ Opens(i, q - 1) \in Nat /\ Ends(i, q - 1) \in Nat
        /\ Opens(i, q - 1) + Pt(h, i).dp = Ends(i, q - 1) + Pt(h, q).dp
    BY <1>0, <1>3, <1>5, <2>1, <2>2
  <2>4. q \in Nat /\ i <= q
    BY <1>0, <2>2
  <2>5. /\ Opens(i, q) \in Nat /\ Opens(i, q) = Opens(i, q - 1) + IF q \in O THEN 1 ELSE 0
        /\ Ends(i, q) \in Nat /\ Ends(i, q) = Ends(i, q - 1) + IF q \in E THEN 1 ELSE 0
    <3>1. /\ Opens(i, q) = Cardinality({k \in i .. q : k \in O})
          /\ Opens(i, q - 1) = Cardinality({k \in i .. q - 1 : k \in O})
          /\ Ends(i, q) = Cardinality({k \in i .. q : k \in E})
          /\ Ends(i, q - 1) = Cardinality({k \in i .. q - 1 : k \in E})
      BY <1>2 DEF Opens, Ends
    <3>2. /\ Cardinality({k \in i .. q : k \in O}) \in Nat
          /\ Cardinality({k \in i .. q : k \in O})
               = Cardinality({k \in i .. q - 1 : k \in O}) + IF q \in O THEN 1 ELSE 0
      BY ONLY <1>0, <2>4, CountStep
    <3>3. /\ Cardinality({k \in i .. q : k \in E}) \in Nat
          /\ Cardinality({k \in i .. q : k \in E})
               = Cardinality({k \in i .. q - 1 : k \in E}) + IF q \in E THEN 1 ELSE 0
      BY ONLY <1>0, <2>4, CountStep
    <3> QED
      BY ONLY <3>1, <3>2, <3>3
  <2>6. /\ q \in O <=> Op(h, q) \in Openers
        /\ q \in E <=> Op(h, q) = "end"
    BY <1>1, <2>4 DEF Op
  <2>7. "end" \notin Openers
    BY DEF Openers, Loops
  <2>8. Pt(h, i).dp \in Nat
    BY DepthStep
  <2>9. Opens(i, q) + Pt(h, i).dp = Ends(i, q) + Pt(h, q + 1).dp
    <3>1. /\ Pt(h, q).dp \in Nat /\ Pt(h, q + 1).dp \in Nat
          /\ q \in O => Pt(h, q + 1).dp = Pt(h, q).dp + 1 /\ q \notin E
          /\ q \in E => Pt(h, q).dp = Pt(h, q + 1).dp + 1
          /\ q \notin O /\ q \notin E => Pt(h, q + 1).dp = Pt(h, q).dp
      BY <2>6, <2>7, DepthStep
    <3> QED
      BY <2>3, <2>5, <2>8, <3>1
  <2> QED
    BY <2>2, <2>5, <2>9
<1>6. PICK x \in Nat : x = j - i + 1
  BY <1>0
<1>7. x \notin B
  <2>1. SUFFICES ASSUME x \in B PROVE FALSE
    OBVIOUS
  <2>2. PICK m \in Nat : m \in B /\ \A k \in Nat : k < m => k \notin B
    BY <2>1, LeastOf
  <2>3. m # 0
    BY <1>4, <2>2
  <2>4. m - 1 \in Nat /\ m - 1 < m /\ (m - 1) + 1 = m
    BY <2>3
  <2> QED
    BY <1>5, <2>2, <2>4
<1>8. x + i = j + 1 /\ x + i - 1 = j /\ x + i <= Size(h) + 1
  BY <1>0, <1>6
<1> QED
  BY <1>3, <1>7, <1>8

\* The end of the construct opened at i is where the generator finds it.
LEMMA CloseIs ==
  ASSUME NEW h, Annotated(h), h.text = text, NEW i \in 1 .. Size(h),
         NEW p \in i + 1 .. Size(h),
         Op(h, p) = "end", At(h, p) = i
  PROVE  Close(i) = p
<1>0. Size(h) \in Nat /\ Len(text) = Size(h) /\ i \in Nat /\ p \in 1 .. Size(h)
  BY StatementTyped
<1>1. EndOK(h, p)
  BY <1>0 DEF Annotated, Good
<1>2. Pt(h, p + 1).dp = Pt(h, i).dp /\ \A q \in i + 1 .. p : Pt(h, q).dp > Pt(h, i).dp
  BY <1>1 DEF EndOK, Leaves, Within
<1>3. \A k \in i .. Size(h) : /\ Opens(i, k) \in Nat /\ Ends(i, k) \in Nat
                              /\ Opens(i, k) + Pt(h, i).dp = Ends(i, k) + Pt(h, k + 1).dp
  BY Balance
<1>4. Pt(h, i).dp \in Nat /\ \A k \in i .. Size(h) : Pt(h, k + 1).dp \in Nat
  BY <1>0, DepthStep
<1>5. p \in i .. Size(h) /\ Opens(i, p) = Ends(i, p)
  BY <1>0, <1>2, <1>3, <1>4
<1>6. \A k \in i .. p - 1 : Opens(i, k) > Ends(i, k)
  <2>1. TAKE k \in i .. p - 1
  <2>2. k \in i .. Size(h) /\ k + 1 \in i + 1 .. p
    BY <1>0
  <2> QED
    BY <1>2, <1>3, <1>4, <2>2
<1>7. ASSUME NEW j \in i .. Size(h), Opens(i, j) = Ends(i, j), \A k \in i .. j - 1 : Opens(i, k) > Ends(i, k)
      PROVE  j = p
  <2>1. ~(j < p)
    <3>1. SUFFICES ASSUME j < p PROVE FALSE
      OBVIOUS
    <3>2. j \in i .. p - 1
      BY <1>0, <3>1
    <3> QED
      BY <1>3, <1>6, <1>7, <3>2
  <2>2. ~(p < j)
    <3>1. SUFFICES ASSUME p < j PROVE FALSE
      OBVIOUS
    <3>2. p \in i .. j - 1
      BY <1>0, <3>1
    <3> QED
      BY <1>3, <1>5, <1>7, <3>2
  <2> QED
    BY <1>0, <2>1, <2>2
<1>8. Close(i) = CHOOSE j \in i .. Size(h) : /\ Opens(i, j) = Ends(i, j)
                                             /\ \A k \in i .. j - 1 : Opens(i, k) > Ends(i, k)
  BY <1>0 DEF Close
<1> QED
  BY <1>5, <1>6, <1>7, <1>8

\* Every construct of an accepted body has its end.
LEMMA Ended ==
  ASSUME NEW h, Accepted(h), NEW i \in 1 .. Size(h), Op(h, i) \in Openers
  PROVE  /\ Close(i) \in i + 1 .. Size(h) /\ Op(h, Close(i)) = "end" /\ At(h, Close(i)) = i
         /\ EndOK(h, Close(i))
<1>1. Annotated(h) /\ h.text = text
  BY DEF Accepted
<1>2. PICK p \in i + 1 .. Size(h) : Op(h, p) = "end" /\ At(h, p) = i
  BY DEF Accepted
<1>3. Close(i) = p
  BY <1>1, <1>2, CloseIs
<1>4. p \in 1 .. Size(h)
  BY <1>1, StatementTyped
<1>5. EndOK(h, p)
  BY <1>1, <1>2, <1>4 DEF Annotated, Good
<1> QED
  BY <1>2, <1>3, <1>5

\* An opener whose end is not before p is one that p is inside of.
LEMMA InsideIs ==
  ASSUME NEW h, Accepted(h), NEW j \in 1 .. Size(h), Op(h, j) \in Openers,
         NEW p \in j + 1 .. Size(h)
  PROVE  Close(j) >= p <=> Within(h, j, p)
<1>1. Annotated(h) /\ Size(h) \in Nat /\ j \in Nat /\ p \in Nat /\ j < p
  BY StatementTyped DEF Accepted
<1>2. PICK c \in j + 1 .. Size(h) : c = Close(j) /\ EndOK(h, c) /\ At(h, c) = j
  BY Ended
<1>3. Within(h, j, c) /\ Pt(h, c + 1).dp = Pt(h, j).dp
  BY <1>2 DEF EndOK, Leaves
<1>4. ASSUME c >= p PROVE Within(h, j, p)
  <2>1. \A q \in j + 1 .. p : q \in j + 1 .. c
    BY <1>1, <1>2, <1>4
  <2> QED
    BY <1>1, <1>3, <2>1 DEF Within
<1>5. ASSUME c < p PROVE ~Within(h, j, p)
  <2>1. c + 1 \in j + 1 .. p
    BY <1>1, <1>2, <1>5
  <2>2. Pt(h, j).dp \in Nat
    BY <1>1, DepthStep
  <2> QED
    BY <1>3, <2>1, <2>2 DEF Within
<1> QED
  BY <1>1, <1>2, <1>4, <1>5

\* The constructs of some kinds around p.
LEMMA InsideOf ==
  ASSUME NEW h, Accepted(h), NEW p \in 1 .. Size(h), NEW ops \in SUBSET Openers
  PROVE  Inside(ops, p) = {j \in 1 .. p - 1 : Op(h, j) \in ops /\ Within(h, j, p)}
<1>1. Annotated(h) /\ h.text = text /\ Size(h) \in Nat
  BY StatementTyped DEF Accepted
<1>2. ASSUME NEW j \in 1 .. p - 1, Op(h, j) \in ops
      PROVE  Close(j) >= p <=> Within(h, j, p)
  <2>1. j \in 1 .. Size(h) /\ Op(h, j) \in Openers /\ p \in j + 1 .. Size(h)
    BY <1>1, <1>2
  <2> QED
    BY <2>1, InsideIs
<1>3. \A j \in 1 .. p - 1 : text[j].op = Op(h, j)
  BY <1>1 DEF Op
<1> QED
  BY <1>2, <1>3 DEF Inside

\* The innermost construct around p is the one no other construct of its kind
\* stands between.
LEMMA AroundIs ==
  ASSUME NEW h, Accepted(h), NEW p \in 1 .. Size(h), NEW ops \in SUBSET Openers,
         NEW i \in 1 .. p - 1, Op(h, i) \in ops, Within(h, i, p),
         \A j \in i + 1 .. p - 1 : Op(h, j) \in ops => ~Within(h, j, p)
  PROVE  Around(ops, p) = i
<1>0. Size(h) \in Nat
  BY StatementTyped DEF Accepted
<1>1. PICK I : I = Inside(ops, p)
  OBVIOUS
<1>2. I = {j \in 1 .. p - 1 : Op(h, j) \in ops /\ Within(h, j, p)}
  BY <1>1, InsideOf
<1>3. i \in I /\ \A k \in I : k <= i
  <2>1. ASSUME NEW k \in I PROVE k <= i
    <3>1. k \in 1 .. p - 1 /\ Op(h, k) \in ops /\ Within(h, k, p)
      BY <1>2
    <3>2. k \notin i + 1 .. p - 1
      BY <3>1
    <3> QED
      BY <1>0, <3>1, <3>2
  <2> QED
    BY <1>2, <2>1
<1>4. \A a, b \in I : (\A k \in I : k <= a) /\ (\A k \in I : k <= b) => a = b
  BY <1>0, <1>2
<1> QED
  BY <1>1, <1>3, <1>4 DEF Around

\* An arm or an end belongs to the construct the depth says.
LEMMA AroundAt ==
  ASSUME NEW h, Accepted(h), NEW p \in 1 .. Size(h), NEW ops \in SUBSET Openers,
         NEW i \in 1 .. p - 1, Op(h, i) \in ops, Within(h, i, p),
         Pt(h, p).dp = Pt(h, i).dp + 1
  PROVE  Around(ops, p) = i
<1>0. Annotated(h) /\ Size(h) \in Nat
  BY StatementTyped DEF Accepted
<1>1. ASSUME NEW j \in i + 1 .. p - 1 PROVE ~Within(h, j, p)
  <2>1. SUFFICES ASSUME Within(h, j, p) PROVE FALSE
    OBVIOUS
  <2>2. j \in 1 .. Size(h) /\ i \in 1 .. Size(h) /\ j \in i + 1 .. p /\ p \in j + 1 .. p
    BY <1>0
  <2>3. Pt(h, j).dp > Pt(h, i).dp /\ Pt(h, p).dp > Pt(h, j).dp
    BY <2>1, <2>2 DEF Within
  <2>4. Pt(h, j).dp \in Nat /\ Pt(h, i).dp \in Nat
    BY <1>0, <2>2, DepthStep
  <2> QED
    BY <2>3, <2>4
<1> QED
  BY <1>1, AroundIs

\* The generator finds the construct of an arm or an end where the annotation has it.
LEMMA AroundEnd ==
  ASSUME NEW h, Accepted(h), NEW p \in 1 .. Size(h),
         Op(h, p) \in {"else", "case", "end"}
  PROVE  /\ At(h, p) \in 1 .. p - 1 /\ Leaves(h, p, At(h, p)) /\ Op(h, At(h, p)) \in Openers
         /\ Around(Openers, p) = At(h, p)
         /\ Op(h, p) # "end" => Op(h, At(h, p)) \in {"if", "match"}
                                /\ Around({"if", "match"}, p) = At(h, p)
<1>1. Good(h, p)
  BY DEF Accepted, Annotated
<1>2. PICK i : i = At(h, p)
  OBVIOUS
<1>3. /\ Leaves(h, p, i) /\ Op(h, i) \in Openers /\ Pt(h, p).dp = Pt(h, i).dp + 1
      /\ Op(h, p) # "end" => Op(h, i) \in {"if", "match"}
  BY <1>1, <1>2 DEF Good, ArmOK, EndOK, Openers
<1>4. i \in 1 .. p - 1 /\ Within(h, i, p)
  BY <1>3 DEF Leaves
<1>5. Around(Openers, p) = i
  BY <1>3, <1>4, AroundAt
<1>6. {"if", "match"} \in SUBSET Openers
  BY DEF Openers
<1>7. Op(h, p) # "end" => Around({"if", "match"}, p) = i
  BY <1>3, <1>4, <1>6, AroundAt
<1> QED
  BY <1>2, <1>3, <1>4, <1>5, <1>7

\* And the loop of a jump.
LEMMA AroundJump ==
  ASSUME NEW h, Accepted(h), NEW p \in 1 .. Size(h), Op(h, p) \in {"break", "continue"}
  PROVE  /\ At(h, p) \in 1 .. p - 1 /\ Leaves(h, p, At(h, p)) /\ Op(h, At(h, p)) \in Loops
         /\ Around(Loops, p) = At(h, p)
<1>1. JumpOK(h, p)
  BY DEF Accepted, Annotated, Good
<1>2. PICK i : i = At(h, p)
  OBVIOUS
<1>3. /\ Leaves(h, p, i) /\ Op(h, i) \in Loops
      /\ \A j \in i + 1 .. p - 1 : Op(h, j) \in Loops => ~Within(h, j, p)
  BY <1>1, <1>2 DEF JumpOK
<1>4. i \in 1 .. p - 1 /\ Within(h, i, p) /\ Loops \in SUBSET Openers
  BY <1>3 DEF Leaves, Openers
<1>5. Around(Loops, p) = i
  BY <1>3, <1>4, AroundIs
<1> QED
  BY <1>2, <1>3, <1>4, <1>5

\* What leads to the end of a construct from inside it.
LEMMA ToTheEnd ==
  ASSUME NEW h, Accepted(h), NEW p \in 1 .. Size(h),
         Op(h, p) \in {"else", "case", "break"},
         NEW i, i = At(h, p)
  PROVE  \E c : /\ c = Close(i) /\ c + 1 \in 1 .. Size(h) + 1
               /\ Pt(h, c + 1).loc = Pt(h, i).loc
               /\ Flows(h, p, c + 1)
<1>0. Size(h) \in Nat
  BY StatementTyped DEF Accepted
<1>2. i \in 1 .. p - 1 /\ Within(h, i, p) /\ Op(h, i) \in Openers
  BY AroundEnd, AroundJump DEF Leaves, Openers
<1>3. i \in 1 .. Size(h) /\ p \in i + 1 .. Size(h)
  BY <1>0, <1>2
<1>4. PICK c \in i + 1 .. Size(h) : c = Close(i) /\ Op(h, c) = "end" /\ At(h, c) = i /\ EndOK(h, c)
  BY <1>2, <1>3, Ended
<1>5. p <= c /\ p # c
  BY <1>2, <1>3, <1>4, InsideIs
<1>6. p \in 1 .. c - 1
  BY <1>0, <1>5
<1>7. Pt(h, c + 1).loc = Pt(h, i).loc /\ Flows(h, p, c + 1)
  BY <1>4, <1>6 DEF EndOK
<1> QED
  BY <1>0, <1>3, <1>4, <1>7

\* Where a branch starts.
LEMMA ArmsAre ==
  ASSUME NEW h, Accepted(h), NEW i \in 1 .. Size(h), Op(h, i) \in {"if", "match"}
  PROVE  /\ \A j \in Arms(i) : /\ j \in 1 .. Size(h)
                               /\ \/ j = i
                                  \/ Op(h, j) \in {"else", "case"} /\ At(h, j) = i
         /\ \A e \in 1 .. Size(h) : Op(h, e) = "else" /\ At(h, e) = i => e \in Arms(i)
         /\ IsFiniteSet(Arms(i))
<1>0. Size(h) \in Nat /\ h.text = text /\ Op(h, i) \in Openers
  BY StatementTyped DEF Accepted, Openers
<1>1. PICK c \in i + 1 .. Size(h) : c = Close(i)
  BY <1>0, Ended
<1>2. ASSUME NEW j \in Arms(i)
      PROVE  j \in i .. c /\ j \in 1 .. Size(h) /\ (j = i \/ (Op(h, j) \in {"else", "case"} /\ At(h, j) = i))
  <2>1. CASE j = i
    BY <1>0, <1>1, <2>1
  <2>2. CASE j \in i .. c /\ text[j].op \in {"else", "case"} /\ Around(Openers, j) = i
    <3>1. j \in 1 .. Size(h) /\ Op(h, j) \in {"else", "case"}
      BY <1>0, <1>1, <2>2 DEF Op
    <3> QED
      BY <2>2, <3>1, AroundEnd
  <2> QED
    BY <1>1, <2>1, <2>2 DEF Arms
<1>3. ASSUME NEW e \in 1 .. Size(h), Op(h, e) = "else", At(h, e) = i
      PROVE  e \in Arms(i)
  <2>1. /\ i \in 1 .. e - 1 /\ Within(h, i, e)
        /\ Around(Openers, e) = i /\ Around({"if", "match"}, e) = i
    BY <1>3, AroundEnd DEF Leaves
  <2>2. e \in i + 1 .. Size(h)
    BY <1>0, <2>1
  <2>3. c >= e
    BY <1>0, <1>1, <2>1, <2>2, InsideIs
  <2>4. e \in i .. Close(i)
    BY <1>1, <2>2, <2>3
  <2>5. text[e].op = "else"
    BY <1>0, <1>3 DEF Op
  <2> QED
    BY <2>1, <2>4, <2>5 DEF Arms
<1>4. IsFiniteSet(Arms(i))
  <2>1. IsFiniteSet(i .. c)
    BY <1>0, <1>1, FS_Interval
  <2> QED
    BY <1>2, <2>1, FS_Subset
<1> QED
  BY <1>2, <1>3, <1>4
-----------------------------------------------------------------------------
(* Running: leaving scopes *)

\* What leaving the construct at i declares gone: what was declared inside it.
LEMMA DeclaredIs ==
  ASSUME NEW h, Accepted(h), RunsAs(h), NEW i, Leaves(h, pc, i)
  PROVE  DeclaredAfter(i) = Pt(h, pc).loc \ Pt(h, i).loc
<1>0. /\ pc \in 1 .. Size(h) + 1 /\ Size(h) \in Nat /\ h.text = text /\ DOMAIN text = 1 .. Size(h)
      /\ \A p \in 1 .. Size(h) + 1 : Pt(h, p).loc \subseteq Binding
      /\ Lets(h) /\ ScopeOK(h)
  <2>1. h.text \in Seq(Plain \union Marks)
    BY DEF Accepted, Annotated
  <2>2. Size(h) \in Nat /\ DOMAIN h.text = 1 .. Size(h)
    BY <2>1 DEF Size
  <2> QED
    BY <2>2 DEF Accepted, Annotated, RunsAs, Typed
<1>1. /\ i \in 1 .. pc - 1 /\ i \in 1 .. Size(h) + 1
      /\ \A v \in Pt(h, pc).loc \ Pt(h, i).loc :
           \E q \in i + 1 .. pc - 1 : Op(h, q) = "let" /\ h.text[q].v = v
  BY <1>0 DEF Leaves
<1>2. \A v \in Binding : slot[v] # "none" <=> v \in Pt(h, pc).loc
  BY DEF RunsAs
<1>3. ASSUME NEW v \in DeclaredAfter(i) PROVE v \in Pt(h, pc).loc \ Pt(h, i).loc
  <2>1. v \in Binding /\ slot[v] # "none"
    BY DEF DeclaredAfter
  <2>2. PICK k \in 1 .. Size(h) : k > i /\ Op(h, k) = "let" /\ h.text[k].v = v
    BY <1>0 DEF DeclaredAfter, Op
  <2>3. ASSUME v \in Pt(h, i).loc PROVE FALSE
    <3>1. PICK q \in 1 .. i - 1 : Op(h, q) = "let" /\ h.text[q].v = v
      BY <1>0, <1>1, <2>3 DEF ScopeOK
    <3>2. q \in 1 .. Size(h) /\ q # k
      BY <1>0, <1>1, <2>2, <3>1
    <3> QED
      BY <1>0, <2>2, <3>1, <3>2 DEF Lets
  <2> QED
    BY <1>2, <2>1, <2>3
<1>4. ASSUME NEW v \in Pt(h, pc).loc \ Pt(h, i).loc PROVE v \in DeclaredAfter(i)
  <2>1. PICK q \in i + 1 .. pc - 1 : Op(h, q) = "let" /\ h.text[q].v = v
    BY <1>1
  <2>2. q \in DOMAIN text /\ q > i /\ text[q].op = "let" /\ text[q].v = v
    BY <1>0, <1>1, <2>1 DEF Op
  <2>3. v \in Binding /\ slot[v] # "none"
    BY <1>0, <1>2
  <2> QED
    BY <2>2, <2>3 DEF DeclaredAfter
<1> QED
  BY <1>3, <1>4

\* A return leaves everything in scope.
LEMMA AllDeclared ==
  ASSUME NEW h, Accepted(h), RunsAs(h)
  PROVE  DeclaredAfter(0) = Pt(h, pc).loc
<1>0. /\ pc \in 1 .. Size(h) + 1 /\ Size(h) \in Nat /\ h.text = text /\ DOMAIN text = 1 .. Size(h)
      /\ \A p \in 1 .. Size(h) + 1 : Pt(h, p).loc \subseteq Binding
      /\ ScopeOK(h)
  <2>1. h.text \in Seq(Plain \union Marks)
    BY DEF Accepted, Annotated
  <2>2. Size(h) \in Nat /\ DOMAIN h.text = 1 .. Size(h)
    BY <2>1 DEF Size
  <2> QED
    BY <2>2 DEF Accepted, Annotated, RunsAs, Typed
<1>2. \A v \in Binding : slot[v] # "none" <=> v \in Pt(h, pc).loc
  BY DEF RunsAs
<1>3. ASSUME NEW v \in DeclaredAfter(0) PROVE v \in Pt(h, pc).loc
  BY <1>2 DEF DeclaredAfter
<1>4. ASSUME NEW v \in Pt(h, pc).loc PROVE v \in DeclaredAfter(0)
  <2>1. PICK q \in 1 .. pc - 1 : Op(h, q) = "let" /\ h.text[q].v = v
    BY <1>0 DEF ScopeOK
  <2>2. q \in DOMAIN text /\ q > 0 /\ text[q].op = "let" /\ text[q].v = v
    BY <1>0, <2>1 DEF Op
  <2>3. v \in Binding /\ slot[v] # "none"
    BY <1>0, <1>2
  <2> QED
    BY <2>2, <2>3 DEF DeclaredAfter
<1> QED
  BY <1>3, <1>4

\* A jump out of the construct at i, to a point in the scope that encloses it.
LEMMA JumpRuns ==
  ASSUME NEW h, Accepted(h), RunsAs(h), NEW i, Leaves(h, pc, i),
         Unwind(DeclaredAfter(i)),
         kind \in [Binding -> {"box", "handle"}],
         kind' = kind, forgotten' = forgotten, misjudged' = misjudged,
         NEW q \in 1 .. Size(h) + 1, pc' = q, Pt(h, q).loc = Pt(h, i).loc,
         Flows(h, pc, q)
  PROVE  RunsAs(h)'
<1>1. PICK x : x = pc
  OBVIOUS
<1>2. PICK bs : bs = Pt(h, x).loc \ Pt(h, i).loc
  OBVIOUS
<1>3. DeclaredAfter(i) = bs
  BY <1>1, <1>2, DeclaredIs
<1>4. /\ slot' = [v \in Binding |-> IF v \in bs THEN "none" ELSE slot[v]]
      /\ alive' = alive \ {v \in bs : kind[v] = "box" /\ slot[v] = "live"}
      /\ lost' = lost \union {v \in bs : kind[v] # "box" /\ slot[v] = "live"}
  BY <1>3 DEF Unwind, Dropped
<1>5. /\ ~Pt(h, x).d
      /\ \A v \in Binding : /\ slot[v] # "none" <=> v \in Pt(h, x).loc
                            /\ slot[v] = "nil" => v \in Pt(h, x).m \union forgotten
                            /\ slot[v] = "live" /\ kind[v] = "handle" /\ v \in Pt(h, x).c => v \in misjudged
                            /\ v \in alive => slot[v] = "live" \/ v \in lost
      /\ lost \subseteq misjudged
  BY <1>1 DEF RunsAs
<1>6. /\ ~Pt(h, q).d
      /\ \A v \in Pt(h, q).loc :
           /\ v \in Pt(h, x).m => v \in Pt(h, q).m \union forgotten
           /\ v \in Pt(h, q).c => v \in Pt(h, x).c \union misjudged
  BY <1>1, <1>5 DEF Flows, Accepted
<1>7. /\ Pt(h, i).loc \subseteq Pt(h, x).loc
      /\ \A v \in bs : kind[v] = "handle" => v \in Pt(h, x).c
  BY <1>1, <1>2, <1>5 DEF Leaves, Accepted
<1>8. bs \subseteq Binding
  <2>1. x \in 1 .. Size(h) + 1
    BY <1>1 DEF RunsAs
  <2> QED
    BY <1>2, <2>1 DEF Accepted, Annotated, Typed
<1>9. \A v \in bs : slot[v] = "live" /\ kind[v] # "box" => v \in misjudged
  BY <1>5, <1>7, <1>8
<1>10. ASSUME NEW v \in Binding
       PROVE  /\ slot'[v] # "none" <=> v \in Pt(h, q).loc
              /\ slot'[v] = "nil" => v \in Pt(h, q).m \union forgotten'
              /\ slot'[v] = "live" /\ kind'[v] = "handle" /\ v \in Pt(h, q).c => v \in misjudged'
              /\ v \in alive' => slot'[v] = "live" \/ v \in lost'
  <2>1. slot'[v] = IF v \in bs THEN "none" ELSE slot[v]
    BY <1>4
  <2>2. slot'[v] # "none" <=> v \in Pt(h, q).loc
    BY <1>2, <1>5, <1>7, <2>1
  <2>3. slot'[v] = "nil" => v \in Pt(h, q).m \union forgotten'
    BY <1>5, <1>6, <2>1, <2>2
  <2>4. slot'[v] = "live" /\ kind'[v] = "handle" /\ v \in Pt(h, q).c => v \in misjudged'
    BY <1>5, <1>6, <2>1, <2>2
  <2>5. v \in alive' => slot'[v] = "live" \/ v \in lost'
    BY <1>4, <1>5, <2>1
  <2> QED
    BY <2>2, <2>3, <2>4, <2>5
<1>11. lost' \subseteq misjudged'
  BY <1>4, <1>5, <1>9
<1> QED
  BY <1>6, <1>10, <1>11 DEF RunsAs

\* A jump within a scope.
LEMMA StayRuns ==
  ASSUME NEW h, Accepted(h), RunsAs(h), Stay,
         kind' = kind, forgotten' = forgotten, misjudged' = misjudged,
         NEW q \in 1 .. Size(h) + 1, pc' = q, Pt(h, q).loc = Pt(h, pc).loc,
         Flows(h, pc, q)
  PROVE  RunsAs(h)'
<1>1. PICK x : x = pc
  OBVIOUS
<1>5. /\ ~Pt(h, x).d
      /\ \A v \in Binding : /\ slot[v] # "none" <=> v \in Pt(h, x).loc
                            /\ slot[v] = "nil" => v \in Pt(h, x).m \union forgotten
                            /\ slot[v] = "live" /\ kind[v] = "handle" /\ v \in Pt(h, x).c => v \in misjudged
                            /\ v \in alive => slot[v] = "live" \/ v \in lost
      /\ lost \subseteq misjudged
  BY <1>1 DEF RunsAs
<1>6. /\ ~Pt(h, q).d
      /\ \A v \in Pt(h, q).loc :
           /\ v \in Pt(h, x).m => v \in Pt(h, q).m \union forgotten
           /\ v \in Pt(h, q).c => v \in Pt(h, x).c \union misjudged
  BY <1>1, <1>5 DEF Flows, Accepted
<1>7. slot' = slot /\ alive' = alive /\ lost' = lost
  BY DEF Stay
<1>8. \A v \in Binding : /\ slot'[v] # "none" <=> v \in Pt(h, q).loc
                         /\ slot'[v] = "nil" => v \in Pt(h, q).m \union forgotten'
                         /\ slot'[v] = "live" /\ kind'[v] = "handle" /\ v \in Pt(h, q).c => v \in misjudged'
                         /\ v \in alive' => slot'[v] = "live" \/ v \in lost'
  BY <1>1, <1>5, <1>6, <1>7
<1> QED
  BY <1>5, <1>6, <1>7, <1>8 DEF RunsAs
-----------------------------------------------------------------------------
(* Running: the straight line *)

\* The statement that runs, and what is known of it.
LEMMA RunsHere ==
  ASSUME NEW h, Accepted(h), RunsAs(h), NEW op, Runs(op)
  PROVE  /\ pc \in 1 .. Size(h) /\ pc \in 1 .. Size(h) + 1 /\ pc + 1 \in 1 .. Size(h) + 1 /\ Size(h) \in Nat
         /\ Op(h, pc) = op /\ text[pc].op = op /\ h.text = text /\ Good(h, pc) /\ ~Pt(h, pc).d
<1>1. /\ h.text = text /\ Size(h) = Len(text) /\ pc \in 1 .. Size(h) + 1 /\ h.text \in Seq(Plain \union Marks)
      /\ pc <= Len(text) /\ text[pc].op = op /\ ~Pt(h, pc).d
  BY DEF Accepted, Annotated, Size, RunsAs, Runs
<1>2. Size(h) \in Nat
  BY <1>1 DEF Size
<1>3. pc \in 1 .. Size(h) /\ pc + 1 \in 1 .. Size(h) + 1
  BY <1>1, <1>2
<1>4. Good(h, pc)
  BY <1>3 DEF Accepted, Annotated
<1> QED
  BY <1>1, <1>2, <1>3, <1>4 DEF Op

\* A declaration that runs fills the slot.
LEMMA LetRuns ==
  ASSUME NEW h, Accepted(h), RunsAs(h), slot \in [Binding -> {"none", "live", "nil"}],
         RunLet
  PROVE  RunsAs(h)'
<1>1. PICK p, v : p = pc /\ v = text[pc].v
  OBVIOUS
<1>2. Runs("let") /\ slot' = [slot EXCEPT ![v] = "live"] /\ alive' = alive \union {v} /\ lost' = lost
      /\ pc' = p + 1 /\ kind' = kind /\ forgotten' = forgotten /\ misjudged' = misjudged
  BY <1>1 DEF RunLet, Goto, checker
<1>3. p + 1 \in 1 .. Size(h) + 1 /\ LetOK(h, p) /\ v = h.text[p].v /\ ~Pt(h, p).d
  BY <1>1, <1>2, RunsHere DEF Good
<1>4. /\ v \in Binding
      /\ Pt(h, p + 1).loc = Pt(h, p).loc \union {v} /\ Pt(h, p + 1).m = Pt(h, p).m \ {v}
      /\ Pt(h, p + 1).c = Pt(h, p).c \ {v} /\ Pt(h, p + 1).d = Pt(h, p).d
  BY <1>3 DEF LetOK
<1>5. /\ \A w \in Binding : /\ slot[w] # "none" <=> w \in Pt(h, p).loc
                            /\ slot[w] = "nil" => w \in Pt(h, p).m \union forgotten
                            /\ slot[w] = "live" /\ kind[w] = "handle" /\ w \in Pt(h, p).c => w \in misjudged
                            /\ w \in alive => slot[w] = "live" \/ w \in lost
      /\ lost \subseteq misjudged
  BY <1>1 DEF RunsAs
<1>6. \A w \in Binding : /\ slot'[w] # "none" <=> w \in Pt(h, p + 1).loc
                         /\ slot'[w] = "nil" => w \in Pt(h, p + 1).m \union forgotten'
                         /\ slot'[w] = "live" /\ kind'[w] = "handle" /\ w \in Pt(h, p + 1).c => w \in misjudged'
                         /\ w \in alive' => slot'[w] = "live" \/ w \in lost'
  <2>1. TAKE w \in Binding
  <2>2. slot'[w] = IF w = v THEN "live" ELSE slot[w]
    BY <1>2
  <2> QED
    BY <1>2, <1>4, <1>5, <2>2
<1> QED
  BY <1>2, <1>3, <1>4, <1>5, <1>6 DEF RunsAs

\* A read that moves clears the slot.
LEMMA TakeRuns ==
  ASSUME NEW h, Accepted(h), RunsAs(h), slot \in [Binding -> {"none", "live", "nil"}],
         RunTake
  PROVE  RunsAs(h)'
<1>1. PICK p, v : p = pc /\ v = text[pc].v
  OBVIOUS
<1>2. Runs("take") /\ slot' = [slot EXCEPT ![v] = "nil"] /\ alive' = alive \ {v} /\ lost' = lost
      /\ pc' = p + 1 /\ kind' = kind /\ forgotten' = forgotten /\ misjudged' = misjudged
  BY <1>1 DEF RunTake, Cleared, Goto, checker
<1>3. p \in 1 .. Size(h) + 1 /\ p + 1 \in 1 .. Size(h) + 1 /\ TakeOK(h, p) /\ v = h.text[p].v /\ ~Pt(h, p).d
  BY <1>1, <1>2, RunsHere DEF Good
<1>4. /\ v \in Pt(h, p).loc
      /\ Pt(h, p + 1).loc = Pt(h, p).loc /\ Pt(h, p + 1).m = Pt(h, p).m \union {v}
      /\ Pt(h, p + 1).c = Pt(h, p).c \union {v} /\ Pt(h, p + 1).d = Pt(h, p).d
  BY <1>3 DEF TakeOK
<1>5. /\ \A w \in Binding : /\ slot[w] # "none" <=> w \in Pt(h, p).loc
                            /\ slot[w] = "nil" => w \in Pt(h, p).m \union forgotten
                            /\ slot[w] = "live" /\ kind[w] = "handle" /\ w \in Pt(h, p).c => w \in misjudged
                            /\ w \in alive => slot[w] = "live" \/ w \in lost
      /\ lost \subseteq misjudged
  BY <1>1 DEF RunsAs
<1>6. \A w \in Binding : /\ slot'[w] # "none" <=> w \in Pt(h, p + 1).loc
                         /\ slot'[w] = "nil" => w \in Pt(h, p + 1).m \union forgotten'
                         /\ slot'[w] = "live" /\ kind'[w] = "handle" /\ w \in Pt(h, p + 1).c => w \in misjudged'
                         /\ w \in alive' => slot'[w] = "live" \/ w \in lost'
  <2>1. TAKE w \in Binding
  <2>2. slot'[w] = IF w = v THEN "nil" ELSE slot[w]
    BY <1>2
  <2> QED
    BY <1>2, <1>4, <1>5, <2>2
<1> QED
  BY <1>2, <1>3, <1>4, <1>5, <1>6 DEF RunsAs

\* An assignment fills the slot; a handle there was misjudged or is gone.
LEMMA SetRuns ==
  ASSUME NEW h, Accepted(h), RunsAs(h), slot \in [Binding -> {"none", "live", "nil"}],
         kind \in [Binding -> {"box", "handle"}], RunSet
  PROVE  RunsAs(h)'
<1>1. PICK p, v : p = pc /\ v = text[pc].v
  OBVIOUS
<1>2. Runs("set") /\ slot' = [slot EXCEPT ![v] = "live"] /\ alive' = alive \union {v}
      /\ lost' = (IF slot[v] = "live" /\ v \notin Dropped({v}) THEN lost \union {v} ELSE lost)
      /\ pc' = p + 1 /\ kind' = kind /\ forgotten' = forgotten /\ misjudged' = misjudged
  BY <1>1 DEF RunSet, Goto, checker
<1>3. p \in 1 .. Size(h) + 1 /\ p + 1 \in 1 .. Size(h) + 1 /\ SetOK(h, p) /\ v = h.text[p].v /\ ~Pt(h, p).d
  BY <1>1, <1>2, RunsHere DEF Good
<1>4. /\ v \in Pt(h, p).loc /\ (kind[v] = "handle" => v \in Pt(h, p).c)
      /\ Pt(h, p + 1).loc = Pt(h, p).loc /\ Pt(h, p + 1).m = Pt(h, p).m \ {v}
      /\ Pt(h, p + 1).c = (IF kind[v] = "handle" THEN Pt(h, p).c \ {v} ELSE Pt(h, p).c)
      /\ Pt(h, p + 1).d = Pt(h, p).d
  BY <1>3 DEF SetOK, Accepted
<1>5. /\ \A w \in Binding : /\ slot[w] # "none" <=> w \in Pt(h, p).loc
                            /\ slot[w] = "nil" => w \in Pt(h, p).m \union forgotten
                            /\ slot[w] = "live" /\ kind[w] = "handle" /\ w \in Pt(h, p).c => w \in misjudged
                            /\ w \in alive => slot[w] = "live" \/ w \in lost
      /\ lost \subseteq misjudged
  BY <1>1 DEF RunsAs
<1>6. v \in Binding
  BY <1>3, <1>4 DEF Accepted, Annotated, Typed
<1>7. lost' \subseteq misjudged /\ lost \subseteq lost'
  BY <1>2, <1>4, <1>5, <1>6 DEF Dropped
<1>8. \A w \in Binding : /\ slot'[w] # "none" <=> w \in Pt(h, p + 1).loc
                         /\ slot'[w] = "nil" => w \in Pt(h, p + 1).m \union forgotten'
                         /\ slot'[w] = "live" /\ kind'[w] = "handle" /\ w \in Pt(h, p + 1).c => w \in misjudged'
                         /\ w \in alive' => slot'[w] = "live" \/ w \in lost'
  <2>1. TAKE w \in Binding
  <2>2. slot'[w] = IF w = v THEN "live" ELSE slot[w]
    BY <1>2, <1>6
  <2>3. w \in Pt(h, p + 1).c => w \in Pt(h, p).c
    BY <1>4
  <2>4. CASE w = v
    BY <1>2, <1>4, <1>6, <2>2, <2>4
  <2>5. CASE w # v
    BY <1>2, <1>4, <1>5, <1>7, <2>2, <2>3, <2>5
  <2> QED
    BY <2>4, <2>5
<1> QED
  BY <1>2, <1>3, <1>4, <1>7, <1>8 DEF RunsAs

\* A read leads on.
LEMMA UseRuns ==
  ASSUME NEW h, Accepted(h), RunsAs(h), RunUse
  PROVE  RunsAs(h)'
<1>1. PICK p : p = pc
  OBVIOUS
<1>2. Runs("use") /\ Stay /\ pc' = p + 1 /\ kind' = kind /\ forgotten' = forgotten /\ misjudged' = misjudged
  BY <1>1 DEF RunUse, Goto, checker
<1>3. p + 1 \in 1 .. Size(h) + 1 /\ UseOK(h, p) /\ ~Pt(h, p).d
  BY <1>1, <1>2, RunsHere DEF Good
<1>4. Pt(h, p + 1).loc = Pt(h, p).loc /\ Flows(h, p, p + 1)
  BY <1>3 DEF UseOK, Same, Flows
<1> QED
  BY <1>1, <1>2, <1>3, <1>4, StayRuns
-----------------------------------------------------------------------------
(* Running: branches, loops and returns *)

\* A branch of an `if` or an arm of a `match`, or past an `if` with no else.
LEMMA BranchRuns ==
  ASSUME NEW h, Accepted(h), RunsAs(h), RunBranch
  PROVE  RunsAs(h)'
<1>1. PICK i, op : i = pc /\ op \in {"if", "match"} /\ Runs(op)
  BY DEF RunBranch
<1>2. /\ i \in 1 .. Size(h) /\ i + 1 \in 1 .. Size(h) + 1 /\ Size(h) \in Nat
      /\ Op(h, i) = op /\ text[i].op = op /\ Good(h, i) /\ ~Pt(h, i).d
  BY <1>1, RunsHere
<1>3. /\ Stay /\ kind' = kind /\ forgotten' = forgotten /\ misjudged' = misjudged
      /\ \/ \E j \in Arms(i) : pc' = j + 1
         \/ op = "if" /\ Cardinality(Arms(i)) = 1 /\ pc' = Close(i) + 1
  BY <1>1, <1>2 DEF RunBranch, Goto, checker
<1>4. Op(h, i) \in Openers /\ Op(h, i) \in {"if", "match"}
  BY <1>1, <1>2 DEF Openers
<1>5. Same(Pt(h, i), Pt(h, i + 1))
  BY <1>2, <1>4 DEF Good, OpenOK
<1>6. CASE \E j \in Arms(i) : pc' = j + 1
  <2>1. PICK j \in Arms(i) : pc' = j + 1
    BY <1>6
  <2>2. j \in 1 .. Size(h) /\ (j = i \/ (Op(h, j) \in {"else", "case"} /\ At(h, j) = i))
    BY <1>2, <1>4, <2>1, ArmsAre
  <2>3. Same(Pt(h, i), Pt(h, j + 1))
    <3>1. CASE j = i
      BY <1>5, <3>1
    <3>2. CASE Op(h, j) \in {"else", "case"} /\ At(h, j) = i
      <4>1. Good(h, j)
        BY <2>2 DEF Accepted, Annotated
      <4> QED
        BY <3>2, <4>1 DEF Good, ArmOK
    <3> QED
      BY <2>2, <3>1, <3>2
  <2>4. j + 1 \in 1 .. Size(h) + 1 /\ Pt(h, j + 1).loc = Pt(h, i).loc /\ Flows(h, i, j + 1)
    BY <1>2, <2>2, <2>3 DEF Same, Flows
  <2> QED
    BY <1>1, <1>3, <2>1, <2>4, StayRuns
<1>7. CASE op = "if" /\ Cardinality(Arms(i)) = 1 /\ pc' = Close(i) + 1
  <2>1. PICK c \in i + 1 .. Size(h) : c = Close(i) /\ EndOK(h, c) /\ At(h, c) = i
    BY <1>2, <1>4, Ended
  <2>2. ASSUME NEW e \in 1 .. c - 1, Op(h, e) = "else", At(h, e) = i
        PROVE  FALSE
    <3>1. e \in 1 .. Size(h)
      BY <1>2, <2>1
    <3>2. e \in Arms(i) /\ IsFiniteSet(Arms(i)) /\ i \in Arms(i)
      BY <1>2, <1>4, <2>2, <3>1, ArmsAre DEF Arms
    <3>3. \E x : Arms(i) = {x}
      BY <1>7, <3>2, FS_Singleton
    <3>4. e = i
      BY <3>2, <3>3
    <3> QED
      BY <1>2, <1>7, <2>2, <3>4
  <2>3. Flows(h, i, c + 1) /\ Pt(h, c + 1).loc = Pt(h, i).loc
    BY <1>2, <1>7, <2>1, <2>2 DEF EndOK
  <2>4. c + 1 \in 1 .. Size(h) + 1
    BY <1>2, <2>1
  <2> QED
    BY <1>1, <1>3, <1>7, <2>1, <2>3, <2>4, StayRuns
<1> QED
  BY <1>3, <1>6, <1>7

\* Into a loop, or past a `for` that has nothing left.
LEMMA LoopRuns ==
  ASSUME NEW h, Accepted(h), RunsAs(h), RunLoop \/ RunFor
  PROVE  RunsAs(h)'
<1>1. PICK i, op : i = pc /\ op \in Loops /\ Runs(op) /\ (op = "for" <=> Runs("for"))
  BY DEF RunLoop, RunFor, Loops, Runs
<1>2. /\ i \in 1 .. Size(h) /\ i + 1 \in 1 .. Size(h) + 1 /\ Size(h) \in Nat
      /\ Op(h, i) = op /\ Good(h, i) /\ ~Pt(h, i).d
  BY <1>1, RunsHere
<1>3. /\ Stay /\ kind' = kind /\ forgotten' = forgotten /\ misjudged' = misjudged
      /\ \/ pc' = i + 1
         \/ op = "for" /\ pc' = Close(i) + 1
  BY <1>1 DEF RunLoop, RunFor, Goto, checker
<1>4. Op(h, i) \in Openers
  BY <1>1, <1>2 DEF Openers
<1>5. Pt(h, i + 1).loc = Pt(h, i).loc /\ Flows(h, i, i + 1)
  BY <1>2, <1>4 DEF Good, OpenOK, Same, Flows
<1>6. CASE pc' = i + 1
  BY <1>1, <1>2, <1>3, <1>5, <1>6, StayRuns
<1>7. CASE op = "for" /\ pc' = Close(i) + 1
  <2>1. PICK c \in i + 1 .. Size(h) : c = Close(i) /\ EndOK(h, c) /\ At(h, c) = i
    BY <1>2, <1>4, Ended
  <2>2. Flows(h, i, c + 1) /\ Pt(h, c + 1).loc = Pt(h, i).loc
    BY <1>2, <1>7, <2>1 DEF EndOK
  <2>3. c + 1 \in 1 .. Size(h) + 1
    BY <1>2, <2>1
  <2> QED
    BY <1>1, <1>3, <1>7, <2>1, <2>2, <2>3, StayRuns
<1> QED
  BY <1>3, <1>6, <1>7

\* The jumps to the end of a construct: from the end of a branch, and a break.
LEMMA LeaveRuns ==
  ASSUME NEW h, Accepted(h),
         RunsAs(h), kind \in [Binding -> {"box", "handle"}], RunArmEnd \/ RunBreak
  PROVE  RunsAs(h)'
<1>1. PICK p, op : p = pc /\ op \in {"else", "case", "break"} /\ Runs(op) /\ (op = "break" <=> Runs("break"))
  BY DEF RunArmEnd, RunBreak, Runs
<1>2. p \in 1 .. Size(h) /\ Op(h, p) = op
  BY <1>1, RunsHere
<1>3. PICK i : i = At(h, p)
  OBVIOUS
<1>4. /\ Leaves(h, p, i)
      /\ op # "break" => Around(Openers, p) = i
      /\ op = "break" => Around(Loops, p) = i
  BY <1>1, <1>2, <1>3, AroundEnd, AroundJump
<1>5. /\ Unwind(DeclaredAfter(i)) /\ pc' = Close(i) + 1
      /\ kind' = kind /\ forgotten' = forgotten /\ misjudged' = misjudged
  BY <1>1, <1>4 DEF RunArmEnd, RunBreak, Runs, Goto, checker
<1>6. PICK c : /\ c = Close(i) /\ c + 1 \in 1 .. Size(h) + 1
               /\ Pt(h, c + 1).loc = Pt(h, i).loc /\ Flows(h, p, c + 1)
  BY <1>1, <1>2, <1>3, ToTheEnd
<1>7. PICK q \in 1 .. Size(h) + 1 : q = c + 1
  BY <1>6
<1>8. pc' = q /\ Pt(h, q).loc = Pt(h, i).loc /\ Flows(h, pc, q) /\ Leaves(h, pc, i)
  BY <1>1, <1>4, <1>5, <1>6, <1>7
<1> QED
  BY <1>5, <1>8, JumpRuns

\* The end of a construct, back to the top of a loop.
LEMMA EndRuns ==
  ASSUME NEW h, Accepted(h), RunsAs(h), kind \in [Binding -> {"box", "handle"}], RunEnd
  PROVE  RunsAs(h)'
<1>1. PICK p : p = pc /\ Runs("end")
  BY DEF RunEnd
<1>2. p \in 1 .. Size(h) /\ p + 1 \in 1 .. Size(h) + 1 /\ Op(h, p) = "end" /\ Good(h, p) /\ h.text = text
      /\ Size(h) \in Nat
  BY <1>1, RunsHere
<1>3. PICK i : i = At(h, p)
  OBVIOUS
<1>4. i \in 1 .. p - 1 /\ Leaves(h, p, i) /\ Around(Openers, p) = i
  BY <1>2, <1>3, AroundEnd
<1>5. PICK q : q = IF Op(h, i) \in Loops THEN i ELSE p + 1
  OBVIOUS
<1>6. /\ Unwind(DeclaredAfter(i)) /\ pc' = q
      /\ kind' = kind /\ forgotten' = forgotten /\ misjudged' = misjudged
  BY <1>1, <1>2, <1>4, <1>5 DEF RunEnd, Goto, checker, Op
<1>7. EndOK(h, p)
  BY <1>2 DEF Good
<1>8. q \in 1 .. Size(h) + 1 /\ Pt(h, q).loc = Pt(h, i).loc /\ Flows(h, p, q)
  <2>1. i \in 1 .. Size(h) + 1
    BY <1>2, <1>4
  <2> QED
    BY <1>2, <1>3, <1>5, <1>7, <2>1 DEF EndOK
<1>9. Flows(h, pc, q) /\ Leaves(h, pc, i)
  BY <1>1, <1>4, <1>8
<1> QED
  BY <1>6, <1>8, <1>9, JumpRuns

\* A continue, back to the top of its loop.
LEMMA ContinueRuns ==
  ASSUME NEW h, Accepted(h), RunsAs(h), kind \in [Binding -> {"box", "handle"}],
         RunContinue
  PROVE  RunsAs(h)'
<1>1. PICK p : p = pc /\ Runs("continue")
  BY DEF RunContinue
<1>2. p \in 1 .. Size(h) /\ Op(h, p) = "continue" /\ Size(h) \in Nat
  BY <1>1, RunsHere
<1>3. PICK i : i = At(h, p)
  OBVIOUS
<1>4. /\ i \in 1 .. p - 1 /\ Leaves(h, p, i) /\ Within(h, i, p)
      /\ Op(h, i) \in Openers /\ Around(Loops, p) = i
  BY <1>2, <1>3, AroundJump DEF Leaves, Openers
<1>5. /\ Unwind(DeclaredAfter(i)) /\ pc' = i
      /\ kind' = kind /\ forgotten' = forgotten /\ misjudged' = misjudged
  BY <1>1, <1>4 DEF RunContinue, Goto, checker
<1>6. i \in 1 .. Size(h) /\ i \in 1 .. Size(h) + 1 /\ p \in i + 1 .. Size(h)
  BY <1>2, <1>4
<1>7. PICK c \in i + 1 .. Size(h) : c = Close(i) /\ Op(h, c) = "end" /\ At(h, c) = i /\ EndOK(h, c)
  BY <1>4, <1>6, Ended
<1>8. p <= c /\ p # c
  BY <1>2, <1>4, <1>6, <1>7, InsideIs
<1>9. p \in 1 .. c - 1
  BY <1>2, <1>6, <1>7, <1>8
<1>10. Flows(h, p, i)
  BY <1>2, <1>3, <1>7, <1>9 DEF EndOK
<1>11. Flows(h, pc, i) /\ Leaves(h, pc, i)
  BY <1>1, <1>4, <1>10
<1> QED
  BY <1>5, <1>6, <1>11, JumpRuns

\* At a return, and at the end of the body, everything is released.
LEMMA ReturnRuns ==
  ASSUME NEW h, Accepted(h), RunsAs(h), kind \in [Binding -> {"box", "handle"}],
         alive \subseteq Binding, RunReturn
  PROVE  /\ lost' \subseteq misjudged' /\ alive' \subseteq misjudged'
<1>1. PICK p : p = pc
  OBVIOUS
<1>2. /\ pc \in DOMAIN text => text[pc].op = "return"
      /\ phase = "run" /\ Unwind(DeclaredAfter(0)) /\ misjudged' = misjudged
  BY DEF RunReturn, checker
<1>3. /\ p \in 1 .. Size(h) + 1 /\ ~Pt(h, p).d
      /\ \A v \in Binding : /\ slot[v] # "none" <=> v \in Pt(h, p).loc
                            /\ slot[v] = "live" /\ kind[v] = "handle" /\ v \in Pt(h, p).c => v \in misjudged
                            /\ v \in alive => slot[v] = "live" \/ v \in lost
      /\ lost \subseteq misjudged
  BY <1>1 DEF RunsAs
<1>4. AllClosed(h, p)
  <2>1. h.text \in Seq(Plain \union Marks) /\ h.text = text /\ Size(h) = Len(text) /\ AllClosed(h, Size(h) + 1)
    BY DEF Accepted, Annotated, Size
  <2>2. Size(h) \in Nat /\ DOMAIN text = 1 .. Size(h)
    BY <2>1
  <2>3. CASE p = Size(h) + 1
    BY <2>1, <2>3
  <2>4. CASE p \in 1 .. Size(h)
    <3>1. Op(h, p) = "return" /\ Good(h, p)
      BY <1>1, <1>2, <2>1, <2>2, <2>4 DEF Accepted, Annotated, Op
    <3> QED
      BY <3>1 DEF Good, ReturnOK
  <2> QED
    BY <1>3, <2>2, <2>3, <2>4
<1>5. DeclaredAfter(0) = Pt(h, p).loc
  BY <1>1, AllDeclared
<1>6. /\ alive' = alive \ {v \in Pt(h, p).loc : kind[v] = "box" /\ slot[v] = "live"}
      /\ lost' = lost \union {v \in Pt(h, p).loc : kind[v] # "box" /\ slot[v] = "live"}
  BY <1>2, <1>5 DEF Unwind, Dropped
<1>7. \A v \in Pt(h, p).loc : kind[v] = "handle" => v \in Pt(h, p).c
  BY <1>3, <1>4 DEF AllClosed, Accepted
<1>8. Pt(h, p).loc \subseteq Binding
  BY <1>3 DEF Accepted, Annotated, Typed
<1>9. \A v \in Pt(h, p).loc : slot[v] = "live" /\ kind[v] # "box" => v \in misjudged
  BY <1>3, <1>7, <1>8
<1>10. ASSUME NEW v \in alive' PROVE v \in misjudged
  BY <1>3, <1>6, <1>9
<1> QED
  BY <1>2, <1>3, <1>6, <1>9, <1>10

\* A read in an accepted body finds the value, or the checker forgot its move.
LEMMA ReadFinds ==
  ASSUME NEW h, Accepted(h), RunsAs(h), slot \in [Binding -> {"none", "live", "nil"}],
         Runs("use") \/ Runs("take")
  PROVE  slot[text[pc].v] = "live" \/ text[pc].v \in forgotten
<1>1. PICK p, v : p = pc /\ v = text[pc].v
  OBVIOUS
<1>2. p \in 1 .. Size(h) + 1 /\ (UseOK(h, p) \/ TakeOK(h, p)) /\ v = h.text[p].v
  BY <1>1, RunsHere DEF Good
<1>3. v \in Pt(h, p).loc /\ v \notin Pt(h, p).m
  BY <1>2 DEF UseOK, TakeOK
<1>4. v \in Binding
  BY <1>2, <1>3 DEF Accepted, Annotated, Typed
<1>5. slot[v] # "none" /\ (slot[v] = "nil" => v \in Pt(h, p).m \union forgotten)
  BY <1>1, <1>3, <1>4 DEF RunsAs
<1> QED
  BY <1>1, <1>3, <1>4, <1>5
-----------------------------------------------------------------------------
(* The theorems *)

\* The running program's variables keep their types.
RunTypes == slot \in [Binding -> {"none", "live", "nil"}] /\ alive \subseteq Binding /\ lost \subseteq Binding

\* Leaving scopes keeps them,
LEMMA UnwindTypes ==
  ASSUME RunTypes, NEW i, Unwind(DeclaredAfter(i))
  PROVE  RunTypes'
BY DEF RunTypes, Unwind, DeclaredAfter

\* doing nothing keeps them,
LEMMA StayTypes ==
  ASSUME RunTypes, UNCHANGED <<slot, alive, lost>>
  PROVE  RunTypes'
BY DEF RunTypes

\* a statement with a binding names one,
LEMMA NamesBinding ==
  ASSUME NEW h, Accepted(h), RunsAs(h), NEW op \in {"let", "take", "set"}, Runs(op)
  PROVE  text[pc].v \in Binding
<1>1. pc \in 1 .. Size(h) /\ Op(h, pc) = op /\ h.text = text
  BY RunsHere
<1>2. \/ Op(h, pc) \in {"use", "take", "set", "let"} /\ h.text[pc].v \in Binding
      \/ Op(h, pc) \in Openers \union {"else", "case", "end", "break", "continue", "return"}
  BY <1>1, StatementTyped DEF Accepted
<1> QED
  BY <1>1, <1>2 DEF Openers, Loops

\* and so every statement that runs keeps them.
LEMMA RunKeepsTypes ==
  ASSUME NEW h, Accepted(h), RunsAs(h), RunTypes, Run
  PROVE  RunTypes'
<1>1. CASE RunLet
  <2>1. text[pc].v \in Binding
    BY <1>1, NamesBinding DEF RunLet
  <2> QED
    BY <1>1, <2>1 DEF RunLet, RunTypes
<1>2. CASE RunTake
  <2>1. text[pc].v \in Binding
    BY <1>2, NamesBinding DEF RunTake
  <2> QED
    BY <1>2, <2>1 DEF RunTake, RunTypes, Cleared
<1>3. CASE RunSet
  <2>1. text[pc].v \in Binding
    BY <1>3, NamesBinding DEF RunSet
  <2> QED
    BY <1>3, <2>1 DEF RunSet, RunTypes
<1>4. CASE RunUse \/ RunBranch \/ RunLoop \/ RunFor
  BY <1>4, StayTypes DEF RunUse, RunBranch, RunLoop, RunFor, Stay
<1>5. CASE Crash
  BY <1>5, StayTypes DEF Crash, run
<1>6. CASE RunArmEnd
  BY <1>6, UnwindTypes DEF RunArmEnd
<1>7. CASE RunEnd
  BY <1>7, UnwindTypes DEF RunEnd
<1>8. CASE RunBreak
  BY <1>8, UnwindTypes DEF RunBreak
<1>9. CASE RunContinue
  BY <1>9, UnwindTypes DEF RunContinue
<1>10. CASE RunReturn
  BY <1>10, UnwindTypes DEF RunReturn
<1> QED
  BY <1>1, <1>2, <1>3, <1>4, <1>5, <1>6, <1>7, <1>8, <1>9, <1>10 DEF Run

\* Running changes nothing the checker wrote.
LEMMA RunLeavesChecker ==
  ASSUME Run
  PROVE  /\ phase = "run"
         /\ UNCHANGED <<kind, checker>>
         /\ \/ phase' = "run" /\ ~Crash /\ ~RunReturn
            \/ phase' = "crashed" /\ Crash
            \/ phase' = "done" /\ RunReturn
<1>1. CASE RunLet \/ RunUse \/ RunTake \/ RunSet
  BY <1>1 DEF RunLet, RunUse, RunTake, RunSet, Goto, Runs, Crash, RunReturn
<1>2. CASE Crash
  BY <1>2 DEF Crash, Runs
<1>3. CASE RunBranch \/ RunLoop \/ RunFor
  BY <1>3 DEF RunBranch, RunLoop, RunFor, Goto, Runs, Crash, RunReturn
<1>4. CASE RunArmEnd \/ RunEnd \/ RunBreak \/ RunContinue
  BY <1>4 DEF RunArmEnd, RunEnd, RunBreak, RunContinue, Goto, Runs, Crash, RunReturn
<1>5. CASE RunReturn
  BY <1>5 DEF RunReturn
<1> QED
  BY <1>1, <1>2, <1>3, <1>4, <1>5 DEF Run

\* Every statement that runs and leads on keeps the agreement with the annotation.
LEMMA RunStep ==
  ASSUME NEW h, Accepted(h), RunsAs(h),
         RunTypes, kind \in [Binding -> {"box", "handle"}],
         Run, phase' = "run"
  PROVE  RunsAs(h)'
<1>0. ~Crash /\ ~RunReturn /\ slot \in [Binding -> {"none", "live", "nil"}]
  BY RunLeavesChecker DEF RunTypes
<1>1. CASE RunLet \/ RunUse \/ RunTake \/ RunSet
  BY <1>0, <1>1, LetRuns, UseRuns, TakeRuns, SetRuns
<1>2. CASE RunBranch \/ RunArmEnd \/ RunLoop \/ RunFor
  BY <1>2, BranchRuns, LeaveRuns, LoopRuns
<1>3. CASE RunEnd \/ RunBreak \/ RunContinue
  BY <1>3, EndRuns, LeaveRuns, ContinueRuns
<1> QED
  BY <1>0, <1>1, <1>2, <1>3 DEF Run

\* A statement that is checked runs nothing.
LEMMA CheckWrites ==
  ASSUME Check
  PROVE  /\ phase = "check" /\ UNCHANGED <<kind, run>>
         /\ \/ Finish /\ UNCHANGED checker
            \/ phase' \in {"check", "rejected"}
<1>1. ASSUME NEW s, NEW e, Write(s, e)
      PROVE  phase = "check" /\ UNCHANGED <<kind, run>> /\ phase' \in {"check", "rejected"}
  BY <1>1 DEF Write
<1>2. CASE \E v \in Binding : Let(v) \/ Use(v) \/ Take(v) \/ Set(v)
  BY <1>1, <1>2 DEF Let, Use, Take, Set
<1>3. CASE \E op \in Openers : Open(op)
  BY <1>1, <1>3 DEF Open
<1>4. CASE Else \/ EndIf \/ Case \/ EndMatch
  BY <1>1, <1>4 DEF Else, EndIf, Case, EndMatch
<1>5. CASE Break \/ Continue
  BY <1>1, <1>5 DEF Break, Continue, Jumps
<1>6. CASE EndLoop \/ Return
  BY <1>1, <1>6 DEF EndLoop, Return
<1>7. CASE Finish
  BY <1>7 DEF Finish
<1> QED
  BY <1>2, <1>3, <1>4, <1>5, <1>6, <1>7 DEF Check

\* An accepted body starts with nothing declared.
LEMMA RunStarts ==
  ASSUME NEW h, Accepted(h), Untouched
  PROVE  RunsAs(h)
<1>1. Size(h) \in Nat
  BY DEF Accepted, Annotated, Size
<1>2. Pt(h, 1).loc = {} /\ ~Pt(h, 1).d
  BY DEF Accepted, Annotated, Begins
<1> QED
  BY <1>1, <1>2 DEF RunsAs, Untouched

\* The inductive invariant: an annotation agrees with the checker while a body is
\* checked, and with the program while it runs.
Sound ==
  /\ CheckTypes /\ RunTypes /\ pc \in Nat
  /\ phase = "check" => Checked /\ Untouched
  /\ phase = "run" => \E h : Accepted(h) /\ RunsAs(h)
  /\ lost \subseteq misjudged
  /\ phase = "done" => alive \subseteq misjudged

\* It holds at the start,
LEMMA SoundStart ==
  ASSUME Init
  PROVE  Sound
<1>1. CheckTypes
  <2>1. dead \in BOOLEAN /\ diverges \in BOOLEAN
    BY Zenon DEF Init
  <2>2. frames = <<>> /\ locals = <<>> /\ text = <<>> /\ Len(frames) = 0
    BY DEF Init
  <2>3. text \in Seq(Plain \union Marks) /\ locals \in Seq(Binding) /\ frames \in Seq(Construct)
    BY <2>2
  <2>4. Bases
    BY <2>2 DEF Bases
  <2>5. /\ kind \in [Binding -> {"box", "handle"}] /\ phase \in Phases
        /\ moved \subseteq Binding /\ consumed \subseteq Binding
        /\ forgotten \subseteq Binding /\ misjudged \subseteq Binding
    BY DEF Init, Phases
  <2> QED
    BY <2>1, <2>3, <2>4, <2>5 DEF CheckTypes
<1>2. RunTypes /\ pc \in Nat /\ Untouched /\ phase = "check" /\ lost = {}
  BY DEF Init, RunTypes, Untouched
<1>3. Checked
  BY NothingWritten
<1> QED
  BY <1>1, <1>2, <1>3 DEF Sound

\* is kept by the checker,
LEMMA SoundCheck ==
  ASSUME Sound, Check
  PROVE  Sound'
<1>1. /\ phase = "check" /\ UNCHANGED <<kind, run>>
      /\ (Finish /\ UNCHANGED checker) \/ phase' \in {"check", "rejected"}
  BY CheckWrites
<1>2. CheckTypes /\ RunTypes /\ pc \in Nat /\ Checked /\ Untouched
  BY <1>1 DEF Sound
<1>3. CheckTypes'
  BY <1>2, CheckKeepsTypes
<1>4. RunTypes' /\ pc' \in Nat /\ Untouched' /\ lost' = {}
  BY <1>1, <1>2 DEF RunTypes, Untouched, run
<1>5. ASSUME phase' = "check" PROVE Checked'
  BY <1>2, <1>3, <1>5, CheckStep
<1>6. ASSUME phase' = "run" PROVE \E h : Accepted(h)' /\ RunsAs(h)'
  <2>1. Finish /\ UNCHANGED <<kind, checker, run>>
    BY <1>1, <1>6
  <2>2. PICK h : Accepted(h)
    BY <1>2, <1>6, <2>1, FinishAccepts
  <2>3. RunsAs(h)
    BY <1>2, <2>2, RunStarts
  <2>4. Accepted(h)' /\ RunsAs(h)'
    BY <2>1, <2>2, <2>3 DEF Accepted, RunsAs, checker, run
  <2> QED
    BY <2>4
<1>7. phase' # "done"
  BY <1>1 DEF Finish
<1> QED
  BY <1>3, <1>4, <1>5, <1>6, <1>7 DEF Sound

\* is kept by the program,
LEMMA SoundRun ==
  ASSUME Sound, Run
  PROVE  Sound'
<1>1. /\ phase = "run" /\ UNCHANGED <<kind, checker>>
      /\ \/ phase' = "run" /\ ~Crash /\ ~RunReturn
         \/ phase' = "crashed" /\ Crash
         \/ phase' = "done" /\ RunReturn
  BY RunLeavesChecker
<1>2. CheckTypes /\ RunTypes /\ pc \in Nat /\ lost \subseteq misjudged
  BY DEF Sound
<1>3. PICK h : Accepted(h) /\ RunsAs(h)
  BY <1>1 DEF Sound
<1>4. CheckTypes'
  BY <1>1, <1>2 DEF CheckTypes, Bases, checker, Phases
<1>5. kind \in [Binding -> {"box", "handle"}] /\ alive \subseteq Binding
  BY <1>2 DEF CheckTypes, RunTypes
<1>6. RunTypes'
  BY <1>2, <1>3, RunKeepsTypes
<1>7. Accepted(h)'
  BY <1>1, <1>3 DEF Accepted, checker
<1>8. ASSUME phase' = "run" PROVE RunsAs(h)' /\ pc' \in Nat /\ lost' \subseteq misjudged'
  <2>1. RunsAs(h)'
    BY <1>2, <1>3, <1>5, <1>8, RunStep
  <2>2. Size(h) \in Nat
    BY <1>3 DEF Accepted, Annotated, Size
  <2> QED
    BY <2>1, <2>2 DEF RunsAs
<1>9. ASSUME Crash PROVE pc' \in Nat /\ lost' \subseteq misjudged'
  BY <1>1, <1>2, <1>9 DEF Crash, run, checker
<1>10. ASSUME RunReturn PROVE pc' \in Nat /\ lost' \subseteq misjudged' /\ alive' \subseteq misjudged'
  <2>1. pc' = pc
    BY <1>10 DEF RunReturn
  <2> QED
    BY <1>2, <1>3, <1>5, <1>10, <2>1, ReturnRuns
<1> QED
  BY <1>1, <1>4, <1>6, <1>7, <1>8, <1>9, <1>10 DEF Sound

\* and so always holds.
LEMMA SoundAlways == Spec => []Sound
<1>1. Init => Sound
  BY SoundStart
<1>2. Sound /\ [Next]_vars => Sound'
  <2>1. ASSUME Sound, UNCHANGED vars
        PROVE  Sound'
    BY <2>1 DEF vars, checker, run, Sound, CheckTypes, Bases, RunTypes, Checked,
         Checking, Reached, InScope,
                Untouched, Accepted, RunsAs
  <2> QED
    BY <2>1, SoundCheck, SoundRun DEF Next
<1> QED
  BY <1>1, <1>2, PTL DEF Spec

\* Every variable keeps its type, in the checker (check.c:244, Local) and in the
\* program it lets run.
THEOREM TypeCorrect == Spec => []TypeOK
<1>1. Sound => TypeOK
  <2>1. SUFFICES ASSUME Sound PROVE TypeOK
    OBVIOUS
  <2>2. CheckTypes /\ RunTypes /\ pc \in Nat
    BY <2>1 DEF Sound
  <2>3. \A i \in DOMAIN frames : /\ frames[i].op \in Openers \union {"else"}
                                 /\ frames[i].base \in 0 .. Len(locals)
    <3>1. DOMAIN frames = 1 .. Len(frames)
      BY <2>2 DEF CheckTypes
    <3>2. \A f \in Construct : f.op \in Openers \union {"else"}
      BY DEF Construct
    <3> QED
      BY <2>2, <3>1, <3>2, FramesTyped
  <2> QED
    BY <2>2, <2>3 DEF TypeOK, CheckTypes, RunTypes
<1> QED
  BY <1>1, SoundAlways, PTL

\* In a body that the checker accepts, whatever its names, its length and its nesting,
\* a statement that reads a binding finds its value, on every path, unless a loop's
\* end made the checker forget that it was moved (check.c:5634, check.c:6333).
THEOREM ReadsFindValues == Spec => []UseLive
<1>1. Sound => UseLive
  <2>1. SUFFICES ASSUME Sound, phase = "run", Runs("use") \/ Runs("take")
                 PROVE  slot[text[pc].v] = "live" \/ text[pc].v \in forgotten
    BY DEF UseLive
  <2>2. PICK h : Accepted(h) /\ RunsAs(h)
    BY <2>1 DEF Sound
  <2>3. slot \in [Binding -> {"none", "live", "nil"}]
    BY <2>1 DEF Sound, RunTypes
  <2> QED
    BY <2>1, <2>2, <2>3, ReadFinds
<1> QED
  BY <1>1, SoundAlways, PTL

\* A body that the checker accepts releases every value by the time it returns, and
\* overwrites or drops out of scope no handle that is open, except those it took for
\* consumed at a loop's exit or back-edge (check.c:6325).
THEOREM EverythingReleased == Spec => []NothingLeaks
<1>1. Sound => NothingLeaks
  BY DEF Sound, NothingLeaks
<1> QED
  BY <1>1, SoundAlways, PTL
=============================================================================
