------------------------- MODULE PropertyCheckProofs -------------------------
(***************************************************************************)
(* The verdicts of --emit=check are about runs that took place, for every  *)
(* program, every set of inputs and every bound.                           *)
(***************************************************************************)
EXTENDS PropertyCheck, TLAPS

\* No run so far failed, but those an exit cut short.
NoneFailed == \A s \in seen : s.does = "fails" => s.cut

\* While inputs are generated none has failed and the counters are at most at their
\* limits; once one has failed the arguments are an input that failed.
Inv == /\ phase = "generate" => NoneFailed /\ ran \in 0..Trials /\ rejects \in Nat
       /\ OkMeansNoFailure
       /\ CounterexampleFails

LEMMA CheckInit == Init => Inv
<1>. SUFFICES ASSUME Init PROVE Inv
  OBVIOUS
<1>1. seen = {} /\ ran = 0 /\ rejects = 0 /\ phase \in {"generate", "done"} /\ Trials \in Nat
  BY CheckAssumption DEF Init
<1>. QED
  BY <1>1 DEF Inv, NoneFailed, OkMeansNoFailure, CounterexampleFails

\* A trial that fails is on record; one that does not, and is not cut short, did
\* not do what is called failing.
LEMMA TrialRecords ==
  ASSUME NEW a, NEW d, Trial(a, d)
  PROVE  /\ seen \subseteq seen'
         /\ Fails(d) => Failure(a) \in seen'
         /\ ~Fails(d) /\ NoneFailed => NoneFailed'
<1>1. seen' = seen \union {[args |-> a, does |-> d, cut |-> Cut(d)]}
  BY DEF Trial
<1>2. ASSUME Fails(d) PROVE Failure(a) \in seen'
  <2>1. d = "fails" /\ Cut(d) = FALSE
    BY <1>2 DEF Fails, Errs, OutOfDomain, Cut
  <2>. QED
    BY <1>1, <2>1 DEF Failure
<1>3. ASSUME ~Fails(d), NoneFailed PROVE NoneFailed'
  <2>1. d = "fails" => Cut(d)
    BY <1>3 DEF Fails, Errs, OutOfDomain
  <2>2. PICK r : r = [args |-> a, does |-> d, cut |-> Cut(d)]
    OBVIOUS
  <2>3. r.does = "fails" => r.cut
    BY <2>1, <2>2
  <2>. QED
    BY <1>1, <1>3, <2>2, <2>3 DEF NoneFailed
<1>. QED
  BY <1>1, <1>2, <1>3

\* Whatever is tried, what shrink keeps is an input that failed.
LEMMA TryKeeps ==
  ASSUME Inv, phase = "shrink", NEW a, NEW kept, NEW undone, Try(a, kept, undone)
  PROVE  Inv'
<1>1. PICK d : Trial(a, d) /\ args' = IF Fails(d) THEN a ELSE args
  BY DEF Try, Restored
<1>2. phase' = "shrink" /\ Failure(args) \in seen
  BY DEF Try, Inv, CounterexampleFails
<1>3. Failure(args') \in seen'
  <2>1. CASE Fails(d)
    BY <1>1, <2>1, TrialRecords
  <2>2. CASE ~Fails(d)
    BY <1>1, <1>2, <2>2, TrialRecords
  <2>. QED
    BY <2>1, <2>2
<1>. QED
  BY <1>2, <1>3 DEF Inv, OkMeansNoFailure, CounterexampleFails, Failure

LEMMA CheckInductive == Inv /\ [Next]_vars => Inv'
<1>. SUFFICES ASSUME Inv, [Next]_vars PROVE Inv'
  OBVIOUS
<1>. USE DEF Failure
<1>1. CASE Generate
  <2>1. PICK a, d : /\ Trial(a, d) /\ args' = a
                    /\ rejects' = IF OutOfDomain(d) THEN rejects + 1 ELSE rejects
                    /\ ran' = IF OutOfDomain(d) THEN ran ELSE ran + 1
                    /\ phase' = IF Fails(d) THEN "shrink" ELSE "generate"
    BY <1>1 DEF Generate
  <2>2. NoneFailed /\ ran \in 0..Trials /\ rejects \in Nat /\ ran < Trials /\ Trials \in Nat
    BY <1>1, CheckAssumption DEF Generate, More, Inv
  <2>3. CASE Fails(d)
    <3>1. phase' = "shrink" /\ Failure(a) \in seen' /\ args' = a
      BY <2>1, <2>3, TrialRecords
    <3>. QED
      BY <3>1 DEF Inv, OkMeansNoFailure, CounterexampleFails
  <2>4. CASE ~Fails(d)
    <3>1. phase' = "generate" /\ NoneFailed'
      BY <2>1, <2>2, <2>4, TrialRecords
    <3>2. ran' \in 0..Trials /\ rejects' \in Nat
      BY <2>1, <2>2
    <3>. QED
      BY <3>1, <3>2 DEF Inv, OkMeansNoFailure, CounterexampleFails
  <2>. QED
    BY <2>3, <2>4
<1>2. CASE Drop
  BY <1>2, TryKeeps DEF Drop, Here
<1>3. CASE Zero
  BY <1>3, TryKeeps DEF Zero, Here
<1>4. CASE Halve
  BY <1>4, TryKeeps DEF Halve, Here
<1>5. CASE DropsDone \/ IsZero \/ LeafDone \/ NextPass
  <2>1. phase = "shrink" /\ phase' = phase /\ args' = args /\ seen' = seen
    BY <1>5 DEF DropsDone, IsZero, LeafDone, NextPass, Here, Moves
  <2>. QED
    BY <2>1 DEF Inv, OkMeansNoFailure, CounterexampleFails
<1>6. CASE Shrunk
  BY <1>6 DEF Shrunk, Inv, OkMeansNoFailure, CounterexampleFails
<1>7. CASE Report
  <2>1. PICK d : Trial(args, d)
    BY <1>7 DEF Report
  <2>2. phase = "report" /\ phase' = "failed" /\ args' = args /\ seen \subseteq seen'
    BY <1>7, <2>1, TrialRecords DEF Report
  <2>. QED
    BY <2>2 DEF Inv, OkMeansNoFailure, CounterexampleFails
<1>8. CASE Passed
  <2>1. /\ phase = "generate" /\ phase' = "ok" /\ seen' = seen /\ ran' = ran
        /\ rejects' = rejects /\ NoneFailed
        /\ ran \in 0..Trials /\ rejects \in Nat /\ (ran >= Trials \/ ~(rejects <= MaxRejects))
    BY <1>8, CheckAssumption DEF Passed, More, Inv
  <2>2. ran = Trials \/ rejects > MaxRejects
    BY <2>1, CheckAssumption
  <2>. QED
    BY <2>1, <2>2 DEF Inv, NoneFailed, OkMeansNoFailure, CounterexampleFails
<1>9. CASE NextFunction
  <2>1. phase' \in {"generate", "done"} /\ seen' = {} /\ ran' = 0 /\ rejects' = 0 /\ Trials \in Nat
    BY <1>9, CheckAssumption DEF NextFunction
  <2>. QED
    BY <2>1 DEF Inv, NoneFailed, OkMeansNoFailure, CounterexampleFails
<1>10. CASE UNCHANGED vars
  BY <1>10 DEF vars, Inv, NoneFailed, OkMeansNoFailure, CounterexampleFails
<1>. QED
  BY <1>1, <1>2, <1>3, <1>4, <1>5, <1>6, <1>7, <1>8, <1>9, <1>10 DEF Next

\* The arguments of a report are an input on which the function ran and failed,
\* however they were shrunk, and even when the function draws random values.
THEOREM CounterexampleIsReal == Spec => []CounterexampleFails
<1>1. Inv => CounterexampleFails
  BY DEF Inv
<1>. QED
  BY <1>1, CheckInit, CheckInductive, PTL DEF Spec

\* ok stands for Trials runs in the domain, or a domain too hard to hit, and for no
\* run that was seen to fail.
THEOREM OkIsEarned == Spec => []OkMeansNoFailure
<1>1. Inv => OkMeansNoFailure
  BY DEF Inv
<1>. QED
  BY <1>1, CheckInit, CheckInductive, PTL DEF Spec
-----------------------------------------------------------------------------
(* The message *)

\* The function that is checked is one of the program's.
Checking == /\ prog \in Programs /\ fi \in Nat \ {0}
            /\ phase # "done" => fi <= Len(prog)
            /\ exiting \in BOOLEAN

LEMMA CheckingInit == Init => Checking
<1>. SUFFICES ASSUME Init PROVE Checking
  OBVIOUS
<1>1. prog \in Seq(Function)
  BY CheckAssumption DEF Init
<1>2. prog # <<>> => Len(prog) >= 1
  BY <1>1
<1>3. phase # "done" => 1 <= Len(prog)
  BY <1>1, <1>2 DEF Init
<1>4. prog \in Programs /\ fi = 1 /\ exiting \in BOOLEAN
  BY DEF Init
<1>. QED
  BY <1>3, <1>4 DEF Checking

LEMMA CheckingStep == Checking /\ [Next]_vars => Checking'
<1>. SUFFICES ASSUME Checking, [Next]_vars PROVE Checking'
  OBVIOUS
<1>0. Len(prog) \in Nat
  BY CheckAssumption DEF Checking
<1>1. CASE NextFunction
  BY <1>0, <1>1 DEF NextFunction, Checking
<1>2. ASSUME NEW a, NEW d, Trial(a, d) PROVE prog' = prog /\ fi' = fi /\ exiting' \in BOOLEAN
  BY <1>2 DEF Trial, Checking
<1>3. CASE Generate
  <2>1. PICK a, d : Trial(a, d) /\ phase = "generate"
    BY <1>3 DEF Generate
  <2>. QED
    BY <1>2, <2>1 DEF Checking
<1>4. CASE Report
  <2>1. PICK d : Trial(args, d) /\ phase = "report"
    BY <1>4 DEF Report
  <2>. QED
    BY <1>2, <2>1 DEF Checking
<1>5. ASSUME NEW a, NEW k, NEW u, Try(a, k, u), phase = "shrink" PROVE Checking'
  <2>1. PICK d : Trial(a, d)
    BY <1>5 DEF Try
  <2>. QED
    BY <1>2, <1>5, <2>1 DEF Checking
<1>6. CASE Drop \/ Zero \/ Halve
  BY <1>5, <1>6 DEF Drop, Zero, Halve, Here
<1>7. CASE DropsDone \/ IsZero \/ LeafDone \/ NextPass
  BY <1>7 DEF DropsDone, IsZero, LeafDone, NextPass, Moves, Checking
<1>8. CASE Shrunk \/ Passed \/ UNCHANGED vars
  BY <1>8 DEF Shrunk, Passed, vars, Checking
<1>. QED
  BY <1>1, <1>3, <1>4, <1>6, <1>7, <1>8 DEF Next

\* The message of a report comes from the last step before it.
LEMMA DetailStep == Inv /\ Checking /\ DetailIsItsOwn /\ [Next]_vars => DetailIsItsOwn'
<1>. SUFFICES ASSUME Inv, Checking, DetailIsItsOwn, [Next]_vars PROVE DetailIsItsOwn'
  OBVIOUS
<1>1. CASE Report
  <2>. SUFFICES ASSUME F.pure, ~exiting' PROVE detail' = "fails"
    <3>1. PICK d : Trial(args, d)
      BY <1>1 DEF Report
    <3>. QED
      BY <3>1 DEF DetailIsItsOwn, F, Trial
  <2>1. PICK d : Trial(args, d) /\ detail' = check_msg'
    BY <1>1 DEF Report, Told
  <2>2. Failure(args) \in seen
    BY <1>1 DEF Report, Inv, CounterexampleFails
  <2>3. d = "fails"
    BY <2>1, <2>2 DEF Trial, Failure
  <2>4. ~exiting
    BY <2>1 DEF Trial
  <2>. QED
    BY <2>1, <2>3, <2>4 DEF Trial, Errs, Cut
<1>2. CASE Generate \/ Drop \/ Zero \/ Halve \/ DropsDone \/ IsZero \/ LeafDone \/ NextPass
  <2>1. phase' # "failed"
    BY <1>2 DEF Generate, Drop, Zero, Halve, DropsDone, IsZero, LeafDone, NextPass, Try, Moves, Here
  <2>. QED
    BY <2>1 DEF DetailIsItsOwn
<1>3. CASE Shrunk \/ Passed \/ NextFunction
  BY <1>3 DEF Shrunk, Passed, NextFunction, DetailIsItsOwn
<1>4. CASE UNCHANGED vars
  BY <1>4 DEF vars, DetailIsItsOwn, F
<1>. QED
  BY <1>1, <1>2, <1>3, <1>4 DEF Next

\* Of a function that does the same on equal inputs the report tells what it did on
\* the counterexample, unless an exit was requested.
THEOREM MessageIsItsOwn == Spec => []DetailIsItsOwn
<1>1. Init => DetailIsItsOwn
  BY DEF Init, DetailIsItsOwn
<1>. QED
  BY <1>1, CheckInit, CheckInductive, CheckingInit, CheckingStep, DetailStep, PTL DEF Spec
-----------------------------------------------------------------------------
(* The counterexample is minimal *)

\* Every argument is a sequence of numbers.
Args == [1..Argc -> Seq(Int)]

Size(v) == IF v >= 0 THEN v ELSE -v

\* Of two lists of arguments the one is no larger: each leaf is shorter, or as long
\* and no element of it is larger.  What shrink keeps goes down in this order.
Below(a, b) ==
  \A l \in 1..Argc :
    \/ Len(a[l]) < Len(b[l])
    \/ /\ Len(a[l]) = Len(b[l])
       /\ \A k \in 1..Len(a[l]) : Size(a[l][k]) <= Size(b[l][k])

Tried(a) == \E s \in seen : s.args = a

\* The three simplifications of element e of leaf l.
DropOf(l, e)  == [args EXCEPT ![l] = Without(args[l], e)]
ZeroOf(l, e)  == [args EXCEPT ![l] = [args[l] EXCEPT ![e] = 0]]
HalfOf(l, e)  == [args EXCEPT ![l] = [args[l] EXCEPT ![e] = Half(args[l][e])]]

DropTried(l, e) == F.leaves[l].array => Tried(DropOf(l, e))
ValueTried(l, e) ==
  args[l][e] # 0 => /\ Tried(ZeroOf(l, e))
                    /\ ~F.leaves[l].bool => Tried(HalfOf(l, e))

LeafTried(l) == \A e \in 1..Len(args[l]) : DropTried(l, e) /\ ValueTried(l, e)

Cursor == [leaf : Nat \ {0}, elem : Nat \ {0}, what : {"drop", "zero", "half"},
           removed : BOOLEAN, improved : BOOLEAN, pass : Nat]

\* What a pass has tried in the leaf it is at, none of it with success.
HereTried ==
  /\ \A e \in 1..Len(This) : e < at.elem \/ at.what # "drop" => DropTried(at.leaf, e)
  /\ at.what # "drop" =>
       \A e \in 1..Len(This) : e < at.elem => ValueTried(at.leaf, e)
  /\ at.what = "half" => Tried(ZeroOf(at.leaf, at.elem))

PassTried ==
  ~at.improved => /\ ~at.removed
                  /\ \A l \in 1..Argc : l < at.leaf => LeafTried(l)
                  /\ at.leaf <= Argc => HereTried

\* The inputs that failed are those the arguments came down from.
Descends ==
  \A s \in seen : s.does = "fails" /\ ~s.cut => s.args \in Args /\ Below(args, s.args)

Shrinking ==
  /\ phase = "generate" => at = Start
  /\ phase = "shrink" =>
       /\ at \in Cursor /\ args \in Args /\ Descends /\ PassTried
       /\ at.leaf <= Argc /\ at.what = "half" => at.elem <= Len(This) /\ This[at.elem] # 0
  /\ phase \in {"report", "failed"} =>
       /\ args \in Args /\ Descends
       /\ ~at.improved => \A l \in 1..Argc : LeafTried(l)

LEMMA ArgcNat == Checking /\ phase # "done" => Argc \in Nat
<1>. SUFFICES ASSUME Checking, phase # "done" PROVE Argc \in Nat
  OBVIOUS
<1>1. prog \in Seq(Function) /\ fi \in 1..Len(prog)
  BY CheckAssumption DEF Checking
<1>2. F \in Function
  BY <1>1 DEF F
<1>3. F.leaves \in Seq(Leaf)
  BY <1>2 DEF Function
<1>. QED
  BY <1>3 DEF Argc

LEMMA BelowSelf == ASSUME NEW a \in Args PROVE Below(a, a)
<1>. SUFFICES ASSUME NEW l \in 1..Argc, NEW k \in 1..Len(a[l])
              PROVE  Size(a[l][k]) <= Size(a[l][k])
  BY DEF Below
<1>1. a[l] \in Seq(Int)
  BY DEF Args
<1>2. a[l][k] \in Int
  BY <1>1
<1>. QED
  BY <1>2 DEF Size

LEMMA BelowAll ==
  ASSUME NEW a \in Args, NEW b \in Args, NEW c \in Args, Below(a, b), Below(b, c)
  PROVE  Below(a, c)
<1>. SUFFICES ASSUME NEW l \in 1..Argc
              PROVE  \/ Len(a[l]) < Len(c[l])
                     \/ /\ Len(a[l]) = Len(c[l])
                        /\ \A k \in 1..Len(a[l]) : Size(a[l][k]) <= Size(c[l][k])
  BY DEF Below
<1>1. a[l] \in Seq(Int) /\ b[l] \in Seq(Int) /\ c[l] \in Seq(Int)
  BY DEF Args
<1>2. Len(a[l]) \in Nat /\ Len(b[l]) \in Nat /\ Len(c[l]) \in Nat
  BY <1>1
<1>3. CASE Len(a[l]) < Len(b[l]) \/ Len(b[l]) < Len(c[l])
  BY <1>2, <1>3 DEF Below
<1>4. CASE Len(a[l]) = Len(b[l]) /\ Len(b[l]) = Len(c[l])
  <2>1. ASSUME NEW k \in 1..Len(a[l]) PROVE Size(a[l][k]) <= Size(c[l][k])
    <3>1. a[l][k] \in Int /\ b[l][k] \in Int /\ c[l][k] \in Int
      <4>1. k \in 1..Len(a[l]) /\ k \in 1..Len(b[l]) /\ k \in 1..Len(c[l])
        BY <1>4, <2>1
      <4>2. \A s \in Seq(Int) : k \in 1..Len(s) => s[k] \in Int
        OBVIOUS
      <4>. QED
        BY ONLY <1>1, <4>1, <4>2
    <3>2. Size(a[l][k]) \in Nat /\ Size(b[l][k]) \in Nat /\ Size(c[l][k]) \in Nat
      BY <3>1 DEF Size
    <3>3. Size(a[l][k]) <= Size(b[l][k]) /\ Size(b[l][k]) <= Size(c[l][k])
      BY <1>2, <1>4, <2>1 DEF Below
    <3>. QED
      BY <3>2, <3>3
  <2>. QED
    BY <1>4, <2>1
<1>. QED
  BY <1>2, <1>3, <1>4 DEF Below

\* A leaf that is shorter, or as long with one element smaller and the others as
\* they were, makes the arguments strictly smaller.
LEMMA EditBelow ==
  ASSUME args \in Args, NEW l \in 1..Argc, NEW s \in Seq(Int),
         \/ Len(s) < Len(args[l])
         \/ /\ Len(s) = Len(args[l])
            /\ \E e \in 1..Len(s) : /\ Size(s[e]) < Size(args[l][e])
                                    /\ \A k \in 1..Len(s) : k # e => s[k] = args[l][k]
  PROVE  LET a == [args EXCEPT ![l] = s]
         IN  a \in Args /\ Below(a, args) /\ ~Below(args, a)
<1>. DEFINE a == [args EXCEPT ![l] = s]
<1>1. a \in Args /\ a[l] = s /\ \A m \in 1..Argc : m # l => a[m] = args[m]
  BY DEF Args
<1>2. args[l] \in Seq(Int) /\ Len(args[l]) \in Nat /\ Len(s) \in Nat
  BY DEF Args
<1>3. \A k \in 1..Len(s) : s[k] \in Int
  OBVIOUS
<1>4. \A k \in 1..Len(args[l]) : args[l][k] \in Int
  BY <1>2
<1>. HIDE DEF a
<1>5. Below(a, args)
  <2>1. ASSUME NEW m \in 1..Argc, m # l
        PROVE  \/ Len(a[m]) < Len(args[m])
               \/ /\ Len(a[m]) = Len(args[m])
                  /\ \A k \in 1..Len(a[m]) : Size(a[m][k]) <= Size(args[m][k])
    BY <1>1, <2>1, BelowSelf DEF Below
  <2>2. CASE Len(s) < Len(args[l])
    BY <1>1, <2>1, <2>2 DEF Below
  <2>3. ASSUME Len(s) = Len(args[l]), NEW e \in 1..Len(s), Size(s[e]) < Size(args[l][e]),
               \A k \in 1..Len(s) : k # e => s[k] = args[l][k]
        PROVE  Below(a, args)
    <3>1. ASSUME NEW k \in 1..Len(s) PROVE Size(s[k]) <= Size(args[l][k])
      <4>1. s[k] \in Int /\ args[l][k] \in Int
        BY ONLY <1>3, <1>4, <2>3, <3>1, s \in Seq(Int)
      <4>2. CASE k = e
        BY <2>3, <4>1, <4>2 DEF Size
      <4>3. CASE k # e
        BY <2>3, <4>1, <4>3 DEF Size
      <4>. QED
        BY <4>2, <4>3
    <3>. QED
      BY <1>1, <2>1, <2>3, <3>1 DEF Below
  <2>. QED
    BY <2>2, <2>3
<1>6. ~Below(args, a)
  <2>1. CASE Len(s) < Len(args[l])
    BY <1>1, <1>2, <2>1 DEF Below
  <2>2. ASSUME Len(s) = Len(args[l]), NEW e \in 1..Len(s), Size(s[e]) < Size(args[l][e])
        PROVE  ~Below(args, a)
    <3>1. ~(Size(args[l][e]) <= Size(s[e]))
      BY <1>3, <1>4, <2>2 DEF Size
    <3>2. ~(Len(args[l]) < Len(a[l])) /\ e \in 1..Len(args[l])
      BY <1>1, <1>2, <2>2
    <3>3. ~(Size(args[l][e]) <= Size(a[l][e]))
      BY <1>1, <3>1
    <3>. QED
      BY <3>2, <3>3 DEF Below
  <2>. QED
    BY <2>1, <2>2
<1>. QED
  BY <1>1, <1>5, <1>6 DEF a

LEMMA DropBelow ==
  ASSUME args \in Args, NEW l \in 1..Argc, NEW e \in 1..Len(args[l])
  PROVE  DropOf(l, e) \in Args /\ Below(DropOf(l, e), args) /\ ~Below(args, DropOf(l, e))
<1>1. args[l] \in Seq(Int) /\ Len(args[l]) \in Nat
  BY DEF Args
<1>2. PICK s : s = Without(args[l], e)
  OBVIOUS
<1>3. s \in Seq(Int) /\ Len(s) = Len(args[l]) - 1
  BY <1>1, <1>2 DEF Without
<1>4. Len(s) < Len(args[l])
  BY <1>1, <1>3
<1>5. /\ [args EXCEPT ![l] = s] \in Args /\ Below([args EXCEPT ![l] = s], args)
      /\ ~Below(args, [args EXCEPT ![l] = s])
  BY <1>3, <1>4, EditBelow
<1>. QED
  BY <1>2, <1>5 DEF DropOf

LEMMA HalfSmaller ==
  ASSUME NEW x \in Int, x # 0
  PROVE  Half(x) \in Int /\ Size(Half(x)) < Size(x)
<1>1. CASE x >= 0
  <2>1. PICK h \in Nat : h = x \div 2 /\ h < x
    BY <1>1
  <2>. QED
    BY <1>1, <2>1 DEF Half, Size
<1>2. CASE x < 0
  <2>1. PICK y \in Nat : y = -x /\ y > 0
    BY <1>2
  <2>2. PICK h \in Nat : h = y \div 2 /\ h < y
    BY <2>1
  <2>3. Half(x) = -h
    BY <1>2, <2>1, <2>2 DEF Half
  <2>. QED
    BY <1>2, <2>1, <2>2, <2>3 DEF Size
<1>. QED
  BY <1>1, <1>2

LEMMA SetBelow ==
  ASSUME args \in Args, NEW l \in 1..Argc, NEW e \in 1..Len(args[l]), args[l][e] # 0
  PROVE  /\ ZeroOf(l, e) \in Args /\ Below(ZeroOf(l, e), args) /\ ~Below(args, ZeroOf(l, e))
         /\ HalfOf(l, e) \in Args /\ Below(HalfOf(l, e), args) /\ ~Below(args, HalfOf(l, e))
<1>1. args[l] \in Seq(Int) /\ Len(args[l]) \in Nat /\ args[l][e] \in Int
  BY DEF Args
<1>2. ASSUME NEW v \in Int, Size(v) < Size(args[l][e]), NEW s, s = [args[l] EXCEPT ![e] = v]
      PROVE  /\ s \in Seq(Int) /\ Len(s) = Len(args[l]) /\ Size(s[e]) < Size(args[l][e])
             /\ \A k \in 1..Len(s) : k # e => s[k] = args[l][k]
  BY <1>1, <1>2
<1>3. ASSUME NEW v \in Int, Size(v) < Size(args[l][e]), NEW a,
             a = [args EXCEPT ![l] = [args[l] EXCEPT ![e] = v]]
      PROVE  a \in Args /\ Below(a, args) /\ ~Below(args, a)
  <2>1. PICK s : s = [args[l] EXCEPT ![e] = v]
    OBVIOUS
  <2>2. /\ s \in Seq(Int) /\ Len(s) = Len(args[l]) /\ Size(s[e]) < Size(args[l][e])
        /\ \A k \in 1..Len(s) : k # e => s[k] = args[l][k]
    BY <1>2, <1>3, <2>1
  <2>3. e \in 1..Len(s)
    BY <2>2
  <2>. QED
    BY <1>3, <2>1, <2>2, <2>3, EditBelow
<1>4. PICK x \in Int : x = args[l][e] /\ x # 0
  BY <1>1
<1>5. 0 \in Int /\ Size(0) < Size(args[l][e])
  BY <1>4 DEF Size
<1>6. PICK v : v = Half(args[l][e])
  OBVIOUS
<1>7. v \in Int /\ Size(v) < Size(args[l][e])
  BY <1>4, <1>6, HalfSmaller
<1>8. ZeroOf(l, e) \in Args /\ Below(ZeroOf(l, e), args) /\ ~Below(args, ZeroOf(l, e))
  BY <1>3, <1>5 DEF ZeroOf
<1>9. HalfOf(l, e) \in Args /\ Below(HalfOf(l, e), args) /\ ~Below(args, HalfOf(l, e))
  BY <1>3, <1>6, <1>7 DEF HalfOf
<1>. QED
  BY <1>8, <1>9

\* A failure on record is of the arguments or of ones they came down from.
LEMMA TrialDescends ==
  ASSUME args \in Args, Descends, NEW a \in Args, Below(a, args), NEW d, Trial(a, d)
  PROVE  /\ Argc' = Argc /\ F' = F /\ Args' = Args
         /\ Fails(d) /\ args' = a => Descends'
         /\ ~Fails(d) /\ args' = args => Descends'
         /\ args' = a /\ a = args => Descends'
         /\ Tried(a)'
         /\ \A b : Tried(b) => Tried(b)'
<1>1. PICK r : r = [args |-> a, does |-> d, cut |-> Cut(d)]
  OBVIOUS
<1>2. seen' = seen \union {r} /\ prog' = prog /\ fi' = fi
  BY <1>1 DEF Trial
<1>3. Argc' = Argc /\ F' = F
  BY <1>2 DEF Argc, F
<1>4. Args' = Args
  BY <1>3 DEF Args
<1>5. \A x, y : Below(x, y)' = Below(x, y)
  BY <1>3 DEF Below
<1>6. ASSUME NEW s \in seen, s.does = "fails", ~s.cut
      PROVE  s.args \in Args /\ Below(args, s.args) /\ Below(a, s.args)
  <2>1. s.args \in Args /\ Below(args, s.args)
    BY <1>6 DEF Descends
  <2>. QED
    BY <2>1, BelowAll
<1>7. r.args = a /\ (~Fails(d) => ~(r.does = "fails" /\ ~r.cut))
  BY <1>1 DEF Fails, Errs, OutOfDomain
<1>8. ASSUME args' = a PROVE Descends'
  <2>1. ASSUME NEW s \in seen', s.does = "fails", ~s.cut PROVE s.args \in Args /\ Below(a, s.args)
    BY <1>2, <1>6, <1>7, <2>1, BelowSelf
  <2>. QED
    BY <1>4, <1>5, <1>8, <2>1 DEF Descends
<1>9. ASSUME args' = args, ~Fails(d) PROVE Descends'
  <2>1. ASSUME NEW s \in seen', s.does = "fails", ~s.cut PROVE s.args \in Args /\ Below(args, s.args)
    BY <1>2, <1>6, <1>7, <1>9, <2>1
  <2>. QED
    BY <1>4, <1>5, <1>9, <2>1 DEF Descends
<1>10. Tried(a)'
  BY <1>2, <1>7 DEF Tried
<1>11. ASSUME NEW b, Tried(b) PROVE Tried(b)'
  BY <1>2, <1>11 DEF Tried
<1>. QED
  BY <1>3, <1>4, <1>8, <1>9, <1>10, <1>11

\* What was tried stays tried while the arguments are the same.
LEMMA TriedKept ==
  ASSUME args' = args, F' = F, \A b : Tried(b) => Tried(b)', NEW l, NEW e
  PROVE  /\ DropTried(l, e) => DropTried(l, e)'
         /\ ValueTried(l, e) => ValueTried(l, e)'
         /\ LeafTried(l) => LeafTried(l)'
<1>1. ASSUME NEW k PROVE DropOf(l, k)' = DropOf(l, k)
  BY DEF DropOf
<1>2. ASSUME NEW k PROVE ZeroOf(l, k)' = ZeroOf(l, k) /\ HalfOf(l, k)' = HalfOf(l, k)
  BY DEF ZeroOf, HalfOf
<1>3. ASSUME NEW k, DropTried(l, k) PROVE DropTried(l, k)'
  BY <1>1, <1>3 DEF DropTried
<1>4. ASSUME NEW k, ValueTried(l, k) PROVE ValueTried(l, k)'
  BY <1>2, <1>4 DEF ValueTried
<1>. QED
  BY <1>3, <1>4 DEF LeafTried

\* A candidate that fails is kept and leaves a pass that improved; one that does not
\* is put back, and was tried.
LEMMA TryShrinks ==
  ASSUME Shrinking, phase = "shrink", NEW a \in Args, Below(a, args),
         NEW kept \in Cursor, kept.improved, kept.what # "half",
         NEW undone, Try(a, kept, undone)
  PROVE  \/ Shrinking'
         \/ /\ phase' = "shrink" /\ args' = args /\ at' = undone
            /\ F' = F /\ Argc' = Argc /\ Args' = Args /\ Descends'
            /\ Tried(a)' /\ \A b : Tried(b) => Tried(b)'
<1>1. PICK d : /\ Trial(a, d)
               /\ args' = IF Fails(d) THEN a ELSE args
               /\ at' = IF Fails(d) THEN kept ELSE undone
  BY DEF Try, Restored
<1>2. phase' = "shrink" /\ args \in Args /\ Descends
  BY DEF Try, Shrinking
<1>3. CASE Fails(d)
  <2>1. args' = a /\ at' = kept /\ Descends' /\ args' \in Args'
    BY <1>1, <1>2, <1>3, TrialDescends
  <2>. QED
    BY <1>2, <2>1 DEF Shrinking, PassTried, Cursor
<1>4. CASE ~Fails(d)
  <2>1. args' = args /\ at' = undone
    BY <1>1, <1>4
  <2>2. /\ F' = F /\ Argc' = Argc /\ Args' = Args /\ Descends'
        /\ Tried(a)' /\ \A b : Tried(b) => Tried(b)'
    BY <1>1, <1>2, <1>4, <2>1, TrialDescends
  <2>. QED
    BY <1>2, <2>1, <2>2
<1>. QED
  BY <1>3, <1>4

LEMMA DropShrinks ==
  ASSUME Checking, Shrinking, Drop PROVE Shrinking'
<1>1. /\ phase = "shrink" /\ at \in Cursor /\ args \in Args /\ PassTried
      /\ at.what = "drop" /\ at.leaf <= Argc /\ at.elem <= Len(This)
  BY DEF Drop, Here, Shrinking
<1>2. Argc \in Nat
  BY <1>1, ArgcNat
<1>3. PICK l \in 1..Argc : l = at.leaf
  BY <1>1, <1>2 DEF Cursor
<1>4. This = args[l] /\ args[l] \in Seq(Int)
  BY <1>1, <1>3 DEF This, Args
<1>5. PICK e \in 1..Len(args[l]) : e = at.elem
  BY <1>1, <1>4 DEF Cursor
<1>6. PICK a : a = DropOf(l, e)
  OBVIOUS
<1>7. a \in Args /\ Below(a, args)
  BY <1>1, <1>6, DropBelow
<1>8. PICK kept : kept = [at EXCEPT !.removed = TRUE, !.improved = TRUE]
  OBVIOUS
<1>9. kept \in Cursor /\ kept.improved /\ kept.what # "half"
  BY <1>1, <1>8 DEF Cursor
<1>10. PICK undone : undone = [at EXCEPT !.elem = at.elem + 1]
  OBVIOUS
<1>11. /\ undone \in Cursor /\ undone.leaf = l /\ undone.elem = e + 1 /\ undone.what = "drop"
       /\ undone.removed = at.removed /\ undone.improved = at.improved
  BY <1>1, <1>3, <1>5, <1>10 DEF Cursor
<1>12. Try(a, kept, undone)
  BY <1>3, <1>4, <1>5, <1>6, <1>8, <1>10 DEF Drop, Dropped, DropOf
<1>13. ASSUME /\ phase' = "shrink" /\ args' = args /\ at' = undone
              /\ F' = F /\ Argc' = Argc /\ Args' = Args /\ Descends'
              /\ Tried(a)' /\ \A b : Tried(b) => Tried(b)'
       PROVE  Shrinking'
  <2>1. ASSUME ~at'.improved PROVE PassTried'
    <3>1. /\ ~at.removed /\ \A m \in 1..Argc : m < l => LeafTried(m)
          /\ \A k \in 1..Len(args[l]) : k < e => DropTried(l, k)
      BY <1>1, <1>3, <1>4, <1>5, <1>11, <1>13, <2>1 DEF PassTried, HereTried
    <3>2. ~at'.removed /\ \A m \in 1..Argc' : m < at'.leaf => LeafTried(m)'
      BY <1>11, <1>13, <3>1, TriedKept
    <3>3. DropTried(l, e)'
      BY <1>6, <1>13 DEF DropTried, DropOf
    <3>4. ASSUME NEW k \in 1..Len(args[l]), k < e + 1 PROVE DropTried(l, k)'
      <4>1. CASE k < e
        BY <1>13, <3>1, <4>1, TriedKept
      <4>2. CASE k = e
        BY <3>3, <4>2
      <4>. QED
        BY <3>4, <4>1, <4>2
    <3>5. HereTried'
      BY <1>11, <1>13, <3>4 DEF HereTried, This
    <3>. QED
      BY <3>2, <3>5 DEF PassTried
  <2>2. PassTried'
    BY <2>1 DEF PassTried
  <2>. QED
    BY <1>1, <1>11, <1>13, <2>2 DEF Shrinking, Cursor
<1>. QED
  BY <1>1, <1>7, <1>9, <1>12, <1>13, TryShrinks
LEMMA OnwardCursor ==
  ASSUME at \in Cursor
  PROVE  /\ Onward \in Cursor /\ Onward.leaf = at.leaf /\ Onward.elem = at.elem + 1
         /\ Onward.what = "zero" /\ Onward.removed = at.removed
         /\ Onward.improved = at.improved
         /\ Better \in Cursor /\ Better.improved /\ Better.what # "half"
<1>1. PICK n \in Nat \ {0} : n = at.elem + 1
  BY DEF Cursor
<1>2. PICK x : x = [at EXCEPT !.elem = n]
  OBVIOUS
<1>3. /\ x \in Cursor /\ x.leaf = at.leaf /\ x.elem = n /\ x.removed = at.removed
      /\ x.improved = at.improved
  BY <1>2 DEF Cursor
<1>4. PICK y : y = [x EXCEPT !.what = "zero"]
  OBVIOUS
<1>5. /\ y \in Cursor /\ y.leaf = x.leaf /\ y.elem = x.elem /\ y.what = "zero"
      /\ y.removed = x.removed /\ y.improved = x.improved
  BY <1>3, <1>4 DEF Cursor
<1>6. y = Onward
  BY <1>1, <1>2, <1>4 DEF Onward
<1>7. PICK z : z = [y EXCEPT !.improved = TRUE]
  OBVIOUS
<1>8. z \in Cursor /\ z.improved /\ z.what = "zero"
  BY <1>5, <1>7 DEF Cursor
<1>9. z = Better
  BY <1>6, <1>7 DEF Better
<1>. QED
  BY <1>1, <1>3, <1>5, <1>6, <1>8, <1>9

\* The cursor goes past an element that was tried.
LEMMA OnwardTried ==
  ASSUME Shrinking, phase = "shrink", Argc \in Nat, NEW l \in 1..Argc, l = at.leaf,
         NEW e \in 1..Len(args[l]), e = at.elem, at.what # "drop",
         phase' = "shrink", args' = args, F' = F, Argc' = Argc, Args' = Args,
         Descends', \A b : Tried(b) => Tried(b)', at' = Onward, ValueTried(l, e)'
  PROVE  Shrinking'
<1>1. at \in Cursor /\ args \in Args /\ PassTried /\ This = args[l] /\ args[l] \in Seq(Int)
  BY DEF Shrinking, This, Args
<1>2. /\ at' \in Cursor /\ at'.leaf = l /\ at'.elem = e + 1 /\ at'.what = "zero"
      /\ at'.removed = at.removed /\ at'.improved = at.improved
  BY <1>1, OnwardCursor
<1>3. ASSUME ~at'.improved PROVE PassTried'
  <2>1. /\ ~at.removed /\ \A m \in 1..Argc : m < l => LeafTried(m)
        /\ \A k \in 1..Len(args[l]) : DropTried(l, k) /\ (k < e => ValueTried(l, k))
    BY <1>1, <1>2, <1>3 DEF PassTried, HereTried
  <2>2. ~at'.removed /\ \A m \in 1..Argc' : m < at'.leaf => LeafTried(m)'
    BY <1>2, <2>1, TriedKept
  <2>3. ASSUME NEW k \in 1..Len(args[l]), k < e + 1 PROVE ValueTried(l, k)'
    <3>1. CASE k < e
      BY <2>1, <3>1, TriedKept
    <3>2. CASE k = e
      BY <3>2
    <3>. QED
      BY <2>3, <3>1, <3>2
  <2>4. \A k \in 1..Len(args[l]) : DropTried(l, k)'
    BY <2>1, TriedKept
  <2>5. HereTried'
    BY <1>2, <2>3, <2>4 DEF HereTried, This
  <2>. QED
    BY <2>2, <2>5 DEF PassTried
<1>4. PassTried'
  BY <1>3 DEF PassTried
<1>. QED
  BY <1>1, <1>2, <1>4 DEF Shrinking

LEMMA ZeroShrinks ==
  ASSUME Checking, Shrinking, Zero PROVE Shrinking'
<1>1. /\ phase = "shrink" /\ at \in Cursor /\ args \in Args /\ PassTried
      /\ at.what = "zero" /\ at.leaf <= Argc /\ at.elem <= Len(This) /\ This[at.elem] # 0
  BY DEF Zero, Here, Shrinking
<1>2. Argc \in Nat
  BY <1>1, ArgcNat
<1>3. PICK l \in 1..Argc : l = at.leaf
  BY <1>1, <1>2 DEF Cursor
<1>4. This = args[l] /\ args[l] \in Seq(Int)
  BY <1>1, <1>3 DEF This, Args
<1>5. PICK e \in 1..Len(args[l]) : e = at.elem /\ args[l][e] # 0
  BY <1>1, <1>4 DEF Cursor
<1>6. PICK a : a = ZeroOf(l, e)
  OBVIOUS
<1>7. a \in Args /\ Below(a, args)
  BY <1>1, <1>5, <1>6, SetBelow
<1>8. Better \in Cursor /\ Better.improved /\ Better.what # "half"
  BY <1>1, OnwardCursor
<1>9. PICK undone : undone = IF F.leaves[at.leaf].bool THEN Onward ELSE [at EXCEPT !.what = "half"]
  OBVIOUS
<1>10. Try(a, Better, undone)
  BY <1>3, <1>5, <1>6, <1>9 DEF Zero, Set, ZeroOf
<1>11. ASSUME /\ phase' = "shrink" /\ args' = args /\ at' = undone
              /\ F' = F /\ Argc' = Argc /\ Args' = Args /\ Descends'
              /\ Tried(a)' /\ \A b : Tried(b) => Tried(b)'
       PROVE  Shrinking'
  <2>0. Tried(ZeroOf(l, e))'
    BY <1>6, <1>11 DEF ZeroOf
  <2>1. CASE F.leaves[at.leaf].bool
    <3>1. ValueTried(l, e)'
      BY <1>3, <1>11, <2>0, <2>1 DEF ValueTried
    <3>. QED
      BY <1>1, <1>2, <1>3, <1>5, <1>9, <1>11, <2>1, <3>1, OnwardTried
  <2>2. CASE ~F.leaves[at.leaf].bool
    <3>1. /\ at' \in Cursor /\ at'.leaf = l /\ at'.elem = e /\ at'.what = "half"
          /\ at'.removed = at.removed /\ at'.improved = at.improved
      BY <1>1, <1>3, <1>5, <1>9, <1>11, <2>2 DEF Cursor
    <3>2. ASSUME ~at'.improved PROVE PassTried'
      <4>1. /\ ~at.removed /\ \A m \in 1..Argc : m < l => LeafTried(m)
            /\ \A k \in 1..Len(args[l]) : DropTried(l, k) /\ (k < e => ValueTried(l, k))
        BY <1>1, <1>3, <1>4, <1>5, <3>1, <3>2 DEF PassTried, HereTried
      <4>2. ~at'.removed /\ \A m \in 1..Argc' : m < at'.leaf => LeafTried(m)'
        BY <1>11, <3>1, <4>1, TriedKept
      <4>3. \A k \in 1..Len(args[l]) : DropTried(l, k)' /\ (k < e => ValueTried(l, k)')
        BY <1>11, <4>1, TriedKept
      <4>4. HereTried'
        BY <1>11, <2>0, <3>1, <4>3 DEF HereTried, This
      <4>. QED
        BY <4>2, <4>4 DEF PassTried
    <3>3. PassTried'
      BY <3>2 DEF PassTried
    <3>. QED
      BY <1>1, <1>5, <1>11, <3>1, <3>3 DEF Shrinking, This
  <2>. QED
    BY <2>1, <2>2
<1>. QED
  BY <1>1, <1>7, <1>8, <1>10, <1>11, TryShrinks

LEMMA HalveShrinks ==
  ASSUME Checking, Shrinking, Halve PROVE Shrinking'
<1>1. /\ phase = "shrink" /\ at \in Cursor /\ args \in Args /\ PassTried
      /\ at.what = "half" /\ at.leaf <= Argc /\ at.elem <= Len(This) /\ This[at.elem] # 0
  BY DEF Halve, Here, Shrinking
<1>2. Argc \in Nat
  BY <1>1, ArgcNat
<1>3. PICK l \in 1..Argc : l = at.leaf
  BY <1>1, <1>2 DEF Cursor
<1>4. This = args[l] /\ args[l] \in Seq(Int)
  BY <1>1, <1>3 DEF This, Args
<1>5. PICK e \in 1..Len(args[l]) : e = at.elem /\ args[l][e] # 0
  BY <1>1, <1>4 DEF Cursor
<1>6. PICK a : a = HalfOf(l, e)
  OBVIOUS
<1>7. a \in Args /\ Below(a, args)
  BY <1>1, <1>5, <1>6, SetBelow
<1>8. Better \in Cursor /\ Better.improved /\ Better.what # "half"
  BY <1>1, OnwardCursor
<1>9. Try(a, Better, Onward)
  BY <1>3, <1>4, <1>5, <1>6 DEF Halve, Set, HalfOf
<1>10. ASSUME /\ phase' = "shrink" /\ args' = args /\ at' = Onward
              /\ F' = F /\ Argc' = Argc /\ Args' = Args /\ Descends'
              /\ Tried(a)' /\ \A b : Tried(b) => Tried(b)'
       PROVE  Shrinking'
  <2>1. Tried(HalfOf(l, e))'
    BY <1>6, <1>10 DEF HalfOf
  <2>2. CASE at.improved
    <3>1. at' \in Cursor /\ at'.improved /\ at'.what = "zero"
      BY <1>1, <1>10, <2>2, OnwardCursor
    <3>. QED
      BY <1>1, <1>10, <3>1 DEF Shrinking, PassTried
  <2>3. CASE ~at.improved
    <3>1. Tried(ZeroOf(l, e))
      BY <1>1, <1>3, <1>5, <2>3 DEF PassTried, HereTried
    <3>2. Tried(ZeroOf(l, e))'
      <4>1. ZeroOf(l, e)' = ZeroOf(l, e)
        BY <1>10 DEF ZeroOf
      <4>. QED
        BY <1>10, <3>1, <4>1
    <3>3. ValueTried(l, e)'
      BY <2>1, <3>2 DEF ValueTried
    <3>. QED
      BY <1>1, <1>2, <1>3, <1>5, <1>10, <3>3, OnwardTried
  <2>. QED
    BY <2>2, <2>3
<1>. QED
  BY <1>1, <1>7, <1>8, <1>9, <1>10, TryShrinks
\* The steps of a pass that run nothing.
LEMMA MovesShrink ==
  ASSUME Checking, Shrinking, DropsDone \/ IsZero \/ LeafDone \/ NextPass
  PROVE  Shrinking'
<1>1. /\ phase = "shrink" /\ at \in Cursor /\ args \in Args /\ PassTried /\ Descends
      /\ phase' = phase /\ args' = args /\ seen' = seen /\ prog' = prog /\ fi' = fi
  BY DEF Shrinking, DropsDone, IsZero, LeafDone, NextPass, Here, Moves
<1>2. Argc \in Nat
  BY <1>1, ArgcNat
<1>3. F' = F /\ Argc' = Argc
  BY <1>1 DEF F, Argc
<1>4. Args' = Args
  BY <1>3 DEF Args
<1>5. Descends'
  BY <1>1, <1>3, <1>4 DEF Descends, Below
<1>6. \A b : Tried(b) => Tried(b)'
  BY <1>1 DEF Tried
<1>7. ASSUME at' \in Cursor, ~at'.improved => PassTried', at'.what # "half" PROVE Shrinking'
  BY <1>1, <1>4, <1>5, <1>7 DEF Shrinking, PassTried
<1>8. CASE DropsDone
  <2>1. PICK l \in 1..Argc : l = at.leaf /\ at.what = "drop"
    BY <1>1, <1>2, <1>8 DEF DropsDone, Here, Cursor
  <2>2. args[l] \in Seq(Int) /\ This = args[l]
    BY <1>1, <2>1 DEF Args, This
  <2>3. CASE F.leaves[l].array /\ at.removed
    <3>1. at' = [at EXCEPT !.elem = 1, !.removed = FALSE]
      BY <1>8, <2>1, <2>3 DEF DropsDone, Rescan, Moves
    <3>2. 1 \in Nat \ {0}
      OBVIOUS
    <3>3. at' \in Cursor /\ at'.improved = at.improved /\ at'.what = "drop"
      BY <1>1, <2>1, <3>1, <3>2 DEF Cursor
    <3>4. at.improved
      BY <1>1, <2>3 DEF PassTried
    <3>. QED
      BY <1>7, <3>3, <3>4
  <2>4. CASE ~(F.leaves[l].array /\ at.removed)
    <3>1. at' = [at EXCEPT !.elem = 1, !.what = "zero"]
      BY <1>8, <2>1, <2>4 DEF DropsDone, Rescan, Moves
    <3>2. 1 \in Nat \ {0}
      OBVIOUS
    <3>3. /\ at' \in Cursor /\ at'.leaf = l /\ at'.elem = 1 /\ at'.what = "zero"
          /\ at'.removed = at.removed /\ at'.improved = at.improved
      BY <1>1, <2>1, <3>1, <3>2 DEF Cursor
    <3>4. ASSUME ~at'.improved PROVE PassTried'
      <4>1. ~at.removed /\ \A m \in 1..Argc : m < l => LeafTried(m)
        BY <1>1, <2>1, <3>3, <3>4 DEF PassTried
      <4>2. ~at'.removed /\ \A m \in 1..Argc' : m < at'.leaf => LeafTried(m)'
        BY <1>1, <1>3, <1>6, <3>3, <4>1, TriedKept
      <4>3. \A k \in 1..Len(args[l]) : DropTried(l, k)
        <5>1. CASE F.leaves[l].array
          <6>1. at.elem > Len(args[l]) /\ at.elem \in Nat /\ Len(args[l]) \in Nat
            BY <1>1, <1>8, <2>1, <2>2, <5>1 DEF DropsDone, Cursor
          <6>2. \A k \in 1..Len(args[l]) : k < at.elem
            BY <6>1
          <6>. QED
            BY <1>1, <2>1, <2>2, <3>3, <3>4, <6>2 DEF PassTried, HereTried
        <5>2. CASE ~F.leaves[l].array
          BY <5>2 DEF DropTried
        <5>. QED
          BY <5>1, <5>2
      <4>4. \A k \in 1..Len(args[l]) : DropTried(l, k)'
        BY <1>1, <1>3, <1>6, <4>3, TriedKept
      <4>5. \A k \in 1..Len(args[l]) : ~(k < 1)
        BY <2>2
      <4>6. HereTried'
        BY <1>1, <3>3, <4>4, <4>5 DEF HereTried, This
      <4>. QED
        BY <4>2, <4>6 DEF PassTried
    <3>. QED
      BY <1>7, <3>3, <3>4
  <2>. QED
    BY <2>3, <2>4
<1>9. CASE IsZero
  <2>1. PICK l \in 1..Argc : l = at.leaf /\ at.what = "zero" /\ at' = Onward
    BY <1>1, <1>2, <1>9 DEF IsZero, Here, Cursor, Moves
  <2>2. args[l] \in Seq(Int) /\ This = args[l]
    BY <1>1, <2>1 DEF Args, This
  <2>3. PICK e \in 1..Len(args[l]) : e = at.elem /\ args[l][e] = 0
    BY <1>1, <1>9, <2>2 DEF IsZero, Cursor
  <2>4. ValueTried(l, e)'
    BY <1>1, <2>3 DEF ValueTried
  <2>. QED
    BY <1>1, <1>2, <1>3, <1>4, <1>5, <1>6, <2>1, <2>3, <2>4, OnwardTried
<1>10. CASE LeafDone
  <2>1. PICK l \in 1..Argc : l = at.leaf /\ at.what = "zero"
    BY <1>1, <1>2, <1>10 DEF LeafDone, Here, Cursor
  <2>2. args[l] \in Seq(Int) /\ This = args[l]
    BY <1>1, <2>1 DEF Args, This
  <2>3. PICK n \in Nat \ {0} : n = at.leaf + 1 /\ n = l + 1
    BY <2>1
  <2>4. at' = [at EXCEPT !.leaf = n, !.elem = 1, !.what = "drop", !.removed = FALSE]
    BY <1>10, <2>3 DEF LeafDone, Moves
  <2>5. 1 \in Nat \ {0}
    OBVIOUS
  <2>6. /\ at' \in Cursor /\ at'.leaf = n /\ at'.elem = 1 /\ at'.what = "drop"
        /\ at'.removed = FALSE /\ at'.improved = at.improved
    BY <1>1, <2>4, <2>5 DEF Cursor
  <2>7. ASSUME ~at'.improved PROVE PassTried'
    <3>1. \A m \in 1..Argc : m < l => LeafTried(m)
      BY <1>1, <2>1, <2>6, <2>7 DEF PassTried
    <3>2. at.elem > Len(args[l]) /\ at.elem \in Nat /\ Len(args[l]) \in Nat
      BY <1>1, <1>10, <2>2 DEF LeafDone, Cursor
    <3>3. \A k \in 1..Len(args[l]) : k < at.elem
      BY <3>2
    <3>4. LeafTried(l)
      BY <1>1, <2>1, <2>2, <2>6, <2>7, <3>3 DEF PassTried, HereTried, LeafTried
    <3>5. \A m \in 1..Argc : m < n => LeafTried(m)
      <4>1. \A m \in 1..Argc : m < n => m < l \/ m = l
        BY <2>3
      <4>. QED
        BY <3>1, <3>4, <4>1
    <3>6. \A m \in 1..Argc' : m < at'.leaf => LeafTried(m)'
      BY <1>1, <1>3, <1>6, <2>6, <3>5, TriedKept
    <3>7. at'.leaf <= Argc' => HereTried'
      <4>1. SUFFICES ASSUME n <= Argc PROVE HereTried'
        BY <1>3, <2>6
      <4>2. n \in 1..Argc
        BY <1>2, <2>3, <4>1
      <4>3. Len(args[n]) \in Nat
        BY <1>1, <4>2 DEF Args
      <4>4. \A k \in 1..Len(args[n]) : ~(k < 1)
        BY <4>3
      <4>. QED
        BY <1>1, <2>6, <4>4 DEF HereTried, This
    <3>. QED
      BY <2>6, <3>6, <3>7 DEF PassTried
  <2>. QED
    BY <1>7, <2>6, <2>7
<1>11. CASE NextPass
  <2>1. PICK n \in Nat : n = at.pass + 1
    BY <1>1 DEF Cursor
  <2>2. at' = [Start EXCEPT !.pass = n]
    BY <1>11, <2>1 DEF NextPass, Moves
  <2>3. 0 \in Nat /\ 1 \in Nat \ {0}
    OBVIOUS
  <2>4. /\ at' \in Cursor /\ at'.leaf = 1 /\ at'.elem = 1 /\ at'.what = "drop"
        /\ ~at'.removed
    BY <2>2, <2>3 DEF Start, Cursor
  <2>5. PassTried'
    <3>1. Argc' \in Nat /\ \A m \in 1..Argc' : ~(m < 1)
      BY <1>2, <1>3
    <3>2. at'.leaf <= Argc' => HereTried'
      <4>1. SUFFICES ASSUME 1 <= Argc' PROVE HereTried'
        BY <2>4
      <4>2. 1 \in 1..Argc
        BY <1>2, <1>3, <4>1
      <4>3. Len(args[1]) \in Nat
        BY <1>1, <4>2 DEF Args
      <4>4. \A k \in 1..Len(args[1]) : ~(k < 1)
        BY <4>3
      <4>. QED
        BY <1>1, <2>4, <4>4 DEF HereTried, This
    <3>. QED
      BY <2>4, <3>1, <3>2 DEF PassTried
  <2>. QED
    BY <1>7, <2>4, <2>5
<1>. QED
  BY <1>8, <1>9, <1>10, <1>11
LEMMA InputsAreArgs == Checking /\ phase # "done" => Inputs \subseteq Args
<1>. SUFFICES ASSUME Checking, phase # "done", NEW a \in Inputs PROVE a \in Args
  OBVIOUS
<1>1. ASSUME NEW i \in 1..Argc PROVE a[i] \in Seq(Int)
  <2>1. a[i] \in Generated(F.leaves[i])
    BY <1>1 DEF Inputs
  <2>2. PICK n \in (0..MaxLen) \union {1} : a[i] \in [1..n -> Values(F.leaves[i])]
    BY <2>1 DEF Generated
  <2>3. n \in Nat
    BY CheckAssumption
  <2>4. Values(F.leaves[i]) \subseteq Int
    BY CheckAssumption DEF Values
  <2>. QED
    BY <2>2, <2>3, <2>4
<1>. QED
  BY <1>1 DEF Inputs, Args

LEMMA ShrinkingInit == Init => Shrinking
  BY DEF Init, Shrinking

LEMMA ShrinkingStep == Inv /\ Checking /\ Shrinking /\ [Next]_vars => Shrinking'
<1>. SUFFICES ASSUME Inv, Checking, Shrinking, [Next]_vars PROVE Shrinking'
  OBVIOUS
<1>1. CASE Generate
  <2>1. PICK a \in Inputs, d \in Does :
          /\ Trial(a, d) /\ args' = a
          /\ phase' = IF Fails(d) THEN "shrink" ELSE "generate"
    BY <1>1 DEF Generate
  <2>2. phase = "generate" /\ at = Start /\ at' = at /\ NoneFailed
    BY <1>1 DEF Generate, Shrinking, Inv
  <2>3. a \in Args /\ Argc \in Nat
    BY <2>2, InputsAreArgs, ArgcNat
  <2>4. CASE ~Fails(d)
    BY <2>1, <2>2, <2>4 DEF Shrinking
  <2>5. CASE Fails(d)
    <3>1. F' = F /\ Argc' = Argc /\ seen' = seen \union {[args |-> a, does |-> d, cut |-> Cut(d)]}
      BY <2>1 DEF Trial, F, Argc
    <3>2. Args' = Args /\ \A x, y : Below(x, y)' = Below(x, y)
      BY <3>1 DEF Args, Below
    <3>3. Descends'
      <4>1. PICK r : r = [args |-> a, does |-> d, cut |-> Cut(d)]
        OBVIOUS
      <4>2. \A s \in seen' : s.does = "fails" /\ ~s.cut => s = r
        BY <2>2, <3>1, <4>1 DEF NoneFailed
      <4>3. r.args = a /\ Below(a, a)
        BY <2>3, <4>1, BelowSelf
      <4>. QED
        BY <2>1, <2>3, <3>2, <4>2, <4>3 DEF Descends
    <3>4. 0 \in Nat /\ 1 \in Nat \ {0}
      OBVIOUS
    <3>5. /\ at' \in Cursor /\ at'.leaf = 1 /\ at'.elem = 1 /\ at'.what = "drop"
          /\ ~at'.removed
      BY <2>2, <3>4 DEF Start, Cursor
    <3>6. PassTried'
      <4>1. Argc' \in Nat /\ \A m \in 1..Argc' : ~(m < 1)
        BY <2>3, <3>1
      <4>2. at'.leaf <= Argc' => HereTried'
        <5>1. SUFFICES ASSUME 1 <= Argc' PROVE HereTried'
          BY <3>5
        <5>2. 1 \in 1..Argc
          BY <2>3, <3>1, <5>1
        <5>3. Len(a[1]) \in Nat
          BY <2>3, <5>2 DEF Args
        <5>4. \A k \in 1..Len(a[1]) : ~(k < 1)
          BY <5>3
        <5>. QED
          BY <2>1, <3>5, <5>4 DEF HereTried, This
      <4>. QED
        BY <3>5, <4>1, <4>2 DEF PassTried
    <3>7. phase' = "shrink" /\ args' \in Args'
      BY <2>1, <2>3, <2>5, <3>2
    <3>. QED
      BY <3>3, <3>5, <3>6, <3>7 DEF Shrinking
  <2>. QED
    BY <2>4, <2>5
<1>2. CASE Drop \/ Zero \/ Halve
  BY <1>2, DropShrinks, ZeroShrinks, HalveShrinks
<1>3. CASE DropsDone \/ IsZero \/ LeafDone \/ NextPass
  BY <1>3, MovesShrink
<1>4. CASE Shrunk
  <2>1. /\ phase = "shrink" /\ phase' = "report" /\ args \in Args /\ Descends /\ PassTried
        /\ at \in Cursor /\ at.leaf > Argc
        /\ args' = args /\ seen' = seen /\ prog' = prog /\ fi' = fi /\ at' = at
    BY <1>4 DEF Shrunk, Shrinking
  <2>2. Argc \in Nat /\ F' = F /\ Argc' = Argc
    BY <2>1, ArgcNat DEF F, Argc
  <2>3. args' \in Args' /\ Descends'
    BY <2>1, <2>2 DEF Args, Descends, Below
  <2>4. \A l \in 1..Argc : l < at.leaf
    BY <2>1, <2>2 DEF Cursor
  <2>5. ~at'.improved => \A l \in 1..Argc' : LeafTried(l)'
    <3>1. \A b : Tried(b) => Tried(b)'
      BY <2>1 DEF Tried
    <3>. QED
      BY <2>1, <2>2, <2>4, <3>1, TriedKept DEF PassTried
  <2>. QED
    BY <2>1, <2>3, <2>5 DEF Shrinking
<1>5. CASE Report
  <2>1. PICK d : Trial(args, d)
    BY <1>5 DEF Report
  <2>2. /\ phase = "report" /\ phase' = "failed" /\ args \in Args /\ Descends
        /\ args' = args /\ at' = at
    BY <1>5 DEF Report, Shrinking
  <2>3. Below(args, args)
    BY <2>2, BelowSelf
  <2>4. F' = F /\ Argc' = Argc /\ Args' = Args /\ Descends' /\ \A b : Tried(b) => Tried(b)'
    BY <2>1, <2>2, <2>3, TrialDescends
  <2>5. ~at'.improved => \A l \in 1..Argc' : LeafTried(l)'
    BY <2>2, <2>4, TriedKept DEF Shrinking
  <2>. QED
    BY <2>2, <2>4, <2>5 DEF Shrinking
<1>6. CASE Passed
  BY <1>6 DEF Passed, Shrinking
<1>7. CASE NextFunction
  BY <1>7 DEF NextFunction, Shrinking
<1>8. CASE UNCHANGED vars
  <2>1. /\ prog' = prog /\ fi' = fi /\ phase' = phase /\ args' = args /\ at' = at
        /\ seen' = seen /\ F' = F /\ Argc' = Argc /\ This' = This
    BY <1>8 DEF vars, F, Argc, This
  <2>2. Args' = Args /\ (Descends => Descends')
    BY <2>1 DEF Args, Descends, Below
  <2>3. /\ \A l : LeafTried(l) => LeafTried(l)'
        /\ \A l, e : /\ DropTried(l, e) => DropTried(l, e)'
                     /\ ValueTried(l, e) => ValueTried(l, e)'
    <3>1. \A b : Tried(b) => Tried(b)'
      BY <2>1 DEF Tried
    <3>. QED
      BY <2>1, <3>1, TriedKept
  <2>4. HereTried => HereTried'
    <3>1. \A l, e : Tried(ZeroOf(l, e)) => Tried(ZeroOf(l, e))'
      BY <2>1 DEF ZeroOf, Tried
    <3>2. HereTried => \A e \in 1..Len(This') : e < at'.elem \/ at'.what # "drop" => DropTried(at.leaf, e)'
      BY <2>1, <2>3 DEF HereTried
    <3>3. HereTried => (at'.what # "drop" =>
                          \A e \in 1..Len(This') : e < at'.elem => ValueTried(at.leaf, e)')
      BY <2>1, <2>3 DEF HereTried
    <3>. QED
      BY <2>1, <3>1, <3>2, <3>3 DEF HereTried
  <2>5. PassTried => PassTried'
    BY <2>1, <2>3, <2>4 DEF PassTried
  <2>. QED
    BY <2>1, <2>2, <2>3, <2>5 DEF Shrinking
<1>. QED
  BY <1>1, <1>2, <1>3, <1>4, <1>5, <1>6, <1>7, <1>8 DEF Next

\* What was tried on the way is every simplification, and none of them can be among
\* the failures, which are all at least as large as the counterexample.
LEMMA TriedIsMinimal == Shrinking => CounterexampleIsMinimal
<1>. SUFFICES ASSUME Shrinking, phase = "failed", ~at.improved, NEW a \in Simpler(args)
              PROVE  (\E s \in seen : s.args = a) /\ Failure(a) \notin seen
  BY DEF CounterexampleIsMinimal
<1>1. args \in Args /\ Descends /\ \A l \in 1..Argc : LeafTried(l)
  BY DEF Shrinking
<1>2. Tried(a) /\ ~Below(args, a)
  <2>1. ASSUME NEW p \in Places(args)
        PROVE  p[1] \in 1..Argc /\ p[2] \in 1..Len(args[p[1]]) /\ LeafTried(p[1])
    <3>1. p[1] \in 1..Argc /\ p[2] \in 1..(MaxLen + 1) /\ p[2] <= Len(args[p[1]])
      BY <2>1 DEF Places
    <3>2. Len(args[p[1]]) \in Nat
      BY <1>1, <3>1 DEF Args
    <3>. QED
      BY <1>1, <3>1, <3>2
  <2>2. ASSUME NEW p \in Places(args), F.leaves[p[1]].array, a = DropOf(p[1], p[2])
        PROVE  Tried(a) /\ ~Below(args, a)
    BY <1>1, <2>1, <2>2, DropBelow DEF LeafTried, DropTried
  <2>3. ASSUME NEW p \in Places(args), args[p[1]][p[2]] # 0, a = ZeroOf(p[1], p[2])
        PROVE  Tried(a) /\ ~Below(args, a)
    BY <1>1, <2>1, <2>3, SetBelow DEF LeafTried, ValueTried
  <2>4. ASSUME NEW p \in Places(args), args[p[1]][p[2]] # 0, ~F.leaves[p[1]].bool,
               a = HalfOf(p[1], p[2])
        PROVE  Tried(a) /\ ~Below(args, a)
    BY <1>1, <2>1, <2>4, SetBelow DEF LeafTried, ValueTried
  <2>. QED
    BY <2>2, <2>3, <2>4 DEF Simpler, DropOf, ZeroOf, HalfOf
<1>3. Failure(a) \notin seen
  <2>1. SUFFICES ASSUME Failure(a) \in seen PROVE FALSE
    OBVIOUS
  <2>2. Failure(a).args = a /\ Failure(a).does = "fails" /\ ~Failure(a).cut
    BY DEF Failure
  <2>. QED
    BY <1>1, <1>2, <2>1, <2>2 DEF Descends
<1>. QED
  BY <1>2, <1>3 DEF Tried

\* Whatever the function does on its inputs, and however its random draws change
\* that, no simplification of the counterexample was seen to fail and each was tried.
THEOREM CounterexampleIsSmallest == Spec => []CounterexampleIsMinimal
<1>. QED
  BY CheckInit, CheckInductive, CheckingInit, CheckingStep, ShrinkingInit, ShrinkingStep,
     TriedIsMinimal, PTL DEF Spec
=============================================================================
