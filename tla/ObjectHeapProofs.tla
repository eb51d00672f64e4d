-------------------------- MODULE ObjectHeapProofs --------------------------
(***************************************************************************)
(* For any number of contexts and blocks: the lists and the pools are      *)
(* disjoint; as long as malloc does not hand out the address of an ended   *)
(* context again, a context changes no list but its own; counts are exact, *)
(* and whatever can be reached is on a list.                               *)
(***************************************************************************)
EXTENDS ObjectHeap, FunctionTheorems, FiniteSetTheorems, TLAPS

ListsOK ==
  /\ alive \subseteq Ctx
  /\ objects \in [Ctx -> SUBSET Block] /\ pool \in [Ctx -> SUBSET Block]
  /\ graveyard \subseteq Block /\ gpool \subseteq Block
  /\ home \in [Block -> Ctx]

Disjoint ==
  /\ \A c, d \in Ctx : c # d => /\ objects[c] \intersect objects[d] = {}
                                /\ pool[c] \intersect pool[d] = {}
  /\ \A c \in Ctx : /\ objects[c] \intersect graveyard = {}
                    /\ pool[c] \intersect gpool = {}
  /\ Linked \intersect Pooled = {}

\* The objects that name a context that exists are on its list.
AtHome == \A c \in alive : \A b \in Linked : home[b] = c => b \in objects[c]

\* AtHome is what reclaim's test relies on: "o->home != ctx" stands for "o is
\* on another list".
HeapInv ==
  /\ phase \in {"running", "swept", "foreign", "double"}
  /\ phase = "foreign" => reused
  /\ phase = "running" => /\ ListsOK /\ Disjoint
                          /\ reused \/ AtHome

LEMMA HeapInit == Init => HeapInv
<1>. SUFFICES ASSUME Init PROVE HeapInv
  OBVIOUS
<1>1. ListsOK
  BY HeapAssumption DEF Init, HeapAssumption, ListsOK
<1>2. Linked = {Chan} /\ Pooled = {}
  BY HeapAssumption DEF Init, HeapAssumption, Linked, Pooled
<1>3. Disjoint
  BY <1>2 DEF Init, Disjoint
<1>4. AtHome
  <2>1. Chan \in objects[Main] /\ alive = {Main}
    BY HeapAssumption DEF Init, HeapAssumption
  <2>. QED
    BY <1>2, <2>1 DEF AtHome
<1>. QED
  BY <1>1, <1>3, <1>4 DEF Init, HeapInv

\* What the sets are unions of, one member at a time.
LEMMA Members ==
  ASSUME NEW b
  PROVE  /\ b \in Linked <=> b \in graveyard \/ \E c \in Ctx : b \in objects[c]
         /\ b \in Pooled <=> b \in gpool \/ \E c \in Ctx : b \in pool[c]
<1>1. b \in Linked <=> b \in graveyard \/ \E c \in Ctx : b \in objects[c]
  BY DEF Linked
<1>2. b \in Pooled <=> b \in gpool \/ \E c \in Ctx : b \in pool[c]
  BY DEF Pooled
<1>. QED
  BY <1>1, <1>2

LEMMA MembersNext ==
  ASSUME NEW b
  PROVE  /\ b \in Linked' <=> b \in graveyard' \/ \E c \in Ctx : b \in objects'[c]
         /\ b \in Pooled' <=> b \in gpool' \/ \E c \in Ctx : b \in pool'[c]
<1>1. b \in Linked' <=> b \in graveyard' \/ \E c \in Ctx : b \in objects'[c]
  BY DEF Linked
<1>2. b \in Pooled' <=> b \in gpool' \/ \E c \in Ctx : b \in pool'[c]
  BY DEF Pooled
<1>. QED
  BY <1>1, <1>2

\* b is on one list, or in one pool.
AloneIn(b) ==
  /\ \A c, d \in Ctx : c # d => /\ ~(b \in objects[c] /\ b \in objects[d])
                                /\ ~(b \in pool[c] /\ b \in pool[d])
  /\ \A c \in Ctx : ~(b \in objects[c] /\ b \in graveyard) /\ ~(b \in pool[c] /\ b \in gpool)
  /\ ~(b \in Linked /\ b \in Pooled)

LEMMA DisjointByMembers ==
  /\ Disjoint <=> \A b : AloneIn(b)
  /\ Disjoint' <=> \A b : AloneIn(b)'
<1>1. Disjoint <=> \A b : AloneIn(b)
  BY DEF Disjoint, AloneIn
<1>2. Disjoint' <=> \A b : AloneIn(b)'
  BY DEF Disjoint, AloneIn
<1>. QED
  BY <1>1, <1>2

\* An object that is registered is on no list yet, and comes to its home's.
LEMMA RegisterStep ==
  ASSUME ListsOK, Disjoint, NEW c \in Ctx, NEW b \in Block, NEW counted \in BOOLEAN,
         Register(c, b, counted), UNCHANGED <<alive, graveyard, gpool>>
  PROVE  /\ ListsOK' /\ Disjoint'
         /\ AtHome => AtHome'
         /\ b \notin Linked /\ b # Chan
         /\ \A x : x \in Linked' <=> x \in Linked \/ x = b
<1>. USE DEF ListsOK
<1>1. /\ b \notin Linked /\ b \notin gpool
      /\ \A d \in Ctx : b \in pool[d] => d = c
  <2>1. CASE pool[c] \subseteq {Chan}
    BY <2>1, Members DEF Register, Allocatable
  <2>2. CASE ~(pool[c] \subseteq {Chan})
    <3>1. b \in pool[c]
      BY <2>2 DEF Register, Allocatable
    <3>2. AloneIn(b)
      BY DisjointByMembers
    <3>. QED
      BY <3>1, <3>2, Members DEF AloneIn
  <2>. QED
    BY <2>1, <2>2
<1>2. /\ pool' = [pool EXCEPT ![c] = pool[c] \ {b}]
      /\ objects' = [objects EXCEPT ![c] = objects[c] \union {b}]
      /\ home' = [home EXCEPT ![b] = c]
      /\ graveyard' = graveyard /\ gpool' = gpool
  BY DEF Register, PoolWithout
<1>3. ListsOK'
  BY <1>2
<1>4. \A x : x \in Linked' <=> x \in Linked \/ x = b
  BY <1>2, Members, MembersNext
<1>5. b \notin Pooled' /\ \A x : x \in Pooled' => x \in Pooled
  BY <1>1, <1>2, Members, MembersNext
<1>6. ASSUME NEW x PROVE AloneIn(x)'
  <2>0. AloneIn(x)
    BY DisjointByMembers
  <2>1. CASE x = b
    <3>1. \A d \in Ctx : x \notin objects[d] /\ x \notin graveyard
      BY <1>1, <2>1, Members
    <3>. QED
      BY <1>1, <1>2, <1>5, <2>1, <3>1 DEF AloneIn
  <2>2. CASE x # b
    <3>1. \A d \in Ctx : /\ x \in objects'[d] <=> x \in objects[d]
                         /\ x \in pool'[d] => x \in pool[d]
      BY <1>2, <2>2
    <3>. QED
      BY <1>2, <1>4, <1>5, <2>0, <2>2, <3>1 DEF AloneIn
  <2>. QED
    BY <2>1, <2>2
<1>7. ASSUME AtHome PROVE AtHome'
  BY <1>1, <1>2, <1>4, <1>7 DEF AtHome
<1>8. b # Chan
  BY DEF Register, Allocatable
<1>. QED
  BY <1>1, <1>3, <1>4, <1>6, <1>7, <1>8, DisjointByMembers

\* reclaim at home takes the object from its own list to its own pool.
LEMMA RetireStep ==
  ASSUME ListsOK, Disjoint, reused \/ AtHome, NEW c \in Ctx, Retire(c)
  PROVE  /\ phase' \in {"running", "foreign", "double"}
         /\ phase' = "foreign" => reused'
         /\ phase' = "running" => ListsOK' /\ Disjoint' /\ (reused' \/ AtHome')
         /\ phase' = "double" => Head(todo[c]).b \notin Linked
         /\ phase' = "running" => \A x : x \in Linked' <=>
              x \in Linked /\ ~(Mine(c, Head(todo[c]).b) /\ x = Head(todo[c]).b)
<1>. USE DEF ListsOK
<1>. DEFINE b == Head(todo[c]).b
<1>1. /\ c \in alive /\ phase = "running" /\ home' = home /\ reused' = reused
      /\ UNCHANGED <<alive, graveyard, gpool>>
  BY DEF Retire, Drops, fields
<1>2. CASE ~Mine(c, b)
  <2>1. UNCHANGED <<phase, objects, pool>>
    BY <1>2 DEF Retire
  <2>2. Linked' = Linked /\ Pooled' = Pooled
    BY <1>1, <2>1 DEF Linked, Pooled
  <2>3. phase' = "running" /\ ListsOK' /\ Disjoint' /\ (reused' \/ AtHome')
    BY <1>1, <2>1, <2>2 DEF Disjoint, AtHome
  <2>. QED
    BY <1>2, <2>2, <2>3
<1>3. CASE Mine(c, b)
  <2>1. /\ phase' = IF b \in objects[c] THEN "running"
                     ELSE IF b \in Linked THEN "foreign" ELSE "double"
        /\ objects' = [objects EXCEPT ![c] = objects[c] \ {b}]
        /\ pool' = [pool EXCEPT ![c] = pool[c] \union {b}]
    BY <1>3 DEF Retire
  <2>2. home[b] = c
    BY <1>3 DEF Mine
  <2>. HIDE DEF b
  <2>3. phase' = "foreign" => reused
    BY <1>1, <2>1, <2>2 DEF AtHome
  <2>4. CASE b \notin objects[c]
    <3>1. phase' = IF b \in Linked THEN "foreign" ELSE "double"
      BY <2>1, <2>4
    <3>. QED
      BY <2>3, <3>1, <1>1 DEF b
  <2>5. CASE b \in objects[c]
    <3>1. b \in Linked /\ b \notin Pooled /\ b \in Block /\ AloneIn(b)
      BY <2>5, Members, DisjointByMembers DEF AloneIn
    <3>2. ListsOK'
      BY <1>1, <2>1, <3>1
    <3>3. b \notin Linked'
      BY <1>1, <2>1, <2>5, <3>1, MembersNext DEF AloneIn
    <3>4. ASSUME NEW x, x # b
          PROVE  /\ x \in Linked' <=> x \in Linked
                 /\ x \in Pooled' <=> x \in Pooled
                 /\ \A d \in Ctx : /\ x \in objects'[d] <=> x \in objects[d]
                                   /\ x \in pool'[d] <=> x \in pool[d]
      <4>1. \A d \in Ctx : /\ x \in objects'[d] <=> x \in objects[d]
                           /\ x \in pool'[d] <=> x \in pool[d]
        BY <2>1, <3>4
      <4>2. x \in Linked' <=> x \in Linked
        <5>1. x \in Linked <=> x \in graveyard \/ \E d \in Ctx : x \in objects[d]
          BY Members
        <5>2. x \in Linked' <=> x \in graveyard' \/ \E d \in Ctx : x \in objects'[d]
          BY MembersNext
        <5>. QED
          BY <1>1, <4>1, <5>1, <5>2, Zenon
      <4>3. x \in Pooled' <=> x \in Pooled
        <5>1. x \in Pooled <=> x \in gpool \/ \E d \in Ctx : x \in pool[d]
          BY Members
        <5>2. x \in Pooled' <=> x \in gpool' \/ \E d \in Ctx : x \in pool'[d]
          BY MembersNext
        <5>. QED
          BY <1>1, <4>1, <5>1, <5>2, Zenon
      <4>. QED
        BY <4>1, <4>2, <4>3
    <3>5. \A d \in Ctx : b \in pool'[d] => d = c
      BY <2>1, <3>1, Members
    <3>6. ASSUME NEW x PROVE AloneIn(x)'
      <4>1. CASE x = b
        <5>1. \A d \in Ctx : b \notin objects'[d] /\ b \notin graveyard'
          BY <3>3, MembersNext
        <5>2. b \notin gpool'
          BY <1>1, <3>1, Members
        <5>. QED
          BY <3>3, <3>5, <4>1, <5>1, <5>2 DEF AloneIn
      <4>2. CASE x # b
        <5>1. AloneIn(x)
          BY DisjointByMembers
        <5>. QED
          BY <1>1, <3>4, <4>2, <5>1 DEF AloneIn
      <4>. QED
        BY <4>1, <4>2
    <3>7. ASSUME AtHome PROVE AtHome'
      <4>. SUFFICES ASSUME NEW d \in alive', NEW x \in Linked', home'[x] = d
           PROVE  x \in objects'[d]
        BY DEF AtHome
      <4>1. x # b /\ x \in Linked /\ d \in alive /\ d \in Ctx
        BY <1>1, <3>3, <3>4
      <4>2. x \in objects[d]
        BY <1>1, <3>7, <4>1 DEF AtHome
      <4>. QED
        BY <3>4, <4>1, <4>2
    <3>8. phase' = "running"
      BY <2>1, <2>5
    <3>9. \A x : x \in Linked' <=> x \in Linked /\ ~(Mine(c, b) /\ x = b)
      BY <1>3, <3>3, <3>4 DEF b
    <3>. QED
      BY <1>1, <3>2, <3>6, <3>7, <3>8, <3>9, DisjointByMembers DEF b
  <2>. QED
    BY <2>4, <2>5
<1>. QED
  BY <1>2, <1>3

\* The end of a task moves its list, and changes no home.
LEMMA EndStep ==
  ASSUME ListsOK, Disjoint, NEW c \in Ctx, End(c)
  PROVE  /\ ListsOK' /\ Disjoint'
         /\ AtHome => AtHome'
         /\ \A x : x \in Linked' <=> x \in Linked
<1>. USE DEF ListsOK
<1>1. /\ alive' = alive \ {c} /\ home' = home
      /\ graveyard' = graveyard \union objects[c]
      /\ gpool' = IF Drains THEN gpool ELSE gpool \union pool[c]
      /\ objects' = [objects EXCEPT ![c] = {}]
      /\ pool' = [pool EXCEPT ![c] = {}]
  BY DEF End, Spliced, fields
<1>2. ListsOK'
  BY <1>1
<1>3. ASSUME NEW x
      PROVE  /\ x \in Linked' <=> x \in Linked
             /\ x \in Pooled' => x \in Pooled
  <2>1. x \in Linked' <=> x \in Linked
    BY <1>1, Members, MembersNext
  <2>2. x \in Pooled' => x \in Pooled
    BY <1>1, Members, MembersNext
  <2>. QED
    BY <2>1, <2>2
<1>4. ASSUME NEW x PROVE AloneIn(x)'
  <2>1. AloneIn(x)
    BY DisjointByMembers
  <2>2. ~(x \in Linked' /\ x \in Pooled')
    BY <1>3, <2>1 DEF AloneIn
  <2>3. \A d \in Ctx : /\ x \in objects'[d] => x \in objects[d] /\ d # c
                       /\ x \in pool'[d] => x \in pool[d] /\ d # c
    BY <1>1
  <2>4. /\ x \in graveyard' => x \in graveyard \/ x \in objects[c]
        /\ x \in gpool' => x \in gpool \/ x \in pool[c]
    BY <1>1
  <2>5. ASSUME NEW d \in Ctx, NEW e \in Ctx, d # e
        PROVE  ~(x \in objects'[d] /\ x \in objects'[e]) /\ ~(x \in pool'[d] /\ x \in pool'[e])
    <3>1. ~(x \in objects[d] /\ x \in objects[e]) /\ ~(x \in pool[d] /\ x \in pool[e])
      BY <2>1, <2>5 DEF AloneIn
    <3>. QED
      BY <2>3, <3>1, Zenon
  <2>6. ASSUME NEW d \in Ctx
        PROVE  ~(x \in objects'[d] /\ x \in graveyard') /\ ~(x \in pool'[d] /\ x \in gpool')
    <3>1. /\ x \in objects'[d] => x \in objects[d] /\ d # c
          /\ x \in pool'[d] => x \in pool[d] /\ d # c
      BY <2>3, <2>6, Zenon
    <3>2. x \in objects'[d] => x \notin graveyard /\ x \notin objects[c]
      BY <2>1, <2>6, <3>1 DEF AloneIn
    <3>3. x \in pool'[d] => x \notin gpool /\ x \notin pool[c]
      BY <2>1, <2>6, <3>1 DEF AloneIn
    <3>. QED
      BY <2>4, <3>2, <3>3
  <2>. QED
    BY <2>2, <2>5, <2>6 DEF AloneIn
<1>5. ASSUME AtHome PROVE AtHome'
  <2>. SUFFICES ASSUME NEW d \in alive', NEW x \in Linked', home'[x] = d
       PROVE  x \in objects'[d]
    BY DEF AtHome
  <2>1. d \in alive /\ d # c /\ x \in Linked /\ home[x] = d
    BY <1>1, <1>3
  <2>. QED
    BY <1>1, <1>5, <2>1 DEF AtHome
<1>. QED
  BY <1>2, <1>3, <1>4, <1>5, DisjointByMembers

\* A new context at an address nobody names is at home nowhere.
LEMMA SpawnStep ==
  ASSUME ListsOK, Disjoint, reused \/ AtHome, NEW c \in Ctx, NEW d \in Ctx,
         NEW args \in SUBSET Block, Spawn(c, d, args)
  PROVE  ListsOK' /\ Disjoint' /\ (reused' \/ AtHome')
<1>1. /\ alive' = alive \union {d} /\ home' = home
      /\ reused' = (reused \/ \E b \in Linked : home[b] = d)
      /\ UNCHANGED <<objects, pool, graveyard, gpool>>
  BY DEF Spawn, arenas, fields
<1>2. Linked' = Linked /\ Pooled' = Pooled
  BY <1>1 DEF Linked, Pooled
<1>3. ListsOK' /\ Disjoint'
  BY <1>1, <1>2 DEF ListsOK, Disjoint
<1>4. reused' \/ AtHome'
  BY <1>1, <1>2 DEF AtHome
<1>. QED
  BY <1>3, <1>4

LEMMA Frame ==
  ASSUME HeapInv, UNCHANGED <<alive, arenas, home, phase, reused>>
  PROVE  HeapInv'
<1>1. Linked' = Linked /\ Pooled' = Pooled
  BY DEF Linked, Pooled, arenas
<1>2. ListsOK => ListsOK'
  BY DEF ListsOK, arenas
<1>3. Disjoint => Disjoint'
  BY <1>1 DEF Disjoint, arenas
<1>4. AtHome => AtHome'
  BY <1>1 DEF AtHome, arenas
<1>. QED
  BY <1>2, <1>3, <1>4 DEF HeapInv

LEMMA HeapStep ==
  ASSUME HeapInv, [Next]_vars
  PROVE  HeapInv'
<1>1. CASE UNCHANGED <<alive, arenas, home, phase, reused>>
  BY <1>1, Frame
<1>2. ASSUME NEW c \in Ctx, NEW b \in Block, NEW counted \in BOOLEAN,
             Register(c, b, counted), Interprets(c),
             UNCHANGED <<alive, graveyard, gpool, phase, reused>>
      PROVE  HeapInv'
  <2>1. phase = "running"
    BY <1>2 DEF Interprets
  <2>2. ListsOK' /\ Disjoint' /\ (AtHome => AtHome')
    BY <1>2, <2>1, RegisterStep DEF HeapInv
  <2>. QED
    BY <1>2, <2>1, <2>2 DEF HeapInv
<1>3. ASSUME NEW c \in Ctx, NEW b \in Block, NEW counted \in BOOLEAN, NEW parts,
             New(c, b, counted, parts)
      PROVE  HeapInv'
  BY <1>2, <1>3 DEF New
<1>4. ASSUME NEW c \in Ctx, NEW b \in Block, NEW d \in Block, Clone(c, b, d)
      PROVE  HeapInv'
  BY <1>2, <1>4 DEF Clone
<1>5. ASSUME NEW c \in Ctx, NEW b \in Block,
             Retain(c, b) \/ Send(c, b) \/ DropValue(c, b) \/ Recv(c) \/ DropChild(c)
      PROVE  HeapInv'
  BY <1>5, Frame DEF Retain, Send, DropValue, Recv, DropChild, DropOne
<1>6. ASSUME NEW c \in Ctx, Retire(c)
      PROVE  HeapInv'
  <2>1. phase = "running"
    BY <1>6 DEF Retire, Drops
  <2>. QED
    BY <1>6, <2>1, RetireStep DEF HeapInv
<1>7. ASSUME NEW c \in Ctx, End(c)
      PROVE  HeapInv'
  <2>1. phase = "running" /\ phase' = phase /\ reused' = reused
    BY <1>7 DEF End, Interprets
  <2>. QED
    BY <1>7, <2>1, EndStep DEF HeapInv
<1>8. ASSUME NEW c \in Ctx, NEW d \in Ctx, NEW args \in SUBSET Block, Spawn(c, d, args)
      PROVE  HeapInv'
  <2>1. phase = "running" /\ phase' = phase
    BY <1>8 DEF Spawn, Interprets
  <2>. QED
    BY <1>8, <2>1, SpawnStep DEF HeapInv
<1>9. ASSUME Sweep PROVE HeapInv'
  BY <1>9 DEF Sweep, HeapInv
<1>10. ASSUME NEW c \in Ctx, Recv(c) \/ DropChild(c)
       PROVE  HeapInv'
  BY <1>10, Frame DEF Recv, DropChild, DropOne
<1>11. ASSUME Over \/ UNCHANGED vars PROVE HeapInv'
  BY <1>1, <1>11 DEF Over, vars, fields
<1>. QED
  BY <1>3, <1>4, <1>5, <1>6, <1>7, <1>8, <1>9, <1>10, <1>11 DEF Next

\* The private lists and pools, the graveyard and the merged pools stay
\* disjoint through every allocation, drop, merge and reuse of a block, for any
\* number of tasks: neither the exit sweep nor drain_pool frees a block twice.
THEOREM ListsDisjoint == Spec => []OneList
<1>1. HeapInv => OneList
  BY DEF HeapInv, Disjoint, OneList
<1>. QED
  BY HeapInit, HeapStep, <1>1, PTL DEF Spec

\* reclaim's test, o->home != ctx, keeps every context on its own list for as
\* long as no context is made at the address of an ended one whose objects are
\* still linked.
THEOREM HomeIsEnough == Spec => []OwnArenaUnlessReused
<1>1. HeapInv => OwnArenaUnlessReused
  BY DEF HeapInv, OwnArenaUnlessReused, OwnArena
<1>. QED
  BY HeapInit, HeapStep, <1>1, PTL DEF Spec

-----------------------------------------------------------------------------
(* Counting *)

\* The places of e in a sequence, and how many there are.
Places(s, e) == {i \in DOMAIN s : s[i] = e}
Occurs(s, e) == Cardinality(Places(s, e))

\* The pairs of an index and a member of its set, and how many there are.
Columns(F) == UNION {{x} \X F[x] : x \in DOMAIN F}
Number(F) == Cardinality(Columns(F))

\* A bijection keeps the number of elements.
LEMMA SameNumber ==
  ASSUME NEW S, NEW T, IsFiniteSet(S), NEW f \in [S -> T],
         \A a, b \in S : f[a] = f[b] => a = b, \A t \in T : \E a \in S : f[a] = t
  PROVE  IsFiniteSet(T) /\ Cardinality(T) = Cardinality(S)
<1>1. f \in Bijection(S, T)
  BY Fun_IsBij
<1>2. ExistsBijection(S, T)
  BY <1>1, Fun_ExistsBij
<1>. QED
  BY <1>2, FS_Bijection

LEMMA PlacesFinite ==
  ASSUME NEW D, NEW s \in Seq(D), NEW e
  PROVE  IsFiniteSet(Places(s, e)) /\ Occurs(s, e) \in Nat
<1>1. IsFiniteSet(1 .. Len(s))
  BY FS_Interval
<1>2. Places(s, e) \in SUBSET (1 .. Len(s))
  BY DEF Places
<1>3. IsFiniteSet(Places(s, e))
  BY <1>1, <1>2, FS_Subset
<1>. QED
  BY <1>3, FS_CardinalityType DEF Occurs

LEMMA OccursEmpty ==
  ASSUME NEW e
  PROVE  Places(<<>>, e) = {} /\ Occurs(<<>>, e) = 0
<1>1. Places(<<>>, e) = {}
  BY DEF Places
<1>. QED
  BY <1>1, FS_EmptySet DEF Occurs

LEMMA OccursOne ==
  ASSUME NEW D, NEW x \in D, NEW e
  PROVE  Occurs(<<x>>, e) = IF x = e THEN 1 ELSE 0
<1>1. CASE x = e
  <2>1. Places(<<x>>, e) = {1}
    BY <1>1 DEF Places
  <2>. QED
    BY <1>1, <2>1, FS_Singleton DEF Occurs
<1>2. CASE x # e
  <2>1. Places(<<x>>, e) = {}
    BY <1>2 DEF Places
  <2>. QED
    BY <1>2, <2>1, FS_EmptySet DEF Occurs
<1>. QED
  BY <1>1, <1>2

\* The second of two sequences is moved behind the first.
LEMMA OccursConcat ==
  ASSUME NEW D, NEW s \in Seq(D), NEW t \in Seq(D), NEW e
  PROVE  Occurs(s \o t, e) = Occurs(s, e) + Occurs(t, e)
<1>. DEFINE moved == {i + Len(s) : i \in Places(t, e)}
<1>. DEFINE f == [i \in Places(t, e) |-> i + Len(s)]
<1>1. /\ s \o t \in Seq(D) /\ Len(s) \in Nat /\ Len(t) \in Nat
      /\ DOMAIN s = 1 .. Len(s) /\ DOMAIN t = 1 .. Len(t)
      /\ DOMAIN (s \o t) = 1 .. Len(s) + Len(t)
      /\ \A i \in 1 .. Len(s) + Len(t) :
           (s \o t)[i] = IF i <= Len(s) THEN s[i] ELSE t[i - Len(s)]
  OBVIOUS
<1>2. IsFiniteSet(Places(s, e)) /\ IsFiniteSet(Places(t, e))
  BY PlacesFinite
<1>3. \A i \in Places(t, e) : i \in 1 .. Len(t)
  BY <1>1 DEF Places
<1>4. IsFiniteSet(moved) /\ Cardinality(moved) = Cardinality(Places(t, e))
  <2>1. f \in [Places(t, e) -> moved]
    OBVIOUS
  <2>2. \A a, b \in Places(t, e) : f[a] = f[b] => a = b
    BY <1>1, <1>3
  <2>3. \A m \in moved : \E a \in Places(t, e) : f[a] = m
    OBVIOUS
  <2>. HIDE DEF f, moved
  <2>. QED
    BY <1>2, <2>1, <2>2, <2>3, SameNumber
<1>5. Places(s \o t, e) = Places(s, e) \union moved
  <2>1. ASSUME NEW i \in Places(s \o t, e) PROVE i \in Places(s, e) \union moved
    <3>1. i \in 1 .. Len(s) + Len(t) /\ (s \o t)[i] = e
      BY <1>1 DEF Places
    <3>2. CASE i <= Len(s)
      BY <1>1, <3>1, <3>2 DEF Places
    <3>3. CASE ~(i <= Len(s))
      <4>1. i - Len(s) \in 1 .. Len(t) /\ t[i - Len(s)] = e
        BY <1>1, <3>1, <3>3
      <4>2. i - Len(s) \in Places(t, e) /\ i = (i - Len(s)) + Len(s)
        BY <1>1, <3>1, <4>1 DEF Places
      <4>. QED
        BY <4>2
    <3>. QED
      BY <3>2, <3>3
  <2>2. ASSUME NEW i \in Places(s, e) PROVE i \in Places(s \o t, e)
    BY <1>1 DEF Places
  <2>3. ASSUME NEW j \in Places(t, e) PROVE j + Len(s) \in Places(s \o t, e)
    <3>1. j \in 1 .. Len(t) /\ t[j] = e
      BY <1>1 DEF Places
    <3>2. /\ j + Len(s) \in 1 .. Len(s) + Len(t) /\ ~(j + Len(s) <= Len(s))
          /\ (j + Len(s)) - Len(s) = j
      BY <1>1, <3>1
    <3>3. (s \o t)[j + Len(s)] = e
      BY <1>1, <3>1, <3>2
    <3>. QED
      BY <1>1, <3>2, <3>3 DEF Places
  <2>. QED
    BY <2>1, <2>2, <2>3
<1>6. Places(s, e) \intersect moved = {}
  BY <1>1, <1>3 DEF Places
<1>. HIDE DEF moved
<1>7. Cardinality(Places(s, e) \union moved)
        = Cardinality(Places(s, e)) + Cardinality(moved) - Cardinality({})
  BY <1>2, <1>4, <1>6, FS_Union
<1>8. Cardinality({}) = 0 /\ Cardinality(Places(s, e)) \in Nat /\ Cardinality(moved) \in Nat
  BY <1>2, <1>4, FS_EmptySet, FS_CardinalityType
<1>. QED
  BY <1>4, <1>5, <1>7, <1>8 DEF Occurs

LEMMA OccursTail ==
  ASSUME NEW D, NEW s \in Seq(D), s # <<>>, NEW e
  PROVE  Occurs(s, e) = Occurs(Tail(s), e) + (IF Head(s) = e THEN 1 ELSE 0)
<1>1. /\ Head(s) \in D /\ Tail(s) \in Seq(D) /\ <<Head(s)>> \in Seq(D)
      /\ s = <<Head(s)>> \o Tail(s)
  OBVIOUS
<1>2. Occurs(<<Head(s)>> \o Tail(s), e) = Occurs(<<Head(s)>>, e) + Occurs(Tail(s), e)
  BY <1>1, OccursConcat
<1>3. Occurs(<<Head(s)>>, e) = (IF Head(s) = e THEN 1 ELSE 0) /\ Occurs(Tail(s), e) \in Nat
  BY <1>1, OccursOne, PlacesFinite
<1>4. Occurs(s, e) = Occurs(<<Head(s)>>, e) + Occurs(Tail(s), e)
  BY <1>1, <1>2, Zenon
<1>. QED
  BY ONLY <1>3, <1>4

LEMMA OccursAppend ==
  ASSUME NEW D, NEW s \in Seq(D), NEW x \in D, NEW e
  PROVE  Occurs(Append(s, x), e) = Occurs(s, e) + (IF x = e THEN 1 ELSE 0)
<1>1. <<x>> \in Seq(D) /\ Append(s, x) = s \o <<x>>
  OBVIOUS
<1>2. Occurs(s \o <<x>>, e) = Occurs(s, e) + Occurs(<<x>>, e)
  BY <1>1, OccursConcat
<1>. QED
  BY <1>1, <1>2, OccursOne

\* A column that changes.
LEMMA ColumnChanges ==
  ASSUME NEW F, NEW G, NEW x \in DOMAIN F, DOMAIN G = DOMAIN F,
         \A y \in DOMAIN F : y # x => G[y] = F[y],
         IsFiniteSet(F[x]), IsFiniteSet(G[x]), IsFiniteSet(Columns(F))
  PROVE  /\ IsFiniteSet(Columns(G))
         /\ Number(F) \in Nat /\ Number(G) \in Nat
         /\ Cardinality(F[x]) \in Nat /\ Cardinality(G[x]) \in Nat
         /\ Cardinality(F[x]) <= Number(F)
         /\ Number(G) = Number(F) - Cardinality(F[x]) + Cardinality(G[x])
<1>. DEFINE old == {x} \X F[x]  new == {x} \X G[x]  rest == Columns(F) \ old
<1>1. /\ IsFiniteSet(old) /\ Cardinality(old) = Cardinality(F[x]) /\ Cardinality(F[x]) \in Nat
      /\ IsFiniteSet(new) /\ Cardinality(new) = Cardinality(G[x]) /\ Cardinality(G[x]) \in Nat
  <2>1. IsFiniteSet({x}) /\ Cardinality({x}) = 1
    BY FS_Singleton
  <2>2. /\ IsFiniteSet(old) /\ Cardinality(old) = 1 * Cardinality(F[x])
        /\ IsFiniteSet(new) /\ Cardinality(new) = 1 * Cardinality(G[x])
    BY <2>1, FS_Product
  <2>3. Cardinality(F[x]) \in Nat /\ Cardinality(G[x]) \in Nat
    BY FS_CardinalityType
  <2>. QED
    BY <2>2, <2>3
<1>2. \A p : p \in Columns(F) <=> \E y \in DOMAIN F : p \in {y} \X F[y]
  BY DEF Columns
<1>3. \A p : p \in Columns(G) <=> \E y \in DOMAIN F : p \in {y} \X G[y]
  BY DEF Columns
<1>4. old \subseteq Columns(F) /\ new \subseteq Columns(G)
  BY <1>2, <1>3
<1>5. \A p \in rest : p \notin new /\ p \in Columns(G)
  <2>. SUFFICES ASSUME NEW p \in rest PROVE p \notin new /\ p \in Columns(G)
    OBVIOUS
  <2>1. PICK y \in DOMAIN F : p \in {y} \X F[y]
    BY <1>2
  <2>2. y # x
    BY <2>1
  <2>. QED
    BY <1>3, <2>1, <2>2
<1>6. \A p \in Columns(G) : p \in new \/ p \in rest
  <2>. SUFFICES ASSUME NEW p \in Columns(G), p \notin new PROVE p \in rest
    OBVIOUS
  <2>1. PICK y \in DOMAIN F : p \in {y} \X G[y]
    BY <1>3
  <2>2. y # x
    BY <2>1
  <2>3. p \in {y} \X F[y]
    BY <2>1, <2>2
  <2>. QED
    BY <1>2, <2>2, <2>3
<1>7. Columns(G) = rest \union new /\ rest \intersect new = {} /\ Columns(F) \intersect old = old
  BY <1>4, <1>5, <1>6
<1>. HIDE DEF old, new
<1>8. /\ IsFiniteSet(rest)
      /\ Cardinality(rest) = Cardinality(Columns(F)) - Cardinality(Columns(F) \intersect old)
  BY <1>1, FS_Difference
<1>9. /\ IsFiniteSet(rest \union new)
      /\ Cardinality(rest \union new) = Cardinality(rest) + Cardinality(new) - Cardinality(rest \intersect new)
  BY <1>1, <1>8, FS_Union
<1>10. Cardinality({}) = 0 /\ Cardinality(Columns(F)) \in Nat /\ Cardinality(rest) \in Nat
  BY <1>8, FS_EmptySet, FS_CardinalityType
<1>11. Cardinality(rest) = Number(F) - Cardinality(F[x])
  BY <1>1, <1>7, <1>8 DEF Number
<1>12. IsFiniteSet(Columns(G)) /\ Number(G) = Cardinality(rest) + Cardinality(G[x]) - 0
  BY <1>1, <1>7, <1>9, <1>10 DEF Number
<1>13. Number(F) \in Nat
  BY <1>10 DEF Number
<1>14. /\ Number(G) \in Nat /\ Cardinality(F[x]) <= Number(F)
       /\ Number(G) = Number(F) - Cardinality(F[x]) + Cardinality(G[x])
  BY ONLY <1>1, <1>10, <1>11, <1>12, <1>13
<1>. QED
  BY <1>1, <1>12, <1>13, <1>14

-----------------------------------------------------------------------------
(* The references *)

\* What Refs(b) counts, by columns: the references on the stack of each task, those in
\* each object, and the entries of each task's drop_value; and who is about to
\* reclaim b.
Stack(b)   == [c \in Ctx |-> 1 .. holds[c][b]]
Slots(b)   == [x \in Block |-> Places(kids[x], b)]
Entries(e) == [c \in Ctx |-> Places(todo[c], e)]

Total(b)  == Number(Stack(b)) + Number(Slots(b)) + Number(Entries(Drop(b))) + lost[b]
Claims(b) == Number(Entries(Reclaim(b)))

Countable(b) == /\ IsFiniteSet(Columns(Stack(b))) /\ IsFiniteSet(Columns(Slots(b)))
                /\ IsFiniteSet(Columns(Entries(Drop(b))))
                /\ IsFiniteSet(Columns(Entries(Reclaim(b))))

\* A count is exact; what is on no list has no reference and owns nothing; and
\* what is about to be reclaimed has no reference left, owns nothing, and is
\* reclaimed by one task, once.
Tallied(b) ==
  /\ b \in Linked => IF shared[b] THEN refcount[b] = Total(b) ELSE Total(b) <= 1
  /\ b \notin Linked => Total(b) = 0 /\ Claims(b) = 0 /\ kids[b] = <<>>
  /\ Claims(b) > 0 => Claims(b) = 1 /\ Total(b) = 0 /\ kids[b] = <<>>

\* A context that does not exist has no stack.
Vacant(c) == holds[c] = None /\ todo[c] = <<>>

CountInv ==
  /\ TypeOK /\ phase # "double"
  /\ phase = "running" => /\ shared[Chan]
                          /\ \A c \in Ctx \ alive : Vacant(c)
                          /\ \A b \in Block : Countable(b) /\ Tallied(b)

LEMMA StackMoves ==
  ASSUME holds \in [Ctx -> [Block -> Nat]], holds' \in [Ctx -> [Block -> Nat]],
         NEW b \in Block, NEW c \in Ctx, IsFiniteSet(Columns(Stack(b))),
         \A d \in Ctx : d # c => holds'[d][b] = holds[d][b]
  PROVE  /\ IsFiniteSet(Columns(Stack(b)))'
         /\ Number(Stack(b)) \in Nat /\ Number(Stack(b))' \in Nat
         /\ holds[c][b] <= Number(Stack(b))
         /\ Number(Stack(b))' = Number(Stack(b)) - holds[c][b] + holds'[c][b]
<1>. DEFINE F == Stack(b)  G == [d \in Ctx |-> 1 .. holds'[d][b]]
<1>1. /\ DOMAIN F = Ctx /\ DOMAIN G = Ctx
      /\ \A d \in Ctx : F[d] = 1 .. holds[d][b] /\ G[d] = 1 .. holds'[d][b]
  BY DEF Stack
<1>2. Columns(Stack(b))' = Columns(G) /\ Number(Stack(b))' = Number(G)
  BY DEF Stack, Number, Columns
<1>3. ASSUME NEW n \in Nat PROVE IsFiniteSet(1 .. n) /\ Cardinality(1 .. n) = n
  <2>1. IsFiniteSet(1 .. n) /\ Cardinality(1 .. n) = IF 1 > n THEN 0 ELSE n - 1 + 1
    <3>1. 1 \in Int /\ n \in Int
      BY <1>3
    <3>. QED
      BY ONLY <3>1, FS_Interval
  <2>. QED
    BY <2>1
<1>. HIDE DEF F, G
<1>0. c \in DOMAIN F /\ DOMAIN G = DOMAIN F
  BY <1>1
<1>4. /\ IsFiniteSet(F[c]) /\ IsFiniteSet(G[c])
      /\ Cardinality(F[c]) = holds[c][b] /\ Cardinality(G[c]) = holds'[c][b]
  BY <1>1, <1>3
<1>5. IsFiniteSet(Columns(F))
  BY DEF F
<1>6. \A d \in DOMAIN F : d # c => G[d] = F[d]
  BY <1>1
<1>7. /\ IsFiniteSet(Columns(G)) /\ Number(F) \in Nat /\ Number(G) \in Nat
      /\ Cardinality(F[c]) <= Number(F)
      /\ Number(G) = Number(F) - Cardinality(F[c]) + Cardinality(G[c])
  BY ONLY <1>0, <1>4, <1>5, <1>6, ColumnChanges
<1>. QED
  BY <1>2, <1>4, <1>7 DEF F

\* References that go from one stack to another.
LEMMA StackPasses ==
  ASSUME holds \in [Ctx -> [Block -> Nat]], holds' \in [Ctx -> [Block -> Nat]],
         NEW b \in Block, NEW c \in Ctx, NEW d \in Ctx, c # d, IsFiniteSet(Columns(Stack(b))),
         \A e \in Ctx : e # c /\ e # d => holds'[e][b] = holds[e][b],
         holds'[c][b] + holds'[d][b] = holds[c][b] + holds[d][b]
  PROVE  /\ IsFiniteSet(Columns(Stack(b)))'
         /\ Number(Stack(b)) \in Nat /\ Number(Stack(b))' = Number(Stack(b))
<1>. DEFINE F == Stack(b)  G == [e \in Ctx |-> 1 .. holds'[e][b]]
            H == [e \in Ctx |-> IF e = c THEN G[c] ELSE F[e]]
<1>1. /\ DOMAIN F = Ctx /\ DOMAIN G = Ctx /\ DOMAIN H = Ctx
      /\ \A e \in Ctx : F[e] = 1 .. holds[e][b] /\ G[e] = 1 .. holds'[e][b]
      /\ H[c] = G[c] /\ \A e \in Ctx : e # c => H[e] = F[e]
  BY DEF Stack
<1>2. Columns(Stack(b))' = Columns(G) /\ Number(Stack(b))' = Number(G)
  BY DEF Stack, Number, Columns
<1>3. ASSUME NEW n \in Nat PROVE IsFiniteSet(1 .. n) /\ Cardinality(1 .. n) = n
  <2>1. IsFiniteSet(1 .. n) /\ Cardinality(1 .. n) = IF 1 > n THEN 0 ELSE n - 1 + 1
    <3>1. 1 \in Int /\ n \in Int
      BY <1>3
    <3>. QED
      BY ONLY <3>1, FS_Interval
  <2>. QED
    BY <2>1
<1>4. IsFiniteSet(Columns(F))
  OBVIOUS
<1>. HIDE DEF F, G, H
<1>5. ASSUME NEW e \in Ctx
      PROVE  /\ IsFiniteSet(F[e]) /\ Cardinality(F[e]) = holds[e][b]
             /\ IsFiniteSet(G[e]) /\ Cardinality(G[e]) = holds'[e][b]
  <2>1. holds[e][b] \in Nat /\ holds'[e][b] \in Nat
    OBVIOUS
  <2>2. F[e] = 1 .. holds[e][b] /\ G[e] = 1 .. holds'[e][b]
    BY <1>1
  <2>. QED
    BY <1>3, <2>1, <2>2
<1>6. /\ IsFiniteSet(Columns(H)) /\ Number(F) \in Nat /\ Number(H) \in Nat
      /\ Number(H) = Number(F) - holds[c][b] + holds'[c][b]
  <2>1. /\ c \in DOMAIN F /\ DOMAIN H = DOMAIN F /\ \A e \in DOMAIN F : e # c => H[e] = F[e]
        /\ IsFiniteSet(F[c]) /\ IsFiniteSet(H[c])
        /\ Cardinality(F[c]) = holds[c][b] /\ Cardinality(H[c]) = holds'[c][b]
    BY <1>1, <1>5
  <2>2. /\ IsFiniteSet(Columns(H)) /\ Number(F) \in Nat /\ Number(H) \in Nat
        /\ Number(H) = Number(F) - Cardinality(F[c]) + Cardinality(H[c])
    BY ONLY <1>4, <2>1, ColumnChanges
  <2>. QED
    BY <2>1, <2>2
<1>7. /\ IsFiniteSet(Columns(G)) /\ Number(G) \in Nat
      /\ Number(G) = Number(H) - holds[d][b] + holds'[d][b]
  <2>1. /\ d \in DOMAIN H /\ DOMAIN G = DOMAIN H /\ \A e \in DOMAIN H : e # d => G[e] = H[e]
        /\ IsFiniteSet(H[d]) /\ IsFiniteSet(G[d])
        /\ Cardinality(H[d]) = holds[d][b] /\ Cardinality(G[d]) = holds'[d][b]
    BY <1>1, <1>5
  <2>2. /\ IsFiniteSet(Columns(G)) /\ Number(G) \in Nat
        /\ Number(G) = Number(H) - Cardinality(H[d]) + Cardinality(G[d])
    BY ONLY <1>6, <2>1, ColumnChanges
  <2>. QED
    BY <2>1, <2>2
<1>8. /\ holds[c][b] \in Nat /\ holds'[c][b] \in Nat /\ holds[d][b] \in Nat /\ holds'[d][b] \in Nat
      /\ holds'[c][b] + holds'[d][b] = holds[c][b] + holds[d][b]
  OBVIOUS
<1>9. Number(G) = Number(F)
  BY ONLY <1>6, <1>7, <1>8
<1>. QED
  BY <1>2, <1>6, <1>7, <1>9 DEF F

LEMMA SlotsMove ==
  ASSUME kids \in [Block -> Seq(Block)], kids' \in [Block -> Seq(Block)],
         NEW b \in Block, NEW x \in Block, IsFiniteSet(Columns(Slots(b))),
         \A y \in Block : y # x => kids'[y] = kids[y]
  PROVE  /\ IsFiniteSet(Columns(Slots(b)))'
         /\ Number(Slots(b)) \in Nat /\ Number(Slots(b))' \in Nat
         /\ Occurs(kids[x], b) \in Nat /\ Occurs(kids'[x], b) \in Nat
         /\ Occurs(kids[x], b) <= Number(Slots(b))
         /\ Number(Slots(b))' = Number(Slots(b)) - Occurs(kids[x], b) + Occurs(kids'[x], b)
<1>. DEFINE F == Slots(b)  G == [y \in Block |-> Places(kids'[y], b)]
<1>1. /\ DOMAIN F = Block /\ DOMAIN G = Block
      /\ \A y \in Block : F[y] = Places(kids[y], b) /\ G[y] = Places(kids'[y], b)
  BY DEF Slots
<1>2. Columns(Slots(b))' = Columns(G) /\ Number(Slots(b))' = Number(G)
  BY DEF Slots, Number, Columns, Places
<1>. HIDE DEF F, G
<1>0. x \in DOMAIN F /\ DOMAIN G = DOMAIN F
  BY <1>1
<1>3. /\ IsFiniteSet(F[x]) /\ IsFiniteSet(G[x])
      /\ Cardinality(F[x]) = Occurs(kids[x], b) /\ Cardinality(G[x]) = Occurs(kids'[x], b)
      /\ Occurs(kids[x], b) \in Nat /\ Occurs(kids'[x], b) \in Nat
  BY <1>1, PlacesFinite DEF Occurs
<1>4. IsFiniteSet(Columns(F))
  BY DEF F
<1>5. \A y \in DOMAIN F : y # x => G[y] = F[y]
  BY <1>1
<1>6. /\ IsFiniteSet(Columns(G)) /\ Number(F) \in Nat /\ Number(G) \in Nat
      /\ Cardinality(F[x]) <= Number(F)
      /\ Number(G) = Number(F) - Cardinality(F[x]) + Cardinality(G[x])
  BY ONLY <1>0, <1>3, <1>4, <1>5, ColumnChanges
<1>. QED
  BY <1>2, <1>3, <1>6 DEF F

Entry == [do : {"drop", "reclaim"}, b : Block]

LEMMA EntriesMove ==
  ASSUME todo \in [Ctx -> Seq(Entry)], todo' \in [Ctx -> Seq(Entry)],
         NEW CONSTANT e \in Entry, NEW c \in Ctx, IsFiniteSet(Columns(Entries(e))),
         \A d \in Ctx : d # c => todo'[d] = todo[d]
  PROVE  /\ IsFiniteSet(Columns(Entries(e)))'
         /\ Number(Entries(e)) \in Nat /\ Number(Entries(e))' \in Nat
         /\ Occurs(todo[c], e) \in Nat /\ Occurs(todo'[c], e) \in Nat
         /\ Occurs(todo[c], e) <= Number(Entries(e))
         /\ Number(Entries(e))' = Number(Entries(e)) - Occurs(todo[c], e) + Occurs(todo'[c], e)
<1>. DEFINE F == Entries(e)  G == [d \in Ctx |-> Places(todo'[d], e)]
<1>1. /\ DOMAIN F = Ctx /\ DOMAIN G = Ctx
      /\ \A d \in Ctx : F[d] = Places(todo[d], e) /\ G[d] = Places(todo'[d], e)
  BY DEF Entries
<1>2. Columns(Entries(e))' = Columns(G) /\ Number(Entries(e))' = Number(G)
  BY DEF Entries, Number, Columns, Places
<1>. HIDE DEF F, G
<1>0. c \in DOMAIN F /\ DOMAIN G = DOMAIN F
  BY <1>1
<1>3. /\ IsFiniteSet(F[c]) /\ IsFiniteSet(G[c])
      /\ Cardinality(F[c]) = Occurs(todo[c], e) /\ Cardinality(G[c]) = Occurs(todo'[c], e)
      /\ Occurs(todo[c], e) \in Nat /\ Occurs(todo'[c], e) \in Nat
  BY <1>1, PlacesFinite DEF Occurs
<1>4. IsFiniteSet(Columns(F))
  BY DEF F
<1>5. \A d \in DOMAIN F : d # c => G[d] = F[d]
  BY <1>1
<1>6. /\ IsFiniteSet(Columns(G)) /\ Number(F) \in Nat /\ Number(G) \in Nat
      /\ Cardinality(F[c]) <= Number(F)
      /\ Number(G) = Number(F) - Cardinality(F[c]) + Cardinality(G[c])
  BY ONLY <1>0, <1>3, <1>4, <1>5, ColumnChanges
<1>. QED
  BY <1>2, <1>3, <1>6 DEF F

LEMMA RefsByColumns ==
  ASSUME NEW b
  PROVE  /\ Refs(b) = Number(Stack(b)) + Number(Slots(b)) + Number(Entries(Drop(b)))
<1>1. OnStacks(b) = Columns(Stack(b))
  BY DEF OnStacks, Columns, Stack
<1>2. InObjects(b) = Columns(Slots(b))
  BY DEF InObjects, Columns, Slots, Places
<1>3. InDrops(b) = Columns(Entries(Drop(b)))
  BY DEF InDrops, Columns, Entries, Places
<1>. QED
  BY <1>1, <1>2, <1>3 DEF Refs, Number

Typed ==
  /\ holds \in [Ctx -> [Block -> Nat]] /\ kids \in [Block -> Seq(Block)]
  /\ todo \in [Ctx -> Seq(Entry)] /\ lost \in [Block -> Nat]

LEMMA Entered ==
  ASSUME NEW k \in Block, NEW j \in Block
  PROVE  /\ Drop(k) \in Entry /\ Reclaim(k) \in Entry
         /\ Drop(k).b = k /\ Reclaim(k).b = k /\ Drop(k).do = "drop" /\ Reclaim(k).do = "reclaim"
         /\ Drop(k) = Drop(j) <=> k = j
         /\ Reclaim(k) = Reclaim(j) <=> k = j
         /\ Drop(k) # Reclaim(j)
  BY DEF Drop, Reclaim, Entry

\* An entry of drop_value is one of the two.
LEMMA EntryIs ==
  ASSUME NEW e \in Entry
  PROVE  /\ e.b \in Block
         /\ e.do = "drop" => e = Drop(e.b)
         /\ e.do = "reclaim" => e = Reclaim(e.b)
  BY DEF Drop, Reclaim, Entry

LEMMA OccursSome ==
  ASSUME NEW D, NEW s \in Seq(D), NEW i \in DOMAIN s
  PROVE  Occurs(s, s[i]) >= 1
<1>1. i \in Places(s, s[i])
  BY DEF Places
<1>2. IsFiniteSet(Places(s, s[i])) /\ Occurs(s, s[i]) \in Nat
  BY PlacesFinite
<1>3. Occurs(s, s[i]) # 0
  BY <1>1, <1>2, FS_EmptySet DEF Occurs
<1>. QED
  BY <1>2, <1>3

\* What a step that concerns one context and one object does to the counts of k.
Moved(c, x, k) ==
  /\ Countable(k)'
  /\ Total(k) \in Nat /\ Total(k)' \in Nat /\ Claims(k) \in Nat /\ Claims(k)' \in Nat
  /\ holds[c][k] \in Nat /\ holds'[c][k] \in Nat /\ lost[k] \in Nat /\ lost'[k] \in Nat
  /\ Occurs(kids[x], k) \in Nat /\ Occurs(kids'[x], k) \in Nat
  /\ Occurs(todo[c], Drop(k)) \in Nat /\ Occurs(todo'[c], Drop(k)) \in Nat
  /\ Occurs(todo[c], Reclaim(k)) \in Nat /\ Occurs(todo'[c], Reclaim(k)) \in Nat
  /\ holds[c][k] <= Total(k) /\ lost[k] <= Total(k)
  /\ Occurs(kids[x], k) <= Total(k) /\ Occurs(todo[c], Drop(k)) <= Total(k)
  /\ Occurs(todo[c], Reclaim(k)) <= Claims(k)
  /\ Total(k)' = Total(k) + (holds'[c][k] - holds[c][k])
                   + (Occurs(kids'[x], k) - Occurs(kids[x], k))
                   + (Occurs(todo'[c], Drop(k)) - Occurs(todo[c], Drop(k)))
                   + (lost'[k] - lost[k])
  /\ Claims(k)' = Claims(k) + (Occurs(todo'[c], Reclaim(k)) - Occurs(todo[c], Reclaim(k)))

LEMMA Moves ==
  ASSUME Typed, Typed', NEW c \in Ctx, NEW x \in Block, NEW k \in Block, Countable(k),
         \A d \in Ctx : d # c => holds'[d] = holds[d] /\ todo'[d] = todo[d],
         \A y \in Block : y # x => kids'[y] = kids[y]
  PROVE  Moved(c, x, k)
<1>1. /\ IsFiniteSet(Columns(Stack(k)))'
      /\ Number(Stack(k)) \in Nat /\ Number(Stack(k))' \in Nat
      /\ holds[c][k] <= Number(Stack(k))
      /\ Number(Stack(k))' = Number(Stack(k)) - holds[c][k] + holds'[c][k]
  BY StackMoves DEF Typed, Countable
<1>2. /\ IsFiniteSet(Columns(Slots(k)))'
      /\ Number(Slots(k)) \in Nat /\ Number(Slots(k))' \in Nat
      /\ Occurs(kids[x], k) \in Nat /\ Occurs(kids'[x], k) \in Nat
      /\ Occurs(kids[x], k) <= Number(Slots(k))
      /\ Number(Slots(k))' = Number(Slots(k)) - Occurs(kids[x], k) + Occurs(kids'[x], k)
  BY SlotsMove DEF Typed, Countable
<1>3. ASSUME NEW CONSTANT e \in Entry, IsFiniteSet(Columns(Entries(e)))
      PROVE  /\ IsFiniteSet(Columns(Entries(e)))'
             /\ Number(Entries(e)) \in Nat /\ Number(Entries(e))' \in Nat
             /\ Occurs(todo[c], e) \in Nat /\ Occurs(todo'[c], e) \in Nat
             /\ Occurs(todo[c], e) <= Number(Entries(e))
             /\ Number(Entries(e))' = Number(Entries(e)) - Occurs(todo[c], e) + Occurs(todo'[c], e)
  BY <1>3, EntriesMove DEF Typed
<1>4. /\ IsFiniteSet(Columns(Entries(Drop(k))))'
      /\ Number(Entries(Drop(k))) \in Nat /\ Number(Entries(Drop(k)))' \in Nat
      /\ Occurs(todo[c], Drop(k)) \in Nat /\ Occurs(todo'[c], Drop(k)) \in Nat
      /\ Occurs(todo[c], Drop(k)) <= Number(Entries(Drop(k)))
      /\ Number(Entries(Drop(k)))' = Number(Entries(Drop(k))) - Occurs(todo[c], Drop(k)) + Occurs(todo'[c], Drop(k))
  BY <1>3, Entered DEF Countable
<1>5. /\ IsFiniteSet(Columns(Entries(Reclaim(k))))'
      /\ Number(Entries(Reclaim(k))) \in Nat /\ Number(Entries(Reclaim(k)))' \in Nat
      /\ Occurs(todo[c], Reclaim(k)) \in Nat /\ Occurs(todo'[c], Reclaim(k)) \in Nat
      /\ Occurs(todo[c], Reclaim(k)) <= Number(Entries(Reclaim(k)))
      /\ Number(Entries(Reclaim(k)))' = Number(Entries(Reclaim(k))) - Occurs(todo[c], Reclaim(k)) + Occurs(todo'[c], Reclaim(k))
  BY <1>3, Entered DEF Countable
<1>6. /\ holds[c][k] \in Nat /\ holds'[c][k] \in Nat /\ lost[k] \in Nat /\ lost'[k] \in Nat
  BY DEF Typed
<1>7. Countable(k)'
  BY <1>1, <1>2, <1>4, <1>5 DEF Countable
<1>8. Total(k) = Number(Stack(k)) + Number(Slots(k)) + Number(Entries(Drop(k))) + lost[k]
  BY DEF Total
<1>9. Total(k)' = Number(Stack(k))' + Number(Slots(k))' + Number(Entries(Drop(k)))' + lost'[k]
  BY DEF Total
<1>10. /\ Total(k) \in Nat /\ Total(k)' \in Nat
       /\ holds[c][k] <= Total(k) /\ lost[k] <= Total(k)
       /\ Occurs(kids[x], k) <= Total(k) /\ Occurs(todo[c], Drop(k)) <= Total(k)
       /\ Total(k)' = Total(k) + (holds'[c][k] - holds[c][k])
                        + (Occurs(kids'[x], k) - Occurs(kids[x], k))
                        + (Occurs(todo'[c], Drop(k)) - Occurs(todo[c], Drop(k)))
                        + (lost'[k] - lost[k])
  BY ONLY <1>1, <1>2, <1>4, <1>6, <1>8, <1>9
<1>11. /\ Claims(k) \in Nat /\ Claims(k)' \in Nat
       /\ Occurs(todo[c], Reclaim(k)) <= Claims(k)
       /\ Claims(k)' = Claims(k) + (Occurs(todo'[c], Reclaim(k)) - Occurs(todo[c], Reclaim(k)))
  BY <1>5 DEF Claims
<1>. QED
  BY ONLY <1>2, <1>4, <1>5, <1>6, <1>7, <1>10, <1>11 DEF Moved

\* What has a reference is on a list, and nobody is about to reclaim it.
LEMMA Held ==
  ASSUME NEW b \in Block, Tallied(b), Total(b) \in Nat, Claims(b) \in Nat, Total(b) >= 1
  PROVE  /\ b \in Linked /\ Claims(b) = 0
         /\ IF shared[b] THEN refcount[b] = Total(b) ELSE Total(b) = 1
<1>1. b \in Linked
  BY DEF Tallied
<1>2. Claims(b) = 0
  BY DEF Tallied
<1>. QED
  BY <1>1, <1>2 DEF Tallied

\* The tally of a block that only its references change of.
LEMMA Retallied ==
  ASSUME NEW k, Tallied(k), k \in Linked' <=> k \in Linked, shared'[k] = shared[k],
         refcount'[k] = refcount[k], kids'[k] = kids[k],
         Total(k)' = Total(k), Claims(k)' = Claims(k)
  PROVE  Tallied(k)'
  BY DEF Tallied

\* What CountInv says while tasks run.
Counting ==
  /\ TypeOK /\ phase = "running" /\ shared[Chan]
  /\ \A c \in Ctx \ alive : Vacant(c)
  /\ \A b \in Block : Countable(b) /\ Tallied(b)

LEMMA CountingIs ==
  /\ CountInv /\ phase = "running" => Counting
  /\ Counting' => CountInv'
  BY DEF CountInv, Counting

LEMMA TypeParts ==
  ASSUME TypeOK
  PROVE  /\ ListsOK /\ Main \in alive /\ Typed
         /\ shared \in [Block -> BOOLEAN] /\ refcount \in [Block -> Nat]
         /\ Chan \in Block
  BY HeapAssumption DEF TypeOK, ListsOK, Typed, Entry, HeapAssumption

LEMMA ColumnBound ==
  ASSUME NEW F, NEW x \in DOMAIN F, IsFiniteSet(F[x]), IsFiniteSet(Columns(F))
  PROVE  Number(F) \in Nat /\ Cardinality(F[x]) \in Nat /\ Cardinality(F[x]) <= Number(F)
  BY ColumnChanges

\* What is in one place is at most what is in all.
LEMMA Bounds ==
  ASSUME Counting, NEW k \in Block, NEW y \in Block, NEW c \in Ctx
  PROVE  /\ Total(k) \in Nat /\ Claims(k) \in Nat
         /\ holds[c][k] <= Total(k) /\ Occurs(kids[y], k) <= Total(k)
         /\ Occurs(todo[c], Drop(k)) <= Total(k) /\ Occurs(todo[c], Reclaim(k)) <= Claims(k)
         /\ Occurs(kids[y], k) \in Nat
<1>1. Typed /\ Countable(k)
  BY TypeParts DEF Counting
<1>2. Number(Stack(k)) \in Nat /\ holds[c][k] <= Number(Stack(k)) /\ holds[c][k] \in Nat
  <2>. DEFINE F == Stack(k)
  <2>1. holds[c][k] \in Nat /\ c \in DOMAIN F /\ F[c] = 1 .. holds[c][k] /\ IsFiniteSet(Columns(F))
    BY <1>1 DEF Typed, Stack, Countable
  <2>. HIDE DEF F
  <2>2. IsFiniteSet(F[c]) /\ Cardinality(F[c]) = IF 1 > holds[c][k] THEN 0 ELSE holds[c][k] - 1 + 1
    <3>1. 1 \in Int /\ holds[c][k] \in Int
      BY <2>1
    <3>2. /\ IsFiniteSet(1 .. holds[c][k])
          /\ Cardinality(1 .. holds[c][k]) = IF 1 > holds[c][k] THEN 0 ELSE holds[c][k] - 1 + 1
      BY ONLY <3>1, FS_Interval
    <3>. QED
      BY ONLY <2>1, <3>2
  <2>3. Number(F) \in Nat /\ Cardinality(F[c]) <= Number(F)
    BY <2>1, <2>2, ColumnBound
  <2>. QED
    BY <2>1, <2>2, <2>3 DEF F
<1>3. /\ Number(Slots(k)) \in Nat /\ Occurs(kids[y], k) <= Number(Slots(k))
      /\ Occurs(kids[y], k) \in Nat
  <2>. DEFINE F == Slots(k)
  <2>1. /\ kids[y] \in Seq(Block) /\ y \in DOMAIN F /\ F[y] = Places(kids[y], k)
        /\ IsFiniteSet(Columns(F))
    BY <1>1 DEF Typed, Slots, Countable
  <2>. HIDE DEF F
  <2>2. IsFiniteSet(F[y]) /\ Cardinality(F[y]) = Occurs(kids[y], k) /\ Occurs(kids[y], k) \in Nat
    BY <2>1, PlacesFinite DEF Occurs
  <2>3. Number(F) \in Nat /\ Cardinality(F[y]) <= Number(F)
    BY <2>1, <2>2, ColumnBound
  <2>. QED
    BY <2>2, <2>3 DEF F
<1>4. ASSUME NEW e, IsFiniteSet(Columns(Entries(e)))
      PROVE  /\ Number(Entries(e)) \in Nat /\ Occurs(todo[c], e) <= Number(Entries(e))
             /\ Occurs(todo[c], e) \in Nat
  <2>. DEFINE F == Entries(e)
  <2>1. /\ todo[c] \in Seq(Entry) /\ c \in DOMAIN F /\ F[c] = Places(todo[c], e)
        /\ IsFiniteSet(Columns(F))
    BY <1>1, <1>4 DEF Typed, Entries
  <2>. HIDE DEF F
  <2>2. IsFiniteSet(F[c]) /\ Cardinality(F[c]) = Occurs(todo[c], e) /\ Occurs(todo[c], e) \in Nat
    BY <2>1, PlacesFinite DEF Occurs
  <2>3. Number(F) \in Nat /\ Cardinality(F[c]) <= Number(F)
    BY <2>1, <2>2, ColumnBound
  <2>. QED
    BY <2>2, <2>3 DEF F
<1>5. /\ Number(Entries(Drop(k))) \in Nat /\ Occurs(todo[c], Drop(k)) <= Number(Entries(Drop(k)))
      /\ Occurs(todo[c], Drop(k)) \in Nat
      /\ Number(Entries(Reclaim(k))) \in Nat /\ Occurs(todo[c], Reclaim(k)) <= Number(Entries(Reclaim(k)))
  BY <1>1, <1>4 DEF Countable
<1>6. lost[k] \in Nat
  BY <1>1 DEF Typed
<1>7. Total(k) = Number(Stack(k)) + Number(Slots(k)) + Number(Entries(Drop(k))) + lost[k]
  BY DEF Total
<1>8. Claims(k) = Number(Entries(Reclaim(k)))
  BY DEF Claims
<1>. QED
  BY ONLY <1>2, <1>3, <1>5, <1>6, <1>7, <1>8

LEMMA TypeWhole ==
  ASSUME TypeOK, Typed', ListsOK', Main \in alive', shared' \in [Block -> BOOLEAN],
         refcount' \in [Block -> Nat], phase' \in {"running", "swept", "foreign", "double"},
         made' \in Nat, reused' \in BOOLEAN
  PROVE  TypeOK'
  BY DEF TypeOK, ListsOK, Typed, Entry

\* Steps that change no list.
LEMMA Framed ==
  ASSUME TypeOK, Typed', refcount' \in [Block -> Nat],
         UNCHANGED <<alive, arenas, shared, home, phase, made, reused>>
  PROVE  TypeOK'
  BY DEF TypeOK, Typed, Entry, arenas

LEMMA HoldsChange ==
  ASSUME Typed, NEW c \in Ctx, NEW b \in Block, NEW n \in Nat,
         holds' = [holds EXCEPT ![c][b] = n]
  PROVE  /\ holds' \in [Ctx -> [Block -> Nat]]
         /\ \A d \in Ctx : d # c => holds'[d] = holds[d]
         /\ \A k \in Block : holds'[c][k] = IF k = b THEN n ELSE holds[c][k]
<1>1. holds \in [Ctx -> [Block -> Nat]]
  BY DEF Typed
<1>2. holds[c] \in [Block -> Nat] /\ [holds[c] EXCEPT ![b] = n] \in [Block -> Nat]
  BY <1>1
<1>3. holds' = [holds EXCEPT ![c] = [holds[c] EXCEPT ![b] = n]]
  OBVIOUS
<1>4. holds'[c] = [holds[c] EXCEPT ![b] = n] /\ \A d \in Ctx : d # c => holds'[d] = holds[d]
  BY <1>1, <1>3
<1>. QED
  BY <1>1, <1>2, <1>3, <1>4

LEMMA RetainCounts ==
  ASSUME Counting, NEW c \in Ctx, NEW b \in Block, Retain(c, b)
  PROVE  Counting'
<1>1. /\ holds' = [holds EXCEPT ![c][b] = @ + 1]
      /\ refcount' = [refcount EXCEPT ![b] = @ + 1]
      /\ UNCHANGED <<alive, arenas, shared, home, kids, todo, phase, made, lost, reused>>
      /\ c \in alive /\ shared[b] /\ holds[c][b] > 0
  BY DEF Retain, Interprets, Owns
<1>2. Typed /\ holds[c][b] + 1 \in Nat /\ refcount \in [Block -> Nat]
  <2>1. Typed /\ refcount \in [Block -> Nat]
    BY TypeParts DEF Counting
  <2>2. holds[c][b] \in Nat
    BY <2>1 DEF Typed
  <2>. QED
    BY <2>1, <2>2
<1>a. /\ holds' \in [Ctx -> [Block -> Nat]]
      /\ \A d \in Ctx : d # c => holds'[d] = holds[d]
      /\ \A k \in Block : holds'[c][k] = IF k = b THEN holds[c][b] + 1 ELSE holds[c][k]
  <2>1. PICK n \in Nat : n = holds[c][b] + 1
    BY <1>2
  <2>2. holds' = [holds EXCEPT ![c][b] = n]
    BY <1>1, <2>1
  <2>3. /\ holds' \in [Ctx -> [Block -> Nat]]
        /\ \A d \in Ctx : d # c => holds'[d] = holds[d]
        /\ \A k \in Block : holds'[c][k] = IF k = b THEN n ELSE holds[c][k]
    <3>1. holds \in [Ctx -> [Block -> Nat]]
      BY ONLY <1>2 DEF Typed
    <3>2. holds[c] \in [Block -> Nat]
      BY ONLY <3>1, c \in Ctx
    <3>3. holds'[c] = [holds[c] EXCEPT ![b] = n] /\ \A e \in Ctx : e # c => holds'[e] = holds[e]
      BY ONLY <3>1, <2>2, c \in Ctx
    <3>4. holds'[c] \in [Block -> Nat] /\ \A k \in Block : holds'[c][k] = IF k = b THEN n ELSE holds[c][k]
      BY ONLY <3>2, <3>3, <2>1, n \in Nat, b \in Block
    <3>5. holds' \in [Ctx -> [Block -> Nat]]
      BY ONLY <3>1, <2>2, <3>4, <3>2, n \in Nat, c \in Ctx, b \in Block
    <3>. QED
      BY ONLY <3>3, <3>4, <3>5
  <2>. QED
    BY ONLY <2>1, <2>3
<1>3. Typed /\ Typed'
  BY <1>1, <1>2, <1>a DEF Typed
<1>b. refcount' \in [Block -> Nat]
  BY <1>1, <1>2
<1>c. TypeOK'
  BY <1>1, <1>3, <1>b, Framed DEF Counting
<1>4. Linked' = Linked
  BY <1>1 DEF Linked, arenas
<1>5. ASSUME NEW k \in Block PROVE Countable(k)' /\ Tallied(k)'
  <2>1. Countable(k) /\ Tallied(k)
    BY DEF Counting
  <2>2. /\ \A d \in Ctx : d # c => holds'[d] = holds[d] /\ todo'[d] = todo[d]
        /\ \A y \in Block : kids'[y] = kids[y]
    BY <1>1, <1>3 DEF Typed
  <2>3. holds'[c][k] = holds[c][k] + (IF k = b THEN 1 ELSE 0)
    BY ONLY <1>3, <1>a, k \in Block, c \in Ctx DEF Typed
  <2>4. /\ Countable(k)' /\ Total(k) \in Nat /\ Claims(k) \in Nat /\ holds[c][k] <= Total(k)
        /\ holds[c][k] \in Nat
        /\ Total(k)' = Total(k) + (IF k = b THEN 1 ELSE 0) /\ Claims(k)' = Claims(k)
    <3>1. Moved(c, b, k)
      BY ONLY <1>3, <2>1, <2>2, Moves, c \in Ctx, b \in Block, k \in Block
    <3>2. /\ Occurs(kids'[b], k) = Occurs(kids[b], k) /\ lost'[k] = lost[k]
          /\ todo' = todo
      BY <1>1
    <3>. QED
      BY ONLY <2>3, <3>1, <3>2 DEF Moved
  <2>5. CASE k = b
    <3>1. /\ k \in Linked /\ Claims(k) = 0 /\ refcount[k] = Total(k)
      BY <1>1, <2>1, <2>4, <2>5, Held
    <3>2. refcount'[k] = refcount[k] + 1
      BY <1>1, <2>5 DEF Counting, TypeOK
    <3>. QED
      BY <1>1, <1>4, <2>4, <2>5, <3>1, <3>2 DEF Tallied
  <2>6. CASE k # b
    <3>1. refcount'[k] = refcount[k]
      BY <1>1, <2>6 DEF Counting, TypeOK
    <3>. QED
      BY <1>1, <1>4, <2>1, <2>4, <2>6, <3>1, Retallied
  <2>. QED
    BY <2>5, <2>6
<1>6. \A d \in Ctx \ alive' : Vacant(d)'
  BY <1>1, <1>3 DEF Counting, Vacant, Typed
<1>. QED
  BY <1>1, <1>5, <1>6, <1>c DEF Counting

LEMMA SendCounts ==
  ASSUME Counting, NEW c \in Ctx, NEW b \in Block, Send(c, b)
  PROVE  Counting'
<1>1. /\ holds' = [holds EXCEPT ![c][b] = @ - 1]
      /\ kids' = [kids EXCEPT ![Chan] = Append(@, b)]
      /\ UNCHANGED <<alive, arenas, shared, refcount, home, todo, phase, made, lost, reused>>
      /\ c \in alive /\ b # Chan /\ holds[c][b] > 0 /\ holds[c][Chan] > 0
  BY DEF Send, Take, Interprets, Owns
<1>2. Typed /\ holds[c][b] - 1 \in Nat /\ refcount \in [Block -> Nat] /\ Chan \in Block
  <2>1. Typed /\ refcount \in [Block -> Nat] /\ Chan \in Block
    BY TypeParts DEF Counting
  <2>2. holds[c][b] \in Nat
    BY <2>1 DEF Typed
  <2>. QED
    BY <1>1, <2>1, <2>2
<1>a. /\ holds' \in [Ctx -> [Block -> Nat]]
      /\ \A d \in Ctx : d # c => holds'[d] = holds[d]
      /\ \A k \in Block : holds'[c][k] = IF k = b THEN holds[c][b] - 1 ELSE holds[c][k]
  <2>1. PICK n \in Nat : n = holds[c][b] - 1
    BY <1>2
  <2>2. holds' = [holds EXCEPT ![c][b] = n]
    BY <1>1, <2>1
  <2>3. /\ holds' \in [Ctx -> [Block -> Nat]]
        /\ \A d \in Ctx : d # c => holds'[d] = holds[d]
        /\ \A k \in Block : holds'[c][k] = IF k = b THEN n ELSE holds[c][k]
    <3>1. holds \in [Ctx -> [Block -> Nat]]
      BY ONLY <1>2 DEF Typed
    <3>2. holds[c] \in [Block -> Nat]
      BY ONLY <3>1, c \in Ctx
    <3>3. holds'[c] = [holds[c] EXCEPT ![b] = n] /\ \A e \in Ctx : e # c => holds'[e] = holds[e]
      BY ONLY <3>1, <2>2, c \in Ctx
    <3>4. holds'[c] \in [Block -> Nat] /\ \A k \in Block : holds'[c][k] = IF k = b THEN n ELSE holds[c][k]
      BY ONLY <3>2, <3>3, <2>1, n \in Nat, b \in Block
    <3>5. holds' \in [Ctx -> [Block -> Nat]]
      BY ONLY <3>1, <2>2, <3>4, <3>2, n \in Nat, c \in Ctx, b \in Block
    <3>. QED
      BY ONLY <3>3, <3>4, <3>5
  <2>. QED
    BY ONLY <2>1, <2>3
<1>b. kids' \in [Block -> Seq(Block)]
  BY <1>1, <1>2 DEF Typed
<1>3. Typed /\ Typed'
  BY <1>1, <1>2, <1>a, <1>b DEF Typed
<1>c. TypeOK'
  BY <1>1, <1>2, <1>3, Framed DEF Counting
<1>4. Linked' = Linked
  BY <1>1 DEF Linked, arenas
<1>5. ASSUME NEW k \in Block PROVE Countable(k)' /\ Tallied(k)'
  <2>1. Countable(k) /\ Tallied(k)
    BY DEF Counting
  <2>2. /\ \A d \in Ctx : d # c => holds'[d] = holds[d] /\ todo'[d] = todo[d]
        /\ \A y \in Block : y # Chan => kids'[y] = kids[y]
        /\ todo' = todo /\ lost' = lost
    BY <1>1, <1>3 DEF Typed
  <2>3. holds'[c][k] = holds[c][k] - (IF k = b THEN 1 ELSE 0)
    BY ONLY <1>3, <1>a, k \in Block, c \in Ctx DEF Typed
  <2>4. Occurs(kids'[Chan], k) = Occurs(kids[Chan], k) + (IF b = k THEN 1 ELSE 0)
    <3>1. kids'[Chan] = Append(kids[Chan], b) /\ kids[Chan] \in Seq(Block)
      BY <1>1, <1>2, <1>3 DEF Typed
    <3>. QED
      BY <3>1, OccursAppend
  <2>5. /\ Countable(k)' /\ Total(k) \in Nat /\ Claims(k) \in Nat /\ holds[c][k] <= Total(k)
        /\ holds[c][k] \in Nat
        /\ Total(k)' = Total(k) /\ Claims(k)' = Claims(k)
    <3>1. Moved(c, Chan, k)
      BY ONLY <1>2, <1>3, <2>1, <2>2, Moves, c \in Ctx, k \in Block
    <3>. QED
      BY ONLY <2>2, <2>3, <2>4, <3>1 DEF Moved
  <2>6. CASE k = Chan
    <3>1. k \in Linked /\ Claims(k) = 0 /\ refcount[k] = Total(k)
      BY <1>1, <2>1, <2>5, <2>6, Held DEF Counting
    <3>. QED
      BY <1>1, <1>4, <2>1, <2>5, <2>6, <3>1 DEF Tallied
  <2>7. CASE k # Chan
    BY <1>1, <1>4, <2>1, <2>2, <2>5, <2>7, Retallied
  <2>. QED
    BY <2>6, <2>7
<1>6. \A d \in Ctx \ alive' : Vacant(d)'
  BY <1>1, <1>3 DEF Counting, Vacant, Typed
<1>. QED
  BY <1>1, <1>5, <1>6, <1>c DEF Counting

LEMMA RecvCounts ==
  ASSUME Counting, NEW c \in Ctx, Recv(c)
  PROVE  Counting'
<1>. DEFINE b == Head(kids[Chan])
<1>1. /\ holds' = [holds EXCEPT ![c][b] = @ + 1]
      /\ kids' = [kids EXCEPT ![Chan] = Tail(@)]
      /\ UNCHANGED <<alive, arenas, shared, refcount, home, todo, phase, made, lost, reused>>
      /\ c \in alive /\ kids[Chan] # <<>> /\ holds[c][Chan] > 0
  BY DEF Recv, Interprets, Owns
<1>2. Chan \in Block /\ kids[Chan] \in Seq(Block) /\ b \in Block /\ Tail(kids[Chan]) \in Seq(Block)
  <2>1. Chan \in Block /\ kids[Chan] \in Seq(Block)
    BY HeapAssumption DEF Counting, TypeOK, HeapAssumption
  <2>. QED
    BY <1>1, <2>1
<1>. HIDE DEF b
<1>3. Typed /\ refcount \in [Block -> Nat] /\ b \in Block
  BY <1>2, TypeParts DEF Counting
<1>d. holds[c][b] + 1 \in Nat /\ holds' = [holds EXCEPT ![c][b] = holds[c][b] + 1]
  <2>1. holds[c][b] + 1 \in Nat
    BY ONLY <1>3, c \in Ctx DEF Typed
  <2>. QED
    BY <1>1, <2>1
<1>a. /\ holds' \in [Ctx -> [Block -> Nat]]
      /\ \A d \in Ctx : d # c => holds'[d] = holds[d]
      /\ \A k \in Block : holds'[c][k] = IF k = b THEN holds[c][b] + 1 ELSE holds[c][k]
  <2>1. PICK n \in Nat : n = holds[c][b] + 1
    BY <1>d
  <2>2. holds' = [holds EXCEPT ![c][b] = n]
    BY <1>d, <2>1
  <2>3. /\ holds' \in [Ctx -> [Block -> Nat]]
        /\ \A d \in Ctx : d # c => holds'[d] = holds[d]
        /\ \A k \in Block : holds'[c][k] = IF k = b THEN n ELSE holds[c][k]
    <3>1. holds \in [Ctx -> [Block -> Nat]]
      BY ONLY <1>3 DEF Typed
    <3>2. holds[c] \in [Block -> Nat]
      BY ONLY <3>1, c \in Ctx
    <3>3. holds'[c] = [holds[c] EXCEPT ![b] = n] /\ \A e \in Ctx : e # c => holds'[e] = holds[e]
      BY ONLY <3>1, <2>2, c \in Ctx
    <3>4. holds'[c] \in [Block -> Nat] /\ \A k \in Block : holds'[c][k] = IF k = b THEN n ELSE holds[c][k]
      BY ONLY <3>2, <3>3, <2>1, n \in Nat, <1>3
    <3>5. holds' \in [Ctx -> [Block -> Nat]]
      BY ONLY <3>1, <2>2, <3>4, <3>2, n \in Nat, c \in Ctx, <1>3
    <3>. QED
      BY ONLY <3>3, <3>4, <3>5
  <2>. QED
    BY ONLY <2>1, <2>3
<1>b. kids' \in [Block -> Seq(Block)]
  BY <1>1, <1>2, <1>3 DEF Typed
<1>4. Typed /\ Typed'
  BY <1>1, <1>3, <1>a, <1>b DEF Typed
<1>c. TypeOK'
  BY <1>1, <1>3, <1>4, Framed DEF Counting
<1>5. Linked' = Linked
  BY <1>1 DEF Linked, arenas
<1>6. ASSUME NEW k \in Block PROVE Countable(k)' /\ Tallied(k)'
  <2>1. Countable(k) /\ Tallied(k)
    BY DEF Counting
  <2>2. /\ \A d \in Ctx : d # c => holds'[d] = holds[d] /\ todo'[d] = todo[d]
        /\ \A y \in Block : y # Chan => kids'[y] = kids[y]
        /\ todo' = todo /\ lost' = lost
    BY <1>1, <1>4 DEF Typed
  <2>3. holds'[c][k] = holds[c][k] + (IF k = b THEN 1 ELSE 0)
    BY ONLY <1>3, <1>a, k \in Block, c \in Ctx DEF Typed
  <2>4. Occurs(kids[Chan], k) = Occurs(kids'[Chan], k) + (IF b = k THEN 1 ELSE 0)
    <3>1. kids'[Chan] = Tail(kids[Chan])
      BY <1>1, <1>2, <1>4 DEF Typed
    <3>. QED
      BY <1>1, <1>2, <3>1, OccursTail DEF b
  <2>5. /\ Countable(k)' /\ Total(k) \in Nat /\ Claims(k) \in Nat /\ holds[c][k] <= Total(k)
        /\ holds[c][k] \in Nat
        /\ Total(k)' = Total(k) /\ Claims(k)' = Claims(k)
    <3>1. Moved(c, Chan, k)
      BY ONLY <1>2, <1>4, <2>1, <2>2, Moves, c \in Ctx, k \in Block
    <3>. QED
      BY ONLY <2>2, <2>3, <2>4, <3>1 DEF Moved
  <2>6. CASE k = Chan
    <3>1. k \in Linked /\ Claims(k) = 0 /\ refcount[k] = Total(k)
      BY <1>1, <2>1, <2>5, <2>6, Held DEF Counting
    <3>. QED
      BY <1>1, <1>5, <2>1, <2>5, <2>6, <3>1 DEF Tallied
  <2>7. CASE k # Chan
    BY <1>1, <1>5, <2>1, <2>2, <2>5, <2>7, Retallied
  <2>. QED
    BY <2>6, <2>7
<1>7. \A d \in Ctx \ alive' : Vacant(d)'
  BY <1>1, <1>4 DEF Counting, Vacant, Typed
<1>. QED
  BY <1>1, <1>6, <1>7, <1>c DEF Counting


LEMMA OccursKids ==
  ASSUME Typed, NEW b \in Block, NEW k \in Block
  PROVE  /\ Kids(b) \in Seq(Entry)
         /\ Occurs(Kids(b), Drop(k)) = Occurs(kids[b], k)
         /\ Occurs(Kids(b), Reclaim(k)) = 0
<1>1. kids[b] \in Seq(Block)
  BY DEF Typed
<1>2. \A i \in DOMAIN kids[b] : kids[b][i] \in Block
  BY <1>1
<1>3. DOMAIN Kids(b) = DOMAIN kids[b] /\ \A i \in DOMAIN kids[b] : Kids(b)[i] = Drop(kids[b][i])
  BY DEF Kids
<1>4. Kids(b) \in Seq(Entry)
  <2>1. \A i \in DOMAIN kids[b] : Drop(kids[b][i]) \in Entry
    BY <1>2, Entered
  <2>2. DOMAIN kids[b] = 1 .. Len(kids[b]) /\ Len(kids[b]) \in Nat
    BY <1>1
  <2>. QED
    BY <2>1, <2>2 DEF Kids
<1>5. Places(Kids(b), Drop(k)) = Places(kids[b], k)
  <2>1. \A i \in DOMAIN kids[b] : Drop(kids[b][i]) = Drop(k) <=> kids[b][i] = k
    BY <1>2, Entered
  <2>. QED
    BY <1>3, <2>1 DEF Places
<1>6. Places(Kids(b), Reclaim(k)) = {}
  <2>1. \A i \in DOMAIN kids[b] : Drop(kids[b][i]) # Reclaim(k)
    BY <1>2, Entered
  <2>. QED
    BY <1>3, <2>1 DEF Places
<1>. QED
  BY <1>4, <1>5, <1>6, FS_EmptySet DEF Occurs

\* What drop_value puts in front of what is left to do.
LEMMA OccursDropped ==
  ASSUME Typed, NEW b \in Block, NEW k \in Block, NEW rest \in Seq(Entry)
  PROVE  /\ Kids(b) \o <<Reclaim(b)>> \o rest \in Seq(Entry)
         /\ Occurs(Kids(b) \o <<Reclaim(b)>> \o rest, Drop(k)) = Occurs(kids[b], k) + Occurs(rest, Drop(k))
         /\ Occurs(Kids(b) \o <<Reclaim(b)>> \o rest, Reclaim(k))
              = Occurs(rest, Reclaim(k)) + (IF k = b THEN 1 ELSE 0)
<1>. DEFINE one == <<Reclaim(b)>>
<1>1. /\ Kids(b) \in Seq(Entry)
      /\ Occurs(Kids(b), Drop(k)) = Occurs(kids[b], k) /\ Occurs(Kids(b), Reclaim(k)) = 0
      /\ kids[b] \in Seq(Block)
  BY OccursKids DEF Typed
<1>2. one \in Seq(Entry) /\ Reclaim(b) \in Entry /\ Drop(k) \in Entry /\ Reclaim(k) \in Entry
  BY Entered
<1>3. Occurs(one, Drop(k)) = 0 /\ Occurs(one, Reclaim(k)) = IF k = b THEN 1 ELSE 0
  BY <1>2, OccursOne, Entered
<1>. HIDE DEF one
<1>4. Kids(b) \o one \in Seq(Entry) /\ (Kids(b) \o one) \o rest \in Seq(Entry)
  BY <1>1, <1>2
<1>5. ASSUME NEW e
      PROVE  Occurs((Kids(b) \o one) \o rest, e) = (Occurs(Kids(b), e) + Occurs(one, e)) + Occurs(rest, e)
  <2>1. Occurs(Kids(b) \o one, e) = Occurs(Kids(b), e) + Occurs(one, e)
    BY <1>1, <1>2, OccursConcat
  <2>2. Occurs((Kids(b) \o one) \o rest, e) = Occurs(Kids(b) \o one, e) + Occurs(rest, e)
    BY <1>4, OccursConcat
  <2>. QED
    BY ONLY <2>1, <2>2
<1>6. /\ Occurs(kids[b], k) \in Nat /\ Occurs(rest, Drop(k)) \in Nat /\ Occurs(rest, Reclaim(k)) \in Nat
  BY <1>1, PlacesFinite
<1>7. Occurs((Kids(b) \o one) \o rest, Drop(k)) = Occurs(kids[b], k) + Occurs(rest, Drop(k))
  BY <1>1, <1>3, <1>5, <1>6
<1>8. Occurs((Kids(b) \o one) \o rest, Reclaim(k)) = Occurs(rest, Reclaim(k)) + (IF k = b THEN 1 ELSE 0)
  BY <1>1, <1>3, <1>5, <1>6
<1>. QED
  BY <1>4, <1>7, <1>8 DEF one

\* A reference is taken from the stack, or from what drop_value had to do.
TakenOff(c, b, rest) ==
  /\ \A d \in Ctx : d # c => holds'[d] = holds[d]
  /\ \A k \in Block :
       /\ (holds'[c][k] - holds[c][k]) + (Occurs(rest, Drop(k)) - Occurs(todo[c], Drop(k)))
            = IF k = b THEN 0 - 1 ELSE 0
       /\ Occurs(rest, Reclaim(k)) = Occurs(todo[c], Reclaim(k))

LEMMA DropCounts ==
  ASSUME Counting, NEW c \in Ctx, NEW b \in Block, NEW rest \in Seq(Entry), DropOne(c, b, rest),
         c \in alive, holds' \in [Ctx -> [Block -> Nat]], TakenOff(c, b, rest), Total(b) >= 1
  PROVE  Counting'
<1>. DEFINE next == IF Dropped(b) THEN Kids(b) \o <<Reclaim(b)>> \o rest ELSE rest
<1>. DEFINE left == IF Dropped(b) THEN <<>> ELSE kids[b]
<1>1. /\ refcount' = [refcount EXCEPT ![b] = IF shared[b] THEN refcount[b] - 1 ELSE refcount[b]]
      /\ todo' = [todo EXCEPT ![c] = next]
      /\ UNCHANGED <<alive, arenas, shared, home, phase, made, lost, reused>>
  BY DEF DropOne
<1>2. kids \in [Block -> Seq(Block)] /\ kids[b] \in Seq(Block)
  BY TypeParts DEF Counting, Typed
<1>3. kids' = [kids EXCEPT ![b] = left]
  BY <1>2 DEF DropOne
<1>4. Typed /\ refcount \in [Block -> Nat]
  BY TypeParts DEF Counting
<1>5. next \in Seq(Entry) /\ left \in Seq(Block)
  <2>1. Kids(b) \o <<Reclaim(b)>> \o rest \in Seq(Entry)
    BY <1>4, OccursDropped
  <2>2. <<>> \in Seq(Block)
    OBVIOUS
  <2>. QED
    BY <1>2, <2>1, <2>2, Zenon
<1>6. ASSUME NEW k \in Block
      PROVE  /\ Occurs(next, Drop(k)) = Occurs(rest, Drop(k)) + (IF Dropped(b) THEN Occurs(kids[b], k) ELSE 0)
             /\ Occurs(next, Reclaim(k)) = Occurs(rest, Reclaim(k)) + (IF Dropped(b) /\ k = b THEN 1 ELSE 0)
             /\ Occurs(left, k) = IF Dropped(b) THEN 0 ELSE Occurs(kids[b], k)
  <2>1. /\ Occurs(kids[b], k) \in Nat /\ Occurs(rest, Drop(k)) \in Nat /\ Occurs(rest, Reclaim(k)) \in Nat
    BY <1>2, PlacesFinite
  <2>2. CASE Dropped(b)
    BY <1>4, <2>1, <2>2, OccursDropped, OccursEmpty
  <2>3. CASE ~Dropped(b)
    BY <2>1, <2>3
  <2>. QED
    BY <2>2, <2>3
<1>. HIDE DEF next, left
<1>7. todo'[c] = next /\ kids'[b] = left
  BY <1>1, <1>2, <1>3, <1>4 DEF Typed
<1>8. Typed'
  BY <1>1, <1>3, <1>4, <1>5 DEF Typed
<1>9. ASSUME NEW k \in Block
      PROVE  /\ Countable(k)' /\ Total(k) \in Nat /\ Claims(k) \in Nat
             /\ Total(k)' = Total(k) - (IF k = b THEN 1 ELSE 0)
             /\ Claims(k)' = Claims(k) + (IF Dropped(b) /\ k = b THEN 1 ELSE 0)
  <2>1. /\ \A d \in Ctx : d # c => holds'[d] = holds[d] /\ todo'[d] = todo[d]
        /\ \A y \in Block : y # b => kids'[y] = kids[y]
        /\ Countable(k)
    BY <1>1, <1>3, <1>4 DEF Typed, TakenOff, Counting
  <2>2. Moved(c, b, k)
    BY ONLY <1>4, <1>8, <2>1, Moves, c \in Ctx, b \in Block, k \in Block
  <2>3. /\ lost'[k] = lost[k]
        /\ (holds'[c][k] - holds[c][k]) + (Occurs(rest, Drop(k)) - Occurs(todo[c], Drop(k)))
            = IF k = b THEN 0 - 1 ELSE 0
        /\ Occurs(rest, Reclaim(k)) = Occurs(todo[c], Reclaim(k))
        /\ Occurs(rest, Drop(k)) \in Nat
    BY <1>1, PlacesFinite DEF TakenOff
  <2>4. /\ Occurs(todo'[c], Drop(k)) = Occurs(rest, Drop(k)) + (IF Dropped(b) THEN Occurs(kids[b], k) ELSE 0)
        /\ Occurs(todo'[c], Reclaim(k)) = Occurs(rest, Reclaim(k)) + (IF Dropped(b) /\ k = b THEN 1 ELSE 0)
        /\ Occurs(kids'[b], k) = IF Dropped(b) THEN 0 ELSE Occurs(kids[b], k)
    BY <1>6, <1>7
  <2>5. Countable(k)' /\ Total(k) \in Nat /\ Claims(k) \in Nat
    BY ONLY <2>2 DEF Moved
  <2>. DEFINE one == IF k = b THEN 1 ELSE 0  both == IF Dropped(b) /\ k = b THEN 1 ELSE 0
              gone == IF Dropped(b) THEN Occurs(kids[b], k) ELSE 0
  <2>6. /\ one \in Nat /\ both \in Nat /\ gone \in Nat
        /\ (holds'[c][k] - holds[c][k]) + (Occurs(rest, Drop(k)) - Occurs(todo[c], Drop(k))) = 0 - one
        /\ Occurs(todo'[c], Drop(k)) = Occurs(rest, Drop(k)) + gone
        /\ Occurs(todo'[c], Reclaim(k)) = Occurs(rest, Reclaim(k)) + both
        /\ Occurs(kids'[b], k) = Occurs(kids[b], k) - gone
    <3>1. Occurs(kids[b], k) \in Nat
      BY ONLY <2>2 DEF Moved
    <3>. QED
      BY ONLY <2>3, <2>4, <3>1
  <2>. HIDE DEF one, both, gone
  <2>7. Total(k)' = Total(k) - one
    <3>1. /\ Total(k)' = Total(k) + (holds'[c][k] - holds[c][k])
                           + (Occurs(kids'[b], k) - Occurs(kids[b], k))
                           + (Occurs(todo'[c], Drop(k)) - Occurs(todo[c], Drop(k)))
                           + (lost'[k] - lost[k])
          /\ Total(k) \in Nat /\ holds[c][k] \in Nat /\ holds'[c][k] \in Nat /\ lost[k] \in Nat
          /\ Occurs(todo[c], Drop(k)) \in Nat /\ Occurs(kids[b], k) \in Nat
      BY ONLY <2>2 DEF Moved
    <3>2. Occurs(kids'[b], k) - Occurs(kids[b], k) = 0 - gone
      BY ONLY <2>6, <3>1
    <3>3. Occurs(todo'[c], Drop(k)) - Occurs(todo[c], Drop(k))
            = gone + (Occurs(rest, Drop(k)) - Occurs(todo[c], Drop(k)))
      BY ONLY <2>3, <2>6, <3>1
    <3>4. lost'[k] - lost[k] = 0
      BY ONLY <2>3, <3>1
    <3>5. (holds'[c][k] - holds[c][k]) + (Occurs(rest, Drop(k)) - Occurs(todo[c], Drop(k))) = 0 - one
      BY ONLY <2>6
    <3>6. one \in Nat /\ gone \in Nat /\ Occurs(rest, Drop(k)) \in Nat
      BY ONLY <2>3, <2>6
    <3>. DEFINE dh == holds'[c][k] - holds[c][k]  dr == Occurs(rest, Drop(k)) - Occurs(todo[c], Drop(k))
    <3>7. dh \in Int /\ dr \in Int /\ dh + dr = 0 - one
      BY ONLY <3>1, <3>5, <3>6
    <3>8. Total(k)' = Total(k) + dh + (0 - gone) + (gone + dr) + 0
      BY ONLY <3>1, <3>2, <3>3, <3>4
    <3>. HIDE DEF dh, dr
    <3>9. \A t, h, g, r, o \in Int : h + r = 0 - o => t + h + (0 - g) + (g + r) + 0 = t - o
      OBVIOUS
    <3>10. Total(k) \in Int /\ gone \in Int /\ one \in Int
      BY ONLY <3>1, <3>6
    <3>. QED
      BY ONLY <3>7, <3>8, <3>9, <3>10
  <2>8. Claims(k)' = Claims(k) + both
    <3>1. /\ Claims(k)' = Claims(k) + (Occurs(todo'[c], Reclaim(k)) - Occurs(todo[c], Reclaim(k)))
          /\ Claims(k) \in Nat /\ Occurs(todo[c], Reclaim(k)) \in Nat
      BY ONLY <2>2 DEF Moved
    <3>2. Occurs(todo'[c], Reclaim(k)) = Occurs(todo[c], Reclaim(k)) + both /\ both \in Nat
      BY ONLY <2>3, <2>6
    <3>. QED
      BY ONLY <3>1, <3>2
  <2>. QED
    BY <2>5, <2>7, <2>8 DEF one, both
<1>10. /\ b \in Linked /\ Claims(b) = 0 /\ Total(b) \in Nat
       /\ IF shared[b] THEN refcount[b] = Total(b) ELSE Total(b) = 1
  <2>1. Tallied(b)
    BY DEF Counting
  <2>. QED
    BY <1>9, <2>1, Held
<1>11. refcount' \in [Block -> Nat]
  <2>1. (IF shared[b] THEN refcount[b] - 1 ELSE refcount[b]) \in Nat
    BY <1>4, <1>10
  <2>. QED
    BY <1>1, <1>4, <2>1
<1>12. TypeOK'
  BY <1>1, <1>8, <1>11, Framed DEF Counting
<1>13. Linked' = Linked /\ shared' = shared
  BY <1>1 DEF Linked, arenas
<1>14. ASSUME NEW k \in Block PROVE Tallied(k)'
  <2>1. Tallied(k)
    BY DEF Counting
  <2>2. CASE k # b
    <3>1. refcount'[k] = refcount[k] /\ kids'[k] = kids[k]
      BY <1>1, <1>3, <1>4, <2>2 DEF Typed
    <3>2. Total(k)' = Total(k) /\ Claims(k)' = Claims(k)
      BY <1>9, <2>2
    <3>. QED
      BY <1>13, <2>1, <3>1, <3>2, Retallied
  <2>3. CASE k = b
    <3>1. /\ Total(b)' = Total(b) - 1 /\ Claims(b)' = IF Dropped(b) THEN 1 ELSE 0
          /\ kids'[b] = left
          /\ refcount'[b] = IF shared[b] THEN refcount[b] - 1 ELSE refcount[b]
      BY <1>1, <1>4, <1>7, <1>9, <1>10
    <3>2. b \in Linked' /\ shared'[b] = shared[b]
      BY <1>10, <1>13
    <3>3. IF shared'[b] THEN refcount'[b] = Total(b)' ELSE Total(b)' <= 1
      BY <1>10, <3>1, <3>2
    <3>4. ASSUME Dropped(b) PROVE Claims(b)' = 1 /\ Total(b)' = 0 /\ kids'[b] = <<>>
      BY <1>10, <3>1, <3>4 DEF Dropped, left
    <3>5. ~Dropped(b) => Claims(b)' = 0
      BY <3>1
    <3>. QED
      BY <2>3, <3>2, <3>3, <3>4, <3>5 DEF Tallied
  <2>. QED
    BY <2>2, <2>3
<1>15. \A d \in Ctx \ alive' : Vacant(d)'
  BY <1>1, <1>4 DEF Counting, Vacant, Typed, TakenOff
<1>. QED
  BY <1>1, <1>9, <1>12, <1>13, <1>14, <1>15 DEF Counting

LEMMA DropValueCounts ==
  ASSUME Counting, NEW c \in Ctx, NEW b \in Block, DropValue(c, b)
  PROVE  Counting'
<1>1. /\ holds' = [holds EXCEPT ![c][b] = holds[c][b] - 1] /\ holds[c][b] > 0
      /\ c \in alive /\ todo[c] = <<>> /\ DropOne(c, b, <<>>)
  BY DEF DropValue, Interprets, Owns, Take
<1>2. Typed /\ holds[c][b] - 1 \in Nat /\ \A k \in Block : holds[c][k] \in Nat
  <2>1. Typed
    BY TypeParts DEF Counting
  <2>2. \A k \in Block : holds[c][k] \in Nat
    BY <2>1 DEF Typed
  <2>. QED
    BY <1>1, <2>1, <2>2
<1>3. /\ holds' \in [Ctx -> [Block -> Nat]]
      /\ \A d \in Ctx : d # c => holds'[d] = holds[d]
      /\ \A k \in Block : holds'[c][k] = IF k = b THEN holds[c][b] - 1 ELSE holds[c][k]
  BY <1>1, <1>2, HoldsChange
<1>4. TakenOff(c, b, <<>>)
  <2>1. \A k \in Block : Occurs(<<>>, Drop(k)) = 0 /\ Occurs(<<>>, Reclaim(k)) = 0
    BY OccursEmpty
  <2>. QED
    BY <1>1, <1>2, <1>3, <2>1 DEF TakenOff
<1>5. Total(b) >= 1
  <2>1. Total(b) \in Nat /\ holds[c][b] <= Total(b)
    BY Bounds
  <2>. QED
    BY <1>1, <1>2, <2>1
<1>. QED
  <2>1. <<>> \in Seq(Entry)
    OBVIOUS
  <2>. QED
    BY <1>1, <1>3, <1>4, <1>5, <2>1, DropCounts

LEMMA DropChildCounts ==
  ASSUME Counting, NEW c \in Ctx, DropChild(c)
  PROVE  Counting'
<1>. DEFINE b == Head(todo[c]).b  rest == Tail(todo[c])
<1>1. /\ c \in alive /\ todo[c] # <<>> /\ Head(todo[c]).do = "drop"
      /\ DropOne(c, b, rest) /\ holds' = holds
  BY DEF DropChild, Drops
<1>2. Typed /\ todo[c] \in Seq(Entry)
  BY TypeParts DEF Counting, Typed
<1>3. /\ Head(todo[c]) \in Entry /\ rest \in Seq(Entry)
      /\ 1 \in DOMAIN todo[c] /\ todo[c][1] = Head(todo[c])
  BY <1>1, <1>2
<1>4. b \in Block /\ Head(todo[c]) = Drop(b)
  BY <1>1, <1>3, EntryIs
<1>5. ASSUME NEW k \in Block
      PROVE  /\ Occurs(todo[c], Drop(k)) = Occurs(rest, Drop(k)) + (IF k = b THEN 1 ELSE 0)
             /\ Occurs(todo[c], Reclaim(k)) = Occurs(rest, Reclaim(k))
             /\ Occurs(rest, Drop(k)) \in Nat /\ Occurs(rest, Reclaim(k)) \in Nat
  <2>1. \A e : Occurs(todo[c], e) = Occurs(rest, e) + (IF Head(todo[c]) = e THEN 1 ELSE 0)
    BY <1>1, <1>2, OccursTail
  <2>2. /\ Head(todo[c]) = Drop(k) <=> k = b
        /\ Head(todo[c]) # Reclaim(k)
    BY <1>4, Entered
  <2>3. Occurs(rest, Drop(k)) \in Nat /\ Occurs(rest, Reclaim(k)) \in Nat
    BY <1>3, PlacesFinite
  <2>. QED
    BY ONLY <2>1, <2>2, <2>3
<1>6. Total(b) >= 1
  <2>1. Occurs(todo[c], todo[c][1]) >= 1
    BY <1>2, <1>3, OccursSome
  <2>2. Occurs(todo[c], Drop(b)) >= 1
    BY <1>3, <1>4, <2>1
  <2>3. Total(b) \in Nat /\ Occurs(todo[c], Drop(b)) <= Total(b) /\ Occurs(todo[c], Drop(b)) \in Nat
    BY <1>2, <1>4, Bounds, PlacesFinite
  <2>. QED
    BY ONLY <2>2, <2>3
<1>. HIDE DEF b, rest
<1>7. TakenOff(c, b, rest)
  <2>1. \A k \in Block : holds'[c][k] = holds[c][k] /\ holds[c][k] \in Nat
    BY <1>1, <1>2 DEF Typed
  <2>. QED
    BY <1>1, <1>5, <2>1 DEF TakenOff
<1>8. holds' \in [Ctx -> [Block -> Nat]]
  BY <1>1, <1>2 DEF Typed
<1>. QED
  BY <1>1, <1>3, <1>4, <1>6, <1>7, <1>8, DropCounts DEF rest


\* The lists while tasks run.
Lists == ListsOK /\ Disjoint /\ (reused \/ AtHome)

LEMMA RetireCounts ==
  ASSUME Counting, Lists, NEW c \in Ctx, Retire(c)
  PROVE  CountInv'
<1>1. /\ c \in alive /\ todo[c] # <<>> /\ Head(todo[c]).do = "reclaim"
      /\ todo' = [todo EXCEPT ![c] = Tail(todo[c])]
      /\ UNCHANGED <<alive, graveyard, gpool, fields, holds, made, lost, reused>>
  BY DEF Retire, Drops
<1>2. Typed /\ todo[c] \in Seq(Entry)
  BY TypeParts DEF Counting, Typed
<1>3. /\ Head(todo[c]) \in Entry /\ Tail(todo[c]) \in Seq(Entry)
      /\ 1 \in DOMAIN todo[c] /\ todo[c][1] = Head(todo[c])
  BY <1>1, <1>2
<1>4. PICK b \in Block : b = Head(todo[c]).b /\ Head(todo[c]) = Reclaim(b)
  BY <1>1, <1>3, EntryIs
<1>5. /\ todo' \in [Ctx -> Seq(Entry)] /\ todo'[c] = Tail(todo[c])
      /\ \A d \in Ctx : d # c => todo'[d] = todo[d]
  BY <1>1, <1>2, <1>3 DEF Typed
<1>6. /\ kids' = kids /\ holds' = holds /\ lost' = lost /\ shared' = shared
      /\ refcount' = refcount
  BY <1>1 DEF fields
<1>7. Typed'
  BY <1>2, <1>5, <1>6 DEF Typed
<1>8. ASSUME NEW k \in Block
      PROVE  /\ Occurs(todo[c], Reclaim(k)) = Occurs(todo'[c], Reclaim(k)) + (IF k = b THEN 1 ELSE 0)
             /\ Occurs(todo[c], Drop(k)) = Occurs(todo'[c], Drop(k))
             /\ Occurs(todo'[c], Drop(k)) \in Nat /\ Occurs(todo'[c], Reclaim(k)) \in Nat
  <2>1. \A e : Occurs(todo[c], e) = Occurs(todo'[c], e) + (IF Head(todo[c]) = e THEN 1 ELSE 0)
    BY <1>1, <1>2, <1>5, OccursTail
  <2>2. /\ Head(todo[c]) = Reclaim(k) <=> k = b
        /\ Head(todo[c]) # Drop(k)
    BY <1>4, Entered
  <2>3. Occurs(todo'[c], Drop(k)) \in Nat /\ Occurs(todo'[c], Reclaim(k)) \in Nat
    BY <1>3, <1>5, PlacesFinite
  <2>. QED
    BY ONLY <2>1, <2>2, <2>3
<1>9. Claims(b) = 1 /\ Total(b) = 0 /\ kids[b] = <<>> /\ b \in Linked
  <2>1. Occurs(todo[c], todo[c][1]) >= 1
    BY <1>2, <1>3, OccursSome
  <2>2. Occurs(todo[c], Reclaim(b)) >= 1
    BY <1>3, <1>4, <2>1
  <2>3. /\ Claims(b) \in Nat /\ Occurs(todo[c], Reclaim(b)) <= Claims(b)
        /\ Occurs(todo[c], Reclaim(b)) \in Nat
    BY <1>2, <1>4, Bounds, PlacesFinite
  <2>4. Claims(b) > 0
    BY ONLY <2>2, <2>3
  <2>5. Tallied(b)
    BY <1>4 DEF Counting
  <2>. QED
    BY <2>4, <2>5 DEF Tallied
<1>10. ASSUME NEW k \in Block
       PROVE  /\ Countable(k)' /\ Total(k)' = Total(k)
              /\ Claims(k)' = Claims(k) - (IF k = b THEN 1 ELSE 0) /\ Claims(k) \in Nat
  <2>1. /\ \A d \in Ctx : d # c => holds'[d] = holds[d] /\ todo'[d] = todo[d]
        /\ \A y \in Block : kids'[y] = kids[y]
        /\ Countable(k)
    BY <1>5, <1>6 DEF Counting
  <2>2. Moved(c, k, k)
    BY ONLY <1>2, <1>7, <2>1, Moves, c \in Ctx, k \in Block
  <2>3. /\ holds'[c][k] = holds[c][k] /\ lost'[k] = lost[k]
        /\ Occurs(kids'[k], k) = Occurs(kids[k], k)
    BY <1>6
  <2>4. /\ Occurs(todo[c], Reclaim(k)) = Occurs(todo'[c], Reclaim(k)) + (IF k = b THEN 1 ELSE 0)
        /\ Occurs(todo[c], Drop(k)) = Occurs(todo'[c], Drop(k))
    BY <1>8
  <2>5. Countable(k)' /\ Total(k)' = Total(k)
    BY ONLY <2>2, <2>3, <2>4 DEF Moved
  <2>6. Claims(k)' = Claims(k) - (IF k = b THEN 1 ELSE 0) /\ Claims(k) \in Nat
    BY ONLY <2>2, <2>4 DEF Moved
  <2>. QED
    BY <2>5, <2>6
<1>11. /\ phase' \in {"running", "foreign", "double"}
       /\ phase' = "running" => ListsOK'
       /\ phase' = "double" => b \notin Linked
       /\ phase' = "running" => \A x : x \in Linked' <=> x \in Linked /\ ~(Mine(c, b) /\ x = b)
  BY <1>4, RetireStep DEF Lists
<1>12. phase' # "double"
  BY <1>9, <1>11
<1>13. TypeOK'
  <2>1. objects' \in [Ctx -> SUBSET Block] /\ pool' \in [Ctx -> SUBSET Block]
    <3>1. ListsOK
      BY DEF Lists
    <3>2. \/ /\ objects' = [objects EXCEPT ![c] = objects[c] \ {b}]
             /\ pool' = [pool EXCEPT ![c] = pool[c] \union {b}]
          \/ objects' = objects /\ pool' = pool
      BY <1>4 DEF Retire
    <3>. QED
      BY <1>4, <3>1, <3>2 DEF ListsOK
  <2>. QED
    BY <1>1, <1>7, <1>11, <2>1 DEF Counting, TypeOK, Typed, Entry, fields
<1>14. ASSUME phase' = "running" PROVE Counting'
  <2>1. ASSUME NEW k \in Block PROVE Tallied(k)'
    <3>1. Tallied(k)
      BY DEF Counting
    <3>2. CASE k # b
      <4>1. /\ k \in Linked' <=> k \in Linked
            /\ Total(k)' = Total(k) /\ Claims(k)' = Claims(k)
        BY <1>10, <1>11, <1>14, <3>2
      <4>. QED
        BY <1>6, <3>1, <4>1, Retallied
    <3>3. CASE k = b
      <4>1. Total(b)' = 0 /\ Claims(b)' = 0 /\ kids'[b] = <<>>
        BY <1>4, <1>6, <1>9, <1>10
      <4>2. IF shared'[b] THEN refcount'[b] = Total(b)' ELSE Total(b)' <= 1
        BY <1>4, <1>6, <1>9, <3>1, <3>3, <4>1 DEF Tallied
      <4>. QED
        BY <3>3, <4>1, <4>2 DEF Tallied
    <3>. QED
      BY <3>2, <3>3
  <2>2. \A d \in Ctx \ alive' : Vacant(d)'
    BY <1>1, <1>5, <1>6 DEF Counting, Vacant
  <2>. QED
    BY <1>6, <1>10, <1>13, <1>14, <2>1, <2>2 DEF Counting
<1>. QED
  BY <1>12, <1>13, <1>14, CountingIs DEF CountInv


\* The tally of a block that has just been made.
LEMMA Made ==
  ASSUME NEW b, b \in Linked', refcount'[b] = 1, Total(b)' = 1, Claims(b)' = 0
  PROVE  Tallied(b)'
  BY DEF Tallied

LEMMA NewCounts ==
  ASSUME Counting, Lists, NEW c \in Ctx, NEW b \in Block, NEW counted \in BOOLEAN,
         NEW parts \in {<<>>} \union {<<k>> : k \in Block}, New(c, b, counted, parts)
  PROVE  Counting'
<1>1. /\ Register(c, b, counted) /\ c \in alive
      /\ refcount' = [refcount EXCEPT ![b] = 1]
      /\ kids' = [kids EXCEPT ![b] = parts]
      /\ shared' = [shared EXCEPT ![b] = counted]
      /\ UNCHANGED <<alive, graveyard, gpool, todo, phase, lost, reused>>
      /\ made' = made + 1
      /\ \A i \in DOMAIN parts : holds[c][parts[i]] > 0
  BY DEF New, Register, Interprets, Owns
<1>2. Typed /\ refcount \in [Block -> Nat] /\ shared \in [Block -> BOOLEAN]
  BY TypeParts DEF Counting
<1>3. /\ ListsOK' /\ b \notin Linked /\ b # Chan
      /\ \A x : x \in Linked' <=> x \in Linked \/ x = b
  BY <1>1, RegisterStep DEF Lists
<1>4. Total(b) = 0 /\ Claims(b) = 0 /\ kids[b] = <<>>
  <2>1. Tallied(b)
    BY DEF Counting
  <2>. QED
    BY <1>3, <2>1 DEF Tallied
<1>5. holds[c][b] = 0
  <2>1. holds[c][b] \in Nat
    BY <1>2 DEF Typed
  <2>2. holds[c][b] <= Total(b)
    BY Bounds
  <2>. QED
    BY <1>4, <2>1, <2>2
<1>6. ASSUME NEW k \in Block
      PROVE  /\ Occurs(parts, k) = IF <<k>> = parts THEN 1 ELSE 0
             /\ <<k>> = parts => holds[c][k] > 0 /\ k # b
  <2>1. CASE parts = <<>>
    BY <2>1, OccursEmpty
  <2>2. ASSUME NEW j \in Block, parts = <<j>>
        PROVE  /\ Occurs(parts, k) = IF <<k>> = parts THEN 1 ELSE 0
               /\ <<k>> = parts => holds[c][k] > 0 /\ k # b
    <3>1. <<k>> = parts <=> j = k
      BY <2>2
    <3>2. Occurs(parts, k) = IF j = k THEN 1 ELSE 0
      BY <2>2, OccursOne
    <3>3. holds[c][j] > 0
      BY <1>1, <2>2
    <3>. QED
      BY <1>5, <3>1, <3>2, <3>3
  <2>. QED
    BY <2>1, <2>2
<1>7. /\ holds' \in [Ctx -> [Block -> Nat]]
      /\ \A d \in Ctx : d # c => holds'[d] = holds[d]
      /\ \A k \in Block : holds'[c][k] = holds[c][k] + (IF k = b THEN 1 ELSE 0)
                                           - (IF <<k>> = parts THEN 1 ELSE 0)
  <2>. DEFINE row == [k \in Block |-> holds[c][k] + (IF k = b THEN 1 ELSE 0)
                                       - (IF <<k>> = parts THEN 1 ELSE 0)]
  <2>1. holds' = [holds EXCEPT ![c] = row]
    BY DEF New
  <2>2. row \in [Block -> Nat]
    <3>1. ASSUME NEW k \in Block
          PROVE  holds[c][k] + (IF k = b THEN 1 ELSE 0) - (IF <<k>> = parts THEN 1 ELSE 0) \in Nat
      <4>1. holds[c][k] \in Nat
        BY <1>2 DEF Typed
      <4>2. <<k>> = parts => holds[c][k] > 0 /\ k # b
        BY <1>6
      <4>3. CASE <<k>> = parts
        BY ONLY <4>1, <4>2, <4>3
      <4>4. CASE <<k>> # parts
        BY ONLY <4>1, <4>4
      <4>. QED
        BY <4>3, <4>4
    <3>. QED
      BY <3>1
  <2>3. \A k \in Block : row[k] = holds[c][k] + (IF k = b THEN 1 ELSE 0)
                                   - (IF <<k>> = parts THEN 1 ELSE 0)
    OBVIOUS
  <2>. HIDE DEF row
  <2>. QED
    BY <1>2, <2>1, <2>2, <2>3 DEF Typed
<1>8. Typed'
  <2>1. parts \in Seq(Block)
    <3>1. <<>> \in Seq(Block) /\ \A j \in Block : <<j>> \in Seq(Block)
      OBVIOUS
    <3>. QED
      BY <3>1, Zenon
  <2>. QED
    BY <1>1, <1>2, <1>7, <2>1 DEF Typed
<1>9. TypeOK'
  <2>1. shared' \in [Block -> BOOLEAN] /\ refcount' \in [Block -> Nat]
    BY <1>1, <1>2
  <2>2. /\ Main \in alive' /\ phase' \in {"running", "swept", "foreign", "double"}
        /\ made' \in Nat /\ reused' \in BOOLEAN
    BY <1>1 DEF Counting, TypeOK
  <2>3. TypeOK
    BY DEF Counting
  <2>. QED
    BY ONLY <1>3, <1>8, <2>1, <2>2, <2>3, TypeWhole
<1>10. ASSUME NEW k \in Block
       PROVE  /\ Countable(k)' /\ Total(k)' = Total(k) + (IF k = b THEN 1 ELSE 0)
              /\ Claims(k)' = Claims(k) /\ Total(k) \in Nat
  <2>1. /\ \A d \in Ctx : d # c => holds'[d] = holds[d] /\ todo'[d] = todo[d]
        /\ \A y \in Block : y # b => kids'[y] = kids[y]
        /\ Countable(k) /\ kids'[b] = parts
    BY <1>1, <1>2, <1>7 DEF Typed, Counting
  <2>2. Moved(c, b, k)
    BY ONLY <1>2, <1>8, <2>1, Moves, c \in Ctx, b \in Block, k \in Block
  <2>3. todo' = todo /\ lost' = lost
    BY <1>1
  <2>4. /\ Occurs(kids[b], k) = 0 /\ Occurs(kids'[b], k) = IF <<k>> = parts THEN 1 ELSE 0
        /\ holds'[c][k] = holds[c][k] + (IF k = b THEN 1 ELSE 0) - (IF <<k>> = parts THEN 1 ELSE 0)
    BY <1>4, <1>6, <1>7, <2>1, OccursEmpty
  <2>5. Countable(k)' /\ Claims(k)' = Claims(k) /\ Total(k) \in Nat
    BY ONLY <2>2, <2>3 DEF Moved
  <2>6. Total(k)' = Total(k) + (IF k = b THEN 1 ELSE 0)
    <3>1. Total(k)' = Total(k) + (holds'[c][k] - holds[c][k])
                       + (Occurs(kids'[b], k) - Occurs(kids[b], k)) + 0 + 0
      BY ONLY <2>2, <2>3 DEF Moved
    <3>2. holds[c][k] \in Nat /\ Total(k) \in Nat
      BY ONLY <2>2 DEF Moved
    <3>3. CASE <<k>> = parts
      BY ONLY <2>4, <3>1, <3>2, <3>3
    <3>4. CASE <<k>> # parts
      BY ONLY <2>4, <3>1, <3>2, <3>4
    <3>. QED
      BY <3>3, <3>4
  <2>. QED
    BY <2>5, <2>6
<1>11. ASSUME NEW k \in Block PROVE Tallied(k)'
  <2>1. Tallied(k)
    BY DEF Counting
  <2>2. CASE k = b
    <3>1. /\ b \in Linked' /\ refcount'[b] = 1 /\ Total(b)' = 1 /\ Claims(b)' = 0
      BY <1>1, <1>2, <1>3, <1>4, <1>10
    <3>. QED
      BY <2>2, <3>1, Made
  <2>3. CASE k # b
    <3>1. /\ k \in Linked' <=> k \in Linked
          /\ shared'[k] = shared[k] /\ refcount'[k] = refcount[k] /\ kids'[k] = kids[k]
      BY <1>1, <1>2, <1>3, <2>3 DEF Typed
    <3>2. Total(k)' = Total(k) /\ Claims(k)' = Claims(k)
      BY <1>10, <2>3
    <3>. QED
      BY <2>1, <3>1, <3>2, Retallied
  <2>. QED
    BY <2>2, <2>3
<1>12. \A d \in Ctx \ alive' : Vacant(d)'
  BY <1>1, <1>7 DEF Counting, Vacant
<1>13. shared'[Chan] /\ phase' = "running"
  BY <1>1, <1>2, <1>3 DEF Counting
<1>. QED
  BY <1>9, <1>10, <1>11, <1>12, <1>13 DEF Counting

LEMMA CloneCounts ==
  ASSUME Counting, Lists, NEW c \in Ctx, NEW b \in Block, NEW d \in Block, Clone(c, b, d)
  PROVE  Counting'
<1>1. /\ Register(c, d, FALSE) /\ c \in alive /\ holds[c][b] > 0
      /\ \A i \in DOMAIN kids[b] : shared[kids[b][i]]
      /\ refcount' = [LeavesOwned(b) EXCEPT ![d] = 1]
      /\ kids' = [kids EXCEPT ![d] = kids[b]]
      /\ holds' = [holds EXCEPT ![c][d] = holds[c][d] + 1]
      /\ shared' = [shared EXCEPT ![d] = FALSE]
      /\ UNCHANGED <<alive, graveyard, gpool, todo, phase, lost, reused>>
      /\ made' = made + 1
  BY DEF Clone, Register, Interprets, Owns
<1>2. Typed /\ refcount \in [Block -> Nat] /\ shared \in [Block -> BOOLEAN]
  BY TypeParts DEF Counting
<1>3. /\ ListsOK' /\ d \notin Linked /\ d # Chan
      /\ \A x : x \in Linked' <=> x \in Linked \/ x = d
  BY <1>1, RegisterStep DEF Lists
<1>4. Total(d) = 0 /\ Claims(d) = 0 /\ kids[d] = <<>>
  <2>1. Tallied(d)
    BY DEF Counting
  <2>. QED
    BY <1>3, <2>1 DEF Tallied
<1>5. ASSUME NEW k \in Block
      PROVE  /\ Occurs(kids[b], k) \in Nat /\ Total(k) \in Nat /\ Occurs(kids[b], k) <= Total(k)
             /\ ~shared[k] => Occurs(kids[b], k) = 0
  <2>1. Occurs(kids[b], k) \in Nat /\ Total(k) \in Nat /\ Occurs(kids[b], k) <= Total(k)
    BY Bounds
  <2>2. ASSUME ~shared[k] PROVE Occurs(kids[b], k) = 0
    <3>1. Places(kids[b], k) = {}
      BY <1>1, <2>2 DEF Places
    <3>. QED
      BY <3>1, FS_EmptySet DEF Occurs
  <2>. QED
    BY <2>1, <2>2
<1>6. holds[c][d] + 1 \in Nat
  BY <1>2 DEF Typed
<1>7. /\ holds' \in [Ctx -> [Block -> Nat]]
      /\ \A e \in Ctx : e # c => holds'[e] = holds[e]
      /\ \A k \in Block : holds'[c][k] = IF k = d THEN holds[c][d] + 1 ELSE holds[c][k]
  <2>1. holds' = [holds EXCEPT ![c][d] = holds[c][d] + 1]
    BY <1>1
  <2>. QED
    <3>1. PICK n \in Nat : n = holds[c][d] + 1
      BY <1>6
    <3>2. holds' = [holds EXCEPT ![c][d] = n]
      BY ONLY <2>1, <3>1
    <3>3. /\ holds' \in [Ctx -> [Block -> Nat]]
          /\ \A e \in Ctx : e # c => holds'[e] = holds[e]
          /\ \A k \in Block : holds'[c][k] = IF k = d THEN n ELSE holds[c][k]
      <4>1. holds \in [Ctx -> [Block -> Nat]]
        BY ONLY <1>2 DEF Typed
      <4>2. holds[c] \in [Block -> Nat]
        BY ONLY <4>1, c \in Ctx
      <4>3. holds'[c] = [holds[c] EXCEPT ![d] = n] /\ \A e \in Ctx : e # c => holds'[e] = holds[e]
        BY ONLY <4>1, <3>2, c \in Ctx
      <4>4. holds'[c] \in [Block -> Nat] /\ \A k \in Block : holds'[c][k] = IF k = d THEN n ELSE holds[c][k]
        BY ONLY <4>2, <4>3, <3>1, n \in Nat, d \in Block
      <4>5. holds' \in [Ctx -> [Block -> Nat]]
        BY ONLY <4>1, <3>2, <4>4, <4>2, n \in Nat, c \in Ctx, d \in Block
      <4>. QED
        BY ONLY <4>3, <4>4, <4>5
    <3>. QED
      BY ONLY <3>1, <3>3
<1>8. Typed'
  <2>1. kids[b] \in Seq(Block)
    BY <1>2 DEF Typed
  <2>. QED
    BY <1>1, <1>2, <1>7, <2>1 DEF Typed
<1>9. refcount' \in [Block -> Nat] /\ refcount'[d] = 1
      /\ \A k \in Block : k # d => refcount'[k] = refcount[k] + Occurs(kids[b], k)
  <2>1. LeavesOwned(b) = [k \in Block |-> refcount[k] + Occurs(kids[b], k)]
    BY DEF LeavesOwned, Occurs, Places
  <2>2. ASSUME NEW k \in Block PROVE refcount[k] + Occurs(kids[b], k) \in Nat
    BY <1>2, <1>5
  <2>3. LeavesOwned(b) \in [Block -> Nat]
    BY <2>1, <2>2
  <2>. QED
    BY <1>1, <2>1, <2>3
<1>10. TypeOK'
  <2>1. shared' \in [Block -> BOOLEAN] /\ refcount' \in [Block -> Nat]
    BY <1>1, <1>2, <1>9
  <2>2. /\ Main \in alive' /\ phase' \in {"running", "swept", "foreign", "double"}
        /\ made' \in Nat /\ reused' \in BOOLEAN
    BY <1>1 DEF Counting, TypeOK
  <2>3. TypeOK
    BY DEF Counting
  <2>. QED
    BY ONLY <1>3, <1>8, <2>1, <2>2, <2>3, TypeWhole
<1>11. ASSUME NEW k \in Block
       PROVE  /\ Countable(k)' /\ Claims(k)' = Claims(k)
              /\ Total(k)' = Total(k) + (IF k = d THEN 1 ELSE 0) + Occurs(kids[b], k)
  <2>1. /\ \A e \in Ctx : e # c => holds'[e] = holds[e] /\ todo'[e] = todo[e]
        /\ \A y \in Block : y # d => kids'[y] = kids[y]
        /\ Countable(k) /\ kids'[d] = kids[b]
    BY <1>1, <1>2, <1>7 DEF Typed, Counting
  <2>2. Moved(c, d, k)
    BY ONLY <1>2, <1>8, <2>1, Moves, c \in Ctx, d \in Block, k \in Block
  <2>3. todo' = todo /\ lost' = lost
    BY <1>1
  <2>4. /\ Occurs(kids[d], k) = 0 /\ Occurs(kids'[d], k) = Occurs(kids[b], k)
        /\ holds'[c][k] = holds[c][k] + (IF k = d THEN 1 ELSE 0)
    <3>1. Occurs(kids[d], k) = 0 /\ Occurs(kids'[d], k) = Occurs(kids[b], k)
      BY <1>4, <2>1, OccursEmpty
    <3>2. holds[c][k] \in Nat
      BY ONLY <2>2 DEF Moved
    <3>3. holds'[c][k] = IF k = d THEN holds[c][d] + 1 ELSE holds[c][k]
      BY <1>7
    <3>. QED
      BY ONLY <3>1, <3>2, <3>3
  <2>5. Countable(k)' /\ Claims(k)' = Claims(k)
    BY ONLY <2>2, <2>3 DEF Moved
  <2>6. Total(k)' = Total(k) + (IF k = d THEN 1 ELSE 0) + Occurs(kids[b], k)
    <3>1. Total(k)' = Total(k) + (holds'[c][k] - holds[c][k])
                       + (Occurs(kids'[d], k) - Occurs(kids[d], k)) + 0 + 0
      BY ONLY <2>2, <2>3 DEF Moved
    <3>2. holds[c][k] \in Nat /\ Total(k) \in Nat /\ Occurs(kids'[d], k) \in Nat
      BY ONLY <2>2 DEF Moved
    <3>. QED
      BY ONLY <2>4, <3>1, <3>2
  <2>. QED
    BY <2>5, <2>6
<1>12. ASSUME NEW k \in Block PROVE Tallied(k)'
  <2>1. Tallied(k)
    BY DEF Counting
  <2>2. CASE k = d
    <3>1. /\ d \in Linked' /\ refcount'[d] = 1 /\ Claims(d)' = 0
      BY <1>3, <1>4, <1>9, <1>11
    <3>2. Occurs(kids[b], d) = 0
      BY <1>4, <1>5
    <3>3. Total(d)' = Total(d) + (IF d = d THEN 1 ELSE 0) + Occurs(kids[b], d)
      BY <1>11
    <3>4. Total(d)' = 1
      BY ONLY <1>4, <3>2, <3>3
    <3>. QED
      BY <2>2, <3>1, <3>4, Made
  <2>3. CASE k # d
    <3>1. /\ k \in Linked' <=> k \in Linked
          /\ shared'[k] = shared[k] /\ kids'[k] = kids[k]
      BY <1>1, <1>2, <1>3, <2>3 DEF Typed
    <3>2. /\ Total(k)' = Total(k) + Occurs(kids[b], k) /\ Claims(k)' = Claims(k)
          /\ refcount'[k] = refcount[k] + Occurs(kids[b], k)
          /\ Occurs(kids[b], k) \in Nat /\ Total(k) \in Nat /\ Occurs(kids[b], k) <= Total(k)
          /\ ~shared[k] => Occurs(kids[b], k) = 0
      <4>1. Total(k)' = Total(k) + 0 + Occurs(kids[b], k) /\ Claims(k)' = Claims(k)
        BY <1>11, <2>3
      <4>. QED
        BY <1>5, <1>9, <2>3, <4>1
    <3>3. CASE Total(k) = 0
      <4>1. Occurs(kids[b], k) = 0
        BY <3>2, <3>3
      <4>2. Total(k)' = Total(k) /\ refcount'[k] = refcount[k]
        BY <1>2, <3>2, <4>1
      <4>. QED
        BY <2>1, <3>1, <3>2, <4>2, Retallied
    <3>4. CASE Total(k) # 0
      <4>1. k \in Linked /\ Claims(k) = 0 /\ IF shared[k] THEN refcount[k] = Total(k) ELSE Total(k) <= 1
        <5>1. Claims(k) \in Nat
          BY Bounds
        <5>. QED
          BY <2>1, <3>4, <5>1 DEF Tallied
      <4>2. IF shared'[k] THEN refcount'[k] = Total(k)' ELSE Total(k)' <= 1
        BY <3>1, <3>2, <4>1
      <4>. QED
        BY <3>1, <3>2, <4>1, <4>2 DEF Tallied
    <3>. QED
      BY <3>3, <3>4
  <2>. QED
    BY <2>2, <2>3
<1>13. \A e \in Ctx \ alive' : Vacant(e)'
  BY <1>1, <1>7 DEF Counting, Vacant
<1>14. shared'[Chan] /\ phase' = "running"
  BY <1>1, <1>2, <1>3 DEF Counting
<1>. QED
  BY <1>10, <1>11, <1>12, <1>13, <1>14 DEF Counting

\* The arguments change hands, and are as many as before.
LEMMA SpawnCounts ==
  ASSUME Counting, NEW c \in Ctx, NEW d \in Ctx,
         NEW args \in SUBSET Block, Spawn(c, d, args)
  PROVE  Counting'
<1>. DEFINE kept == [b \in Block |-> IF b \in args THEN holds[c][b] - 1 ELSE holds[c][b]]
            given == [b \in Block |-> IF b \in args THEN 1 ELSE 0]
<1>1. /\ alive' = alive \union {d} /\ d \notin alive /\ c \in alive
      /\ \A b \in args : holds[c][b] > 0
      /\ holds' = [holds EXCEPT ![c] = kept, ![d] = given]
      /\ reused' = (reused \/ \E b \in Linked : home[b] = d)
      /\ UNCHANGED <<arenas, fields, todo, phase, lost>>
      /\ made' = made + 1
  BY DEF Spawn, Owns, Interprets
<1>2. /\ Typed /\ refcount \in [Block -> Nat] /\ c # d
      /\ UNCHANGED <<objects, pool, graveyard, gpool, shared, refcount, home, kids>>
  BY <1>1, TypeParts DEF Counting, arenas, fields
<1>3. holds[d] = None
  BY <1>1 DEF Counting, Vacant
<1>4. /\ kept \in [Block -> Nat] /\ given \in [Block -> Nat]
      /\ \A k \in Block : /\ kept[k] + given[k] = holds[c][k] + holds[d][k]
                          /\ holds[c][k] \in Nat
  <2>1. \A k \in Block : holds[c][k] \in Nat /\ holds[d][k] = 0
    BY <1>2, <1>3 DEF Typed, None
  <2>2. \A k \in Block : k \in args => holds[c][k] - 1 \in Nat
    BY <1>1, <2>1
  <2>. QED
    BY <2>1, <2>2
<1>. HIDE DEF kept, given
<1>5. /\ holds' \in [Ctx -> [Block -> Nat]] /\ holds'[c] = kept /\ holds'[d] = given
      /\ \A e \in Ctx : e # c /\ e # d => holds'[e] = holds[e]
  BY <1>1, <1>2, <1>4 DEF Typed
<1>6. Typed'
  BY <1>1, <1>2, <1>5 DEF Typed
<1>7. TypeOK'
  <2>1. ListsOK' /\ refcount' \in [Block -> Nat] /\ shared' \in [Block -> BOOLEAN]
    BY <1>1, <1>2, TypeParts DEF ListsOK, Counting
  <2>2. /\ Main \in alive' /\ phase' \in {"running", "swept", "foreign", "double"}
        /\ made' \in Nat /\ reused' \in BOOLEAN
    BY <1>1 DEF Counting, TypeOK
  <2>3. TypeOK
    BY DEF Counting
  <2>. QED
    BY ONLY <1>6, <2>1, <2>2, <2>3, TypeWhole
<1>8. ASSUME NEW k \in Block
      PROVE  Countable(k)' /\ Total(k)' = Total(k) /\ Claims(k)' = Claims(k)
  <2>1. Countable(k)
    BY DEF Counting
  <2>2. /\ Slots(k)' = Slots(k) /\ \A e : Entries(e)' = Entries(e)
        /\ lost' = lost
    BY <1>1, <1>2 DEF Slots, Entries, Places
  <2>3. IsFiniteSet(Columns(Stack(k)))' /\ Number(Stack(k))' = Number(Stack(k))
    <3>1. /\ holds \in [Ctx -> [Block -> Nat]]
          /\ \A e \in Ctx : e # c /\ e # d => holds'[e][k] = holds[e][k]
          /\ holds'[c][k] + holds'[d][k] = holds[c][k] + holds[d][k]
      BY <1>2, <1>4, <1>5 DEF Typed
    <3>. QED
      BY <1>2, <1>5, <2>1, <3>1, StackPasses DEF Countable
  <2>. QED
    BY <2>1, <2>2, <2>3 DEF Countable, Total, Claims, Number, Columns
<1>9. Linked' = Linked
  BY <1>2 DEF Linked
<1>10. ASSUME NEW k \in Block PROVE Tallied(k)'
  BY <1>2, <1>8, <1>9, Retallied DEF Counting
<1>11. \A e \in Ctx \ alive' : Vacant(e)'
  BY <1>1, <1>5 DEF Counting, Vacant
<1>12. shared'[Chan] /\ phase' = "running"
  BY <1>1, <1>2 DEF Counting
<1>. QED
  BY <1>7, <1>8, <1>10, <1>11, <1>12 DEF Counting

LEMMA EndCounts ==
  ASSUME Counting, Lists, NEW c \in Ctx, End(c)
  PROVE  Counting'
<1>1. /\ alive' = alive \ {c} /\ c # Main /\ todo[c] = <<>>
      /\ lost' = [b \in Block |-> lost[b] + holds[c][b]]
      /\ holds' = [holds EXCEPT ![c] = None]
      /\ UNCHANGED <<fields, todo, phase, made, reused>>
  BY DEF End, Interprets
<1>2. Typed /\ refcount \in [Block -> Nat] /\ shared \in [Block -> BOOLEAN]
  BY TypeParts DEF Counting
<1>3. ListsOK' /\ \A x : x \in Linked' <=> x \in Linked
  BY EndStep DEF Lists
<1>4. /\ holds' \in [Ctx -> [Block -> Nat]] /\ holds'[c] = None
      /\ \A e \in Ctx : e # c => holds'[e] = holds[e]
  <2>1. None \in [Block -> Nat]
    BY DEF None
  <2>. QED
    BY <1>1, <1>2, <2>1 DEF Typed
<1>5. lost' \in [Block -> Nat]
  <2>1. ASSUME NEW b \in Block PROVE lost[b] + holds[c][b] \in Nat
    <3>1. lost[b] \in Nat /\ holds[c][b] \in Nat
      BY <1>2 DEF Typed
    <3>. QED
      BY <3>1
  <2>. QED
    BY <1>1, <2>1
<1>6. kids' = kids /\ shared' = shared /\ refcount' = refcount /\ todo' = todo
  BY <1>1 DEF fields
<1>7. Typed'
  BY <1>2, <1>4, <1>5, <1>6 DEF Typed
<1>8. TypeOK'
  <2>1. shared' \in [Block -> BOOLEAN] /\ refcount' \in [Block -> Nat]
    BY <1>2, <1>6
  <2>2. /\ Main \in alive' /\ phase' \in {"running", "swept", "foreign", "double"}
        /\ made' \in Nat /\ reused' \in BOOLEAN
    BY <1>1 DEF Counting, TypeOK
  <2>3. TypeOK
    BY DEF Counting
  <2>. QED
    BY ONLY <1>3, <1>7, <2>1, <2>2, <2>3, TypeWhole
<1>9. ASSUME NEW k \in Block
      PROVE  Countable(k)' /\ Total(k)' = Total(k) /\ Claims(k)' = Claims(k)
  <2>1. /\ \A e \in Ctx : e # c => holds'[e] = holds[e] /\ todo'[e] = todo[e]
        /\ \A y \in Block : kids'[y] = kids[y]
        /\ Countable(k)
    BY <1>4, <1>6 DEF Counting
  <2>2. Moved(c, k, k)
    BY ONLY <1>2, <1>7, <2>1, Moves, c \in Ctx, k \in Block
  <2>3. /\ todo' = todo /\ kids' = kids
        /\ holds'[c][k] = 0 /\ lost'[k] = lost[k] + holds[c][k]
    BY <1>1, <1>4, <1>6 DEF None
  <2>. QED
    BY ONLY <2>2, <2>3 DEF Moved
<1>10. ASSUME NEW k \in Block PROVE Tallied(k)'
  <2>1. Tallied(k)
    BY DEF Counting
  <2>. QED
    BY <1>3, <1>6, <1>9, <2>1, Retallied
<1>11. \A e \in Ctx \ alive' : Vacant(e)'
  BY <1>1, <1>4, <1>6 DEF Counting, Vacant
<1>12. shared'[Chan] /\ phase' = "running"
  BY <1>1, <1>6 DEF Counting
<1>. QED
  BY <1>8, <1>9, <1>10, <1>11, <1>12 DEF Counting


LEMMA InitCounts == Init => CountInv
<1>. SUFFICES ASSUME Init PROVE CountInv
  OBVIOUS
<1>1. Main \in Ctx /\ Chan \in Block
  BY HeapAssumption DEF HeapAssumption
<1>2. TypeOK
  <2>1. None \in [Block -> Nat] /\ [None EXCEPT ![Chan] = 1] \in [Block -> Nat]
    BY <1>1 DEF None
  <2>2. holds \in [Ctx -> [Block -> Nat]]
    BY <2>1 DEF Init
  <2>3. kids \in [Block -> Seq(Block)] /\ todo \in [Ctx -> Seq(Entry)]
    BY DEF Init
  <2>4. /\ objects \in [Ctx -> SUBSET Block] /\ pool \in [Ctx -> SUBSET Block]
        /\ shared \in [Block -> BOOLEAN] /\ refcount \in [Block -> Nat] /\ home \in [Block -> Ctx]
        /\ Main \in alive /\ alive \subseteq Ctx /\ lost \in [Block -> Nat]
    BY <1>1, <2>1 DEF Init
  <2>. QED
    BY <2>2, <2>3, <2>4 DEF Init, TypeOK, Entry
<1>3. /\ \A c \in Ctx, b \in Block : holds[c][b] = IF c = Main /\ b = Chan THEN 1 ELSE 0
      /\ \A b \in Block : kids[b] = <<>> /\ lost[b] = 0
      /\ \A c \in Ctx : todo[c] = <<>>
  BY <1>1 DEF Init, None
<1>4. \A b \in Block : b \in Linked <=> b = Chan
  <2>1. \A b : b \in Linked <=> b \in graveyard \/ \E c \in Ctx : b \in objects[c]
    BY Members
  <2>. QED
    BY <1>1, <2>1 DEF Init
<1>5. ASSUME NEW b \in Block PROVE Countable(b) /\ Tallied(b)
  <2>1. Columns(Stack(b)) = IF b = Chan THEN {<<Main, 1>>} ELSE {}
    <3>1. \A c \in Ctx : {c} \X (1 .. holds[c][b]) = IF c = Main /\ b = Chan THEN {<<Main, 1>>} ELSE {}
      BY <1>3
    <3>2. Columns(Stack(b)) = UNION {{c} \X (1 .. holds[c][b]) : c \in Ctx}
      BY DEF Columns, Stack
    <3>. QED
      BY <1>1, <3>1, <3>2
  <2>2. Columns(Slots(b)) = {}
    BY <1>3 DEF Columns, Slots, Places
  <2>3. \A e : Columns(Entries(e)) = {}
    BY <1>3 DEF Columns, Entries, Places
  <2>4. /\ IsFiniteSet({}) /\ Cardinality({}) = 0
        /\ IsFiniteSet({<<Main, 1>>}) /\ Cardinality({<<Main, 1>>}) = 1
    BY FS_EmptySet, FS_Singleton
  <2>5. Countable(b)
    BY <2>1, <2>2, <2>3, <2>4 DEF Countable
  <2>6. Total(b) = (IF b = Chan THEN 1 ELSE 0) /\ Claims(b) = 0
    <3>1. /\ Number(Stack(b)) = (IF b = Chan THEN 1 ELSE 0) /\ Number(Slots(b)) = 0
          /\ Number(Entries(Drop(b))) = 0 /\ Number(Entries(Reclaim(b))) = 0
      BY <2>1, <2>2, <2>3, <2>4 DEF Number
    <3>2. lost[b] = 0
      BY <1>3
    <3>. QED
      BY ONLY <3>1, <3>2 DEF Total, Claims
  <2>7. shared[b] = (b = Chan) /\ refcount[b] = IF b = Chan THEN 1 ELSE 0
    BY DEF Init
  <2>. QED
    BY <1>3, <1>4, <2>5, <2>6, <2>7 DEF Tallied
<1>6. \A c \in Ctx \ alive : Vacant(c)
  BY DEF Init, Vacant
<1>. QED
  BY <1>1, <1>2, <1>5, <1>6 DEF Init, CountInv

LEMMA SweepCounts ==
  ASSUME CountInv, Sweep
  PROVE  CountInv'
<1>1. /\ phase' = "swept" /\ kids' = [b \in Block |-> <<>>] /\ lost' = None
      /\ objects' = [objects EXCEPT ![Main] = {}] /\ pool' = [pool EXCEPT ![Main] = {}]
      /\ holds' = [holds EXCEPT ![Main] = None]
      /\ graveyard' = {} /\ gpool' = {}
      /\ UNCHANGED <<alive, shared, refcount, home, todo, made, reused>>
  BY DEF Sweep
<1>2. TypeOK /\ None \in [Block -> Nat]
  BY DEF CountInv, None
<1>3. Typed'
  <2>1. Typed
    BY <1>2, TypeParts
  <2>2. kids' \in [Block -> Seq(Block)] /\ lost' \in [Block -> Nat]
    BY <1>1, <1>2
  <2>3. holds' \in [Ctx -> [Block -> Nat]] /\ todo' \in [Ctx -> Seq(Entry)]
    BY <1>1, <1>2, <2>1 DEF Typed
  <2>. QED
    BY <2>2, <2>3 DEF Typed
<1>4. ListsOK'
  BY <1>1, <1>2, TypeParts DEF ListsOK
<1>5. TypeOK'
  BY <1>1, <1>2, <1>3, <1>4, TypeWhole DEF TypeOK
<1>. QED
  BY <1>1, <1>5 DEF CountInv

LEMMA StillCounts ==
  ASSUME CountInv, UNCHANGED vars
  PROVE  CountInv'
<1>1. UNCHANGED <<alive, objects, pool, graveyard, gpool, shared, refcount, home, kids, holds,
                  todo, phase, made, lost, reused>>
  BY DEF vars, arenas, fields
<1>2. TypeOK'
  BY <1>1 DEF CountInv, TypeOK
<1>3. ASSUME NEW b \in Block, Countable(b), Tallied(b) PROVE Countable(b)' /\ Tallied(b)'
  <2>1. /\ Columns(Stack(b))' = Columns(Stack(b)) /\ Columns(Slots(b))' = Columns(Slots(b))
        /\ Columns(Entries(Drop(b)))' = Columns(Entries(Drop(b)))
        /\ Columns(Entries(Reclaim(b)))' = Columns(Entries(Reclaim(b)))
    BY <1>1 DEF Columns, Stack, Slots, Entries, Places
  <2>2. Countable(b)'
    BY <1>3, <2>1 DEF Countable
  <2>3. Total(b)' = Total(b) /\ Claims(b)' = Claims(b)
    BY <1>1, <2>1 DEF Total, Claims, Number
  <2>4. Linked' = Linked
    BY <1>1 DEF Linked
  <2>. QED
    BY <1>1, <1>3, <2>2, <2>3, <2>4, Retallied
<1>4. \A c \in Ctx \ alive : Vacant(c) => Vacant(c)'
  BY <1>1 DEF Vacant
<1>. QED
  BY <1>1, <1>2, <1>3, <1>4 DEF CountInv

LEMMA CountStep ==
  ASSUME HeapInv, CountInv, [Next]_vars
  PROVE  CountInv'
<1>1. ASSUME phase = "running" PROVE Counting /\ Lists
  BY <1>1, CountingIs DEF HeapInv, Lists
<1>2. ASSUME NEW c \in Ctx, NEW b \in Block, NEW counted \in BOOLEAN,
             NEW parts \in {<<>>} \union {<<k>> : k \in Block}, New(c, b, counted, parts)
      PROVE  CountInv'
  <2>1. phase = "running"
    BY <1>2 DEF New, Interprets
  <2>. QED
    BY <1>1, <1>2, <2>1, NewCounts, CountingIs
<1>3. ASSUME NEW c \in Ctx, NEW b \in Block, Retain(c, b)
      PROVE  CountInv'
  <2>1. phase = "running"
    BY <1>3 DEF Retain, Interprets
  <2>. QED
    BY <1>1, <1>3, <2>1, RetainCounts, CountingIs
<1>4. ASSUME NEW c \in Ctx, NEW b \in Block, Send(c, b)
      PROVE  CountInv'
  <2>1. phase = "running"
    BY <1>4 DEF Send, Interprets
  <2>. QED
    BY <1>1, <1>4, <2>1, SendCounts, CountingIs
<1>5. ASSUME NEW c \in Ctx, NEW b \in Block, DropValue(c, b)
      PROVE  CountInv'
  <2>1. phase = "running"
    BY <1>5 DEF DropValue, Interprets
  <2>. QED
    BY <1>1, <1>5, <2>1, DropValueCounts, CountingIs
<1>6. ASSUME NEW c \in Ctx, NEW b \in Block, NEW d \in Block, Clone(c, b, d)
      PROVE  CountInv'
  <2>1. phase = "running"
    BY <1>6 DEF Clone, Interprets
  <2>. QED
    BY <1>1, <1>6, <2>1, CloneCounts, CountingIs
<1>7. ASSUME NEW c \in Ctx, Recv(c)
      PROVE  CountInv'
  <2>1. phase = "running"
    BY <1>7 DEF Recv, Interprets
  <2>. QED
    BY <1>1, <1>7, <2>1, RecvCounts, CountingIs
<1>8. ASSUME NEW c \in Ctx, DropChild(c)
      PROVE  CountInv'
  <2>1. phase = "running"
    BY <1>8 DEF DropChild, Drops
  <2>. QED
    BY <1>1, <1>8, <2>1, DropChildCounts, CountingIs
<1>9. ASSUME NEW c \in Ctx, Retire(c)
      PROVE  CountInv'
  <2>1. phase = "running"
    BY <1>9 DEF Retire, Drops
  <2>. QED
    BY <1>1, <1>9, <2>1, RetireCounts
<1>10. ASSUME NEW c \in Ctx, End(c)
       PROVE  CountInv'
  <2>1. phase = "running"
    BY <1>10 DEF End, Interprets
  <2>. QED
    BY <1>1, <1>10, <2>1, EndCounts, CountingIs
<1>11. ASSUME NEW c \in Ctx, NEW d \in Ctx, NEW args \in SUBSET Block, Spawn(c, d, args)
       PROVE  CountInv'
  <2>1. phase = "running"
    BY <1>11 DEF Spawn, Interprets
  <2>. QED
    BY <1>1, <1>11, <2>1, SpawnCounts, CountingIs
<1>12. CASE Sweep
  BY <1>12, SweepCounts
<1>13. CASE Over \/ UNCHANGED vars
  BY <1>13, StillCounts DEF Over
<1>. QED
  BY <1>2, <1>3, <1>4, <1>5, <1>6, <1>7, <1>8, <1>9, <1>10, <1>11, <1>12, <1>13 DEF Next

LEMMA CountInvariant == Spec => [](HeapInv /\ CountInv)
  BY HeapInit, HeapStep, InitCounts, CountStep, PTL DEF Spec

\* Every variable keeps its type: a reference count, in particular, never goes below zero.
THEOREM TypeCorrect == Spec => []TypeOK
<1>1. CountInv => TypeOK
  BY DEF CountInv
<1>. QED
  BY CountInvariant, <1>1, PTL

LEMMA RefsTotal ==
  ASSUME Counting, NEW b \in Block
  PROVE  Refs(b) + lost[b] = Total(b) /\ Refs(b) \in Nat /\ lost[b] \in Nat
<1>1. /\ IsFiniteSet(Columns(Stack(b))) /\ IsFiniteSet(Columns(Slots(b)))
      /\ IsFiniteSet(Columns(Entries(Drop(b))))
  BY DEF Counting, Countable
<1>2. /\ Number(Stack(b)) \in Nat /\ Number(Slots(b)) \in Nat /\ Number(Entries(Drop(b))) \in Nat
  BY <1>1, FS_CardinalityType DEF Number
<1>3. lost[b] \in Nat
  BY DEF Counting, TypeOK
<1>. QED
  BY <1>2, <1>3, RefsByColumns DEF Total

\* An object's count is the number of references to it, wherever they are: on the
\* stacks of tasks, in other objects, in the channel's buffer, in a drop_value that is under
\* way, or left behind by a task that failed.  A struct or an array has one owner at
\* most.  Addresses of contexts that are reused do not change this.
THEOREM CountsAreExact == Spec => []CountsExact
<1>1. HeapInv /\ CountInv => CountsExact
  <2>. SUFFICES ASSUME CountInv, phase = "running", NEW b \in Linked
       PROVE  IF shared[b] THEN refcount[b] = Refs(b) + lost[b] ELSE Refs(b) + lost[b] <= 1
    BY DEF CountsExact
  <2>1. Counting
    BY CountingIs
  <2>2. b \in Block
    BY <2>1, TypeParts, Members DEF Counting, ListsOK
  <2>. QED
    BY <2>1, <2>2, RefsTotal DEF Counting, Tallied
<1>. QED
  BY CountInvariant, <1>1, PTL

\* What can be reached has not been freed and is in no pool, and no object is
\* reclaimed twice, whichever task drops the last reference.
THEOREM ReachableStaysLinked == Spec => []ReachableIsLinked
<1>1. HeapInv /\ CountInv => ReachableIsLinked
  <2>. SUFFICES ASSUME CountInv, phase = "running", NEW b \in Block, Refs(b) > 0
       PROVE  b \in Linked
    BY DEF ReachableIsLinked, CountInv
  <2>1. Counting
    BY CountingIs
  <2>2. Total(b) # 0
    BY <2>1, RefsTotal
  <2>. QED
    BY <2>1, <2>2 DEF Counting, Tallied
<1>. QED
  BY CountInvariant, <1>1, PTL
=============================================================================
