----------------------------- MODULE ObjectHeap -----------------------------
(***************************************************************************)
(* The object runtime under the parallel builds (src/runtime.c, and the    *)
(* tasks of src/vm.c as far as they make and end contexts).  Every task    *)
(* has a context, EmberRt: a list of the objects it allocated and a pool   *)
(* of dead blocks, both used without a lock.  An object names the context  *)
(* that allocated it, its home, and only the home frees it; another        *)
(* context that drops the last reference leaves it linked.  When a task    *)
(* ends its list is spliced into the shared graveyard, which the exit      *)
(* sweep frees, and its context's memory goes back to malloc.              *)
(*                                                                         *)
(* Linked lists and pools are sets of blocks: what is modelled is which    *)
(* list a block is on, not its place there.                                *)
(***************************************************************************)
EXTENDS Integers, Sequences, FiniteSets

CONSTANTS Ctx,        \* the addresses a context can have
          Main,       \* the main task's
          Block,      \* the addresses an object can have
          Chan,       \* the channel the tasks share
          Capacity,   \* ... and its capacity
          Drains,     \* retire_fiber empties the pool (M:N); it is kept otherwise
          MaxMade,    \* bound of the model on the contexts and objects made,
          MaxRefs     \* ... and on the references to an object; the channel has one more

ASSUME HeapAssumption ==
  /\ Main \in Ctx /\ Chan \in Block
  /\ {Capacity, MaxMade, MaxRefs} \subseteq Nat /\ Drains \in BOOLEAN

VARIABLES
  alive,      \* the contexts that exist
  objects,    \* context -> the objects on its list
  pool,       \* context -> its dead blocks
  graveyard,  \* heap->graveyard: the lists of ended contexts
  gpool,      \* heap->gpool: their dead blocks
  shared,     \* block -> reference-counted, or owned by one reference
  refcount, home,   \* block -> the fields of the same name
  kids,       \* block -> the references it owns: fields, elements, buffered values
  holds,      \* context -> block -> the references on the task's stack
  todo,       \* context -> what drop_value has still to do, innermost first
  phase,      \* "running", "swept", or what reclaim did wrong: unlinked from a list
              \* of another context ("foreign"), or what was on none ("double")
  made,       \* how many contexts and objects have been made
  lost,       \* history: block -> references a failed task left behind
  reused      \* history: a context got the address of one whose objects live on

arenas == <<objects, pool, graveyard, gpool>>
fields == <<shared, refcount, home, kids>>
vars   == <<alive, arenas, fields, holds, todo, phase, made, lost, reused>>

None == [b \in Block |-> 0]

Init ==
  /\ alive = {Main}
  /\ objects = [c \in Ctx |-> IF c = Main THEN {Chan} ELSE {}]
  /\ pool = [c \in Ctx |-> {}]
  /\ graveyard = {} /\ gpool = {}
  /\ shared = [b \in Block |-> b = Chan]
  /\ refcount = [b \in Block |-> IF b = Chan THEN 1 ELSE 0]
  /\ home = [b \in Block |-> Main]
  /\ kids = [b \in Block |-> <<>>]
  /\ holds = [c \in Ctx |-> IF c = Main THEN [None EXCEPT ![Chan] = 1] ELSE None]
  /\ todo = [c \in Ctx |-> <<>>]
  /\ phase = "running"
  /\ made = 0
  /\ lost = None /\ reused = FALSE

-----------------------------------------------------------------------------
(* Helpers *)

Linked == graveyard \union UNION {objects[c] : c \in Ctx}
Pooled == gpool \union UNION {pool[c] : c \in Ctx}

\* The task of context c is between two instructions.
Interprets(c) == phase = "running" /\ c \in alive /\ todo[c] = <<>>

\* It is inside drop_value.
Drops(c, do) == phase = "running" /\ c \in alive /\ todo[c] # <<>> /\ Head(todo[c]).do = do

Owns(c, b) == holds[c][b] > 0

Take(c, b) == holds' = [holds EXCEPT ![c][b] = @ - 1]

\* pooled_alloc: a block of the pool if there is one, else one of malloc's.  A
\* channel is of a size class of its own, and the model makes no second one.
Allocatable(c) ==
  IF pool[c] \subseteq {Chan} THEN Block \ (Linked \union Pooled \union {Chan})
                             ELSE pool[c] \ {Chan}

PoolStill(c, b)   == pool[c]     \* mutant
PoolWithout(c, b) == pool[c] \ {b}

\* pooled_alloc and register_object.
Register(c, b, counted) ==
  /\ made < MaxMade /\ made' = made + 1
  /\ b \in Allocatable(c)
  /\ pool' = [pool EXCEPT ![c] = PoolWithout(c, b)]
  /\ objects' = [objects EXCEPT ![c] = @ \union {b}]
  /\ shared' = [shared EXCEPT ![b] = counted]
  /\ home' = [home EXCEPT ![b] = c]

-----------------------------------------------------------------------------
(* Instructions *)

\* A string, an enum, a closure (counted), or a struct, an array (not), made
\* of nothing or of one value that moves in.
New(c, b, counted, parts) ==
  /\ Interprets(c) /\ Register(c, b, counted)
  /\ refcount' = [refcount EXCEPT ![b] = 1]
  /\ \A i \in DOMAIN parts : Owns(c, parts[i]) /\ parts[i] # Chan
  /\ kids' = [kids EXCEPT ![b] = parts]
  /\ holds' = [holds EXCEPT ![c] = [x \in Block |->
                 holds[c][x] + (IF x = b THEN 1 ELSE 0) - (IF <<x>> = parts THEN 1 ELSE 0)]]
  /\ UNCHANGED <<alive, graveyard, gpool, todo, phase, lost, reused>>

\* own_into_slot of a counted value: one reference more.
Retain(c, b) ==
  /\ Interprets(c) /\ Owns(c, b) /\ shared[b]
  /\ refcount[b] < IF b = Chan THEN MaxRefs + 1 ELSE MaxRefs
  /\ refcount' = [refcount EXCEPT ![b] = @ + 1]
  /\ holds' = [holds EXCEPT ![c][b] = @ + 1]
  /\ UNCHANGED <<alive, arenas, shared, home, kids, todo, phase, made, lost, reused>>

\* own_into_slot of a struct or an array: a copy, which owns its leaves too.
LeavesBorrowed(b) == [k \in Block |-> refcount[k]]    \* mutant
LeavesOwned(b) ==
  [k \in Block |-> refcount[k] + Cardinality({i \in DOMAIN kids[b] : kids[b][i] = k})]

Clone(c, b, d) ==
  /\ Interprets(c) /\ Owns(c, b) /\ ~shared[b]
  /\ \A i \in DOMAIN kids[b] : shared[kids[b][i]]    \* a leaf that is not is cloned in turn
  /\ Register(c, d, FALSE)
  /\ refcount' = [LeavesOwned(b) EXCEPT ![d] = 1]
  /\ kids' = [kids EXCEPT ![d] = kids[b]]
  /\ holds' = [holds EXCEPT ![c][d] = @ + 1]
  /\ UNCHANGED <<alive, graveyard, gpool, todo, phase, lost, reused>>

\* A value moves into the channel's buffer ...
Send(c, b) ==
  /\ Interprets(c) /\ Owns(c, Chan) /\ b # Chan /\ Owns(c, b)
  /\ Len(kids[Chan]) < Capacity
  /\ kids' = [kids EXCEPT ![Chan] = Append(@, b)]
  /\ Take(c, b)
  /\ UNCHANGED <<alive, arenas, shared, refcount, home, todo, phase, made, lost, reused>>

\* ... and out of it.
Recv(c) ==
  /\ Interprets(c) /\ Owns(c, Chan) /\ kids[Chan] # <<>>
  /\ holds' = [holds EXCEPT ![c][Head(kids[Chan])] = @ + 1]
  /\ kids' = [kids EXCEPT ![Chan] = Tail(@)]
  /\ UNCHANGED <<alive, arenas, shared, refcount, home, todo, phase, made, lost, reused>>

-----------------------------------------------------------------------------
(* drop_value *)

Drop(b)    == [do |-> "drop", b |-> b]
Reclaim(b) == [do |-> "reclaim", b |-> b]
Kids(b)    == [i \in DOMAIN kids[b] |-> Drop(kids[b][i])]

Dropped(b) == shared[b] => refcount[b] <= 1

\* OBJ_RELEASE, and at the last owner the children, then the object itself.
DropOne(c, b, rest) ==
  /\ refcount' = [refcount EXCEPT ![b] = IF shared[b] THEN @ - 1 ELSE @]
  /\ IF Dropped(b)
     THEN /\ todo' = [todo EXCEPT ![c] = Kids(b) \o <<Reclaim(b)>> \o rest]
          /\ kids' = [kids EXCEPT ![b] = <<>>]
     ELSE /\ todo' = [todo EXCEPT ![c] = rest]
          /\ UNCHANGED kids
  /\ UNCHANGED <<alive, arenas, shared, home, phase, made, lost, reused>>

\* A value goes out of scope ...
DropValue(c, b) ==
  /\ Interprets(c) /\ Owns(c, b)
  /\ Take(c, b)
  /\ DropOne(c, b, <<>>)

\* ... and takes its children along.
DropChild(c) ==
  /\ Drops(c, "drop")
  /\ DropOne(c, Head(todo[c]).b, Tail(todo[c]))
  /\ UNCHANGED holds

MineAnyway(c, b) == TRUE     \* mutant
Mine(c, b) == home[b] = c

\* reclaim: unlink and pool the block, at home only.
Retire(c) ==
  /\ Drops(c, "reclaim")
  /\ LET b == Head(todo[c]).b IN
     IF Mine(c, b)
     THEN /\ phase' = IF b \in objects[c] THEN "running"
                       ELSE IF b \in Linked THEN "foreign" ELSE "double"
          /\ objects' = [objects EXCEPT ![c] = @ \ {b}]
          /\ pool' = [pool EXCEPT ![c] = @ \union {b}]
     ELSE UNCHANGED <<phase, objects, pool>>
  /\ todo' = [todo EXCEPT ![c] = Tail(@)]
  /\ UNCHANGED <<alive, graveyard, gpool, fields, holds, made, lost, reused>>

-----------------------------------------------------------------------------
(* Tasks *)

\* OP_SPAWN, by any task: a new context, at any address that is free.  The
\* arguments move from the spawner's stack to the child's; of a counted value it
\* keeps, the channel for one, a reference was retained for the child.
Spawn(c, d, args) ==
  /\ Interprets(c) /\ \A b \in args : Owns(c, b)
  /\ made < MaxMade /\ made' = made + 1
  /\ d \notin alive
  /\ alive' = alive \union {d}
  /\ reused' = (reused \/ \E b \in Linked : home[b] = d)
  /\ holds' = [holds EXCEPT
                 ![c] = [b \in Block |-> IF b \in args THEN holds[c][b] - 1 ELSE holds[c][b]],
                 ![d] = [b \in Block |-> IF b \in args THEN 1 ELSE 0]]
  /\ UNCHANGED <<arenas, fields, todo, phase, lost>>

SplicedWhenEmpty(c) == IF graveyard = {} THEN objects[c] ELSE graveyard     \* mutant
Spliced(c) == graveyard \union objects[c]

\* The end of the task: worker_entry or em_merge hands over the list and the
\* pool, retire_fiber the list only.  A task that failed leaves the references
\* on its stack behind, and may end before the tasks it spawned.
End(c) ==
  /\ Interprets(c) /\ c # Main
  /\ alive' = alive \ {c}
  /\ graveyard' = Spliced(c)
  /\ gpool' = IF Drains THEN gpool ELSE gpool \union pool[c]
  /\ objects' = [objects EXCEPT ![c] = {}]
  /\ pool' = [pool EXCEPT ![c] = {}]
  /\ lost' = [b \in Block |-> lost[b] + holds[c][b]]
  /\ holds' = [holds EXCEPT ![c] = None]
  /\ UNCHANGED <<fields, todo, phase, made, reused>>

\* The exit sweep, with every worker joined: main's list, the graveyard, the pools.
Sweep ==
  /\ Interprets(Main) /\ alive = {Main}
  /\ phase' = "swept"
  /\ objects' = [objects EXCEPT ![Main] = {}] /\ pool' = [pool EXCEPT ![Main] = {}]
  /\ graveyard' = {} /\ gpool' = {}
  /\ lost' = None /\ holds' = [holds EXCEPT ![Main] = None]
  /\ kids' = [b \in Block |-> <<>>]
  /\ UNCHANGED <<alive, shared, refcount, home, todo, made, reused>>

Over == phase # "running" /\ UNCHANGED vars

Next ==
  \/ \E c \in Ctx, b \in Block :
       \/ \E counted \in BOOLEAN, parts \in {<<>>} \union {<<k>> : k \in Block} : New(c, b, counted, parts)
       \/ Retain(c, b) \/ Send(c, b) \/ DropValue(c, b)
       \/ \E d \in Block : Clone(c, b, d)
  \/ \E c \in Ctx : Recv(c) \/ DropChild(c) \/ Retire(c) \/ End(c)
  \/ \E c, d \in Ctx, args \in SUBSET Block : Spawn(c, d, args)
  \/ Sweep
  \/ Over

Spec == Init /\ [][Next]_vars

-----------------------------------------------------------------------------
(* Properties *)

\* Every variable keeps its type.
TypeOK ==
  /\ Main \in alive /\ alive \subseteq Ctx
  /\ objects \in [Ctx -> SUBSET Block] /\ pool \in [Ctx -> SUBSET Block]
  /\ graveyard \subseteq Block /\ gpool \subseteq Block
  /\ shared \in [Block -> BOOLEAN] /\ refcount \in [Block -> Nat] /\ home \in [Block -> Ctx]
  /\ kids \in [Block -> Seq(Block)]
  /\ holds \in [Ctx -> [Block -> Nat]]
  /\ todo \in [Ctx -> Seq([do : {"drop", "reclaim"}, b : Block])]
  /\ phase \in {"running", "swept", "foreign", "double"}
  /\ made \in Nat /\ lost \in [Block -> Nat] /\ reused \in BOOLEAN

\* A context changes no list but its own: "a context's arena (list + pool) is
\* lock-free and must not be touched by another thread" (runtime.c:148).
OwnArena == phase # "foreign"

\* The same as long as no context is made at an address that an object still
\* names as its home.
OwnArenaUnlessReused == reused \/ OwnArena

\* The references to a block: on stacks, in other objects, about to be dropped.
OnStacks(b)  == UNION {{c} \X (1 .. holds[c][b]) : c \in Ctx}
InObjects(b) == UNION {{x} \X {i \in DOMAIN kids[x] : kids[x][i] = b} : x \in Block}
InDrops(b)   == UNION {{c} \X {i \in DOMAIN todo[c] : todo[c][i] = Drop(b)} : c \in Ctx}
Refs(b) == Cardinality(OnStacks(b)) + Cardinality(InObjects(b)) + Cardinality(InDrops(b))

\* What can be reached is on a list: it is neither freed nor waits in a pool
\* for its next use, and none is reclaimed twice (the "double-drop" that
\* EMBER_DROP_TRACE looks for, runtime.c:158).
ReachableIsLinked ==
  /\ phase # "double"
  /\ phase = "running" => \A b \in Block : Refs(b) > 0 => b \in Linked

\* A count is the number of the references, those of failed tasks included; a
\* struct or an array has one at most (runtime.c:183).
CountsExact ==
  phase = "running" => \A b \in Linked :
    IF shared[b] THEN refcount[b] = Refs(b) + lost[b] ELSE Refs(b) + lost[b] <= 1

\* Each block is on one list or in one pool, so that a step on one does not
\* change another, and the sweep frees it once (runtime.c:652).
OneList ==
  phase = "running" =>
    /\ \A c, d \in Ctx : c # d => /\ objects[c] \intersect objects[d] = {}
                                  /\ pool[c] \intersect pool[d] = {}
    /\ \A c \in Ctx : /\ objects[c] \intersect graveyard = {}
                      /\ pool[c] \intersect gpool = {}
    /\ Linked \intersect Pooled = {}
=============================================================================
