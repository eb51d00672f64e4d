---------------------------- MODULE RingChannel ----------------------------
(***************************************************************************)
(* The object behind a Channel<T>: ObjChannel's ring buffer, closed flag   *)
(* and owner count.  Blocking is the schedulers' business: an operation    *)
(* that would block is simply not enabled here, and a send looks at        *)
(* `closed` in the critical section that enqueues, as the M:N build's      *)
(* does.  Each action is what one thread does under ch->lock.              *)
(***************************************************************************)
EXTENDS Integers, Sequences

CONSTANTS Msg,        \* the values sent
          Requested,  \* the argument of channel(n)
          MaxOwners   \* bound of the model on the owners of the handle

ASSUME RingAssumption == Requested \in Int /\ MaxOwners \in Nat \ {0}

\* alloc_channel's `cap > 0 ? cap : 1`.
Capacity == IF Requested > 0 THEN Requested ELSE 1

VARIABLES buffer, first, count, closed,
          owners,     \* obj.refcount
          shell       \* "live"; "retired" to the pool; "left" for the exit sweep

vars == <<buffer, first, count, closed, owners, shell>>

Init == /\ buffer \in [0 .. Capacity - 1 -> Msg]   \* malloc: any content
        /\ first = 0 /\ count = 0 /\ closed = FALSE
        /\ owners = 1 /\ shell = "live"

SlotUnwrapped(i) == IF first + i < Capacity THEN first + i ELSE Capacity - 1 \* mutant
Slot(i) == (first + i) % Capacity

Send(v) ==
  /\ owners > 0 /\ ~closed /\ count # Capacity
  /\ buffer' = [buffer EXCEPT ![Slot(count)] = v]
  /\ count' = count + 1
  /\ UNCHANGED <<first, closed, owners, shell>>

RecvUnwrapped ==                                                     \* mutant
  /\ owners > 0 /\ count > 0
  /\ first' = first + 1
  /\ count' = count - 1
  /\ UNCHANGED <<buffer, closed, owners, shell>>

\* recv and try_recv of a channel that is not empty.
Recv ==
  /\ owners > 0 /\ count > 0
  /\ first' = (first + 1) % Capacity
  /\ count' = count - 1
  /\ UNCHANGED <<buffer, closed, owners, shell>>

Close == /\ owners > 0
         /\ closed' = TRUE
         /\ UNCHANGED <<buffer, first, count, owners, shell>>

\* Another owner: a binding, or the argument of a spawn (OP_INCREF).
Share == /\ owners \in 1 .. MaxOwners - 1
         /\ owners' = owners + 1
         /\ UNCHANGED <<buffer, first, count, closed, shell>>

\* drop_value: the last owner drains the values still queued, whichever thread
\* it is on; only the home context gives the shell back.
Drop(home) ==
  /\ owners > 0
  /\ owners' = owners - 1
  /\ shell' = IF owners > 1 THEN shell ELSE IF home THEN "retired" ELSE "left"
  /\ UNCHANGED <<buffer, first, count, closed>>

Next == \/ \E v \in Msg : Send(v)
        \/ Recv \/ Close \/ Share
        \/ \E home \in BOOLEAN : Drop(home)

Spec == Init /\ [][Next]_vars

-----------------------------------------------------------------------------
TypeOK == /\ buffer \in [0 .. Capacity - 1 -> Msg]
          /\ first \in 0 .. Capacity - 1
          /\ count \in 0 .. Capacity
          /\ closed \in BOOLEAN
          /\ owners \in Nat
          /\ shell \in {"live", "retired", "left"}

\* The values in the ring, oldest first; none once the last owner drained it.
Contents == IF shell = "live"
            THEN [i \in 1 .. count |-> buffer[Slot(i - 1)]]
            ELSE <<>>

\* The ring is the bounded first-in-first-out queue the language promises,
\* wrap-around and last drop included.
Queue == INSTANCE BoundedChannel WITH queue <- Contents, shut <- closed
IsQueue == Queue!Spec
=============================================================================
