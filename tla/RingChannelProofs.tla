------------------------- MODULE RingChannelProofs -------------------------
(***************************************************************************)
(* For every capacity the ring buffer of RingChannel is the bounded queue  *)
(* of BoundedChannel.                                                      *)
(***************************************************************************)
EXTENDS RingChannel, TLAPS

LEMMA CapacityType == Capacity \in Nat \ {0}
BY RingAssumption DEF RingAssumption, Capacity

\* first + i never reaches twice the capacity, so `%` subtracts it at most once.
LEMMA ModSmall ==
  ASSUME NEW n \in Nat \ {0}, NEW a \in Nat, a < 2 * n
  PROVE  a % n = IF a < n THEN a ELSE a - n
BY Z3

Wrap(a) == IF a < Capacity THEN a ELSE a - Capacity

LEMMA SlotValue ==
  ASSUME TypeOK, NEW i \in 0 .. Capacity
  PROVE  Slot(i) = Wrap(first + i) /\ Slot(i) \in 0 .. Capacity - 1
<1>1. first + i \in Nat /\ first + i < 2 * Capacity
  BY CapacityType DEF TypeOK
<1>2. Slot(i) = Wrap(first + i)
  BY <1>1, CapacityType, ModSmall, Zenon DEF Slot, Wrap
<1>. QED
  BY <1>1, <1>2, CapacityType DEF Wrap

LEMMA NextFirst ==
  ASSUME TypeOK
  PROVE  /\ (first + 1) % Capacity = Wrap(first + 1)
         /\ (first + 1) % Capacity \in 0 .. Capacity - 1
BY SlotValue, CapacityType DEF Slot

LEMMA InitType == Init => TypeOK
<1>. SUFFICES ASSUME Init PROVE TypeOK
  OBVIOUS
<1>1. first \in 0 .. Capacity - 1 /\ count \in 0 .. Capacity
  BY CapacityType DEF Init
<1>. QED
  BY <1>1 DEF Init, TypeOK

LEMMA StepType == TypeOK /\ [Next]_vars => TypeOK'
<1>. SUFFICES ASSUME TypeOK, [Next]_vars PROVE TypeOK'
  OBVIOUS
<1>1. ASSUME NEW v \in Msg, Send(v) PROVE TypeOK'
  <2>1. Slot(count) \in 0 .. Capacity - 1
    BY SlotValue DEF TypeOK
  <2>2. buffer' \in [0 .. Capacity - 1 -> Msg]
    BY <1>1, <2>1 DEF Send, TypeOK
  <2>3. count' \in 0 .. Capacity
    BY <1>1, CapacityType DEF Send, TypeOK
  <2>. QED
    BY <1>1, <2>2, <2>3 DEF Send, TypeOK
<1>2. CASE Recv
  BY <1>2, NextFirst, CapacityType DEF Recv, TypeOK
<1>3. CASE Close
  BY <1>3 DEF Close, TypeOK
<1>4. CASE Share
  BY <1>4 DEF Share, TypeOK
<1>5. ASSUME NEW home \in BOOLEAN, Drop(home) PROVE TypeOK'
  BY <1>5 DEF Drop, TypeOK
<1>6. CASE UNCHANGED vars
  BY <1>6 DEF vars, TypeOK
<1>. QED
  BY <1>1, <1>2, <1>3, <1>4, <1>5, <1>6 DEF Next

\* Every variable of the ring has its type, `first` and `count` stay in range.
THEOREM TypeCorrect == Spec => []TypeOK
BY InitType, StepType, PTL DEF Spec

\* What Contents reads of the shell: Drop gives it back with the last owner.
LiveWhileOwned == (shell = "live") <=> (owners > 0)

LEMMA OwnedInit == Init => LiveWhileOwned
BY DEF Init, LiveWhileOwned

LEMMA OwnedStep == TypeOK /\ LiveWhileOwned /\ [Next]_vars => LiveWhileOwned'
BY DEF TypeOK, LiveWhileOwned, Next, vars, Send, Recv, Close, Share, Drop

-----------------------------------------------------------------------------
(* The refinement *)

\* The slot send writes is none of those in use.
LEMMA FreshSlot ==
  ASSUME TypeOK, count # Capacity, NEW i \in 0 .. count - 1
  PROVE  Slot(i) # Slot(count)
<1>1. /\ first \in Nat /\ first < Capacity /\ count \in Nat /\ count < Capacity
      /\ i \in Nat /\ i < count
  BY CapacityType DEF TypeOK
<1>2. Slot(i) = Wrap(first + i) /\ Slot(count) = Wrap(first + count)
  BY <1>1, CapacityType, SlotValue
<1>. QED
  BY <1>1, <1>2, CapacityType DEF Wrap

\* After recv the value that was second is first.
LEMMA NextSlot ==
  ASSUME TypeOK, TypeOK', NEW i \in 0 .. count - 1,
         first' = (first + 1) % Capacity
  PROVE  Slot(i)' = Slot(i + 1)
<1>1. first \in Nat /\ first < Capacity /\ i \in Nat /\ i < Capacity
  BY CapacityType DEF TypeOK
<1>2. first' = Wrap(first + 1)
  BY NextFirst
<1>3. Slot(i)' = Wrap(first' + i)
  <2>1. first' + i \in Nat /\ first' + i < 2 * Capacity
    BY <1>1, CapacityType DEF TypeOK
  <2>. QED
    BY <2>1, CapacityType, ModSmall, Zenon DEF Slot, Wrap
<1>4. Slot(i + 1) = Wrap(first + (i + 1))
  BY <1>1, CapacityType, SlotValue
<1>. QED
  BY <1>1, <1>2, <1>3, <1>4, CapacityType DEF Wrap

LEMMA SendRefines ==
  ASSUME TypeOK, LiveWhileOwned, NEW v \in Msg, Send(v)
  PROVE  Queue!Put(v)
<1>1. shell = "live" /\ shell' = "live"
  BY DEF LiveWhileOwned, Send
<1>2. count \in Nat /\ count < Capacity
  BY CapacityType DEF TypeOK, Send
<1>3. Contents = [i \in 1 .. count |-> buffer[Slot(i - 1)]]
  BY <1>1 DEF Contents
<1>4. Contents' = [i \in 1 .. count + 1 |-> buffer'[Slot(i - 1)]]
  BY <1>1 DEF Contents, Send, Slot
<1>5. ASSUME NEW i \in 1 .. count
      PROVE  buffer'[Slot(i - 1)] = buffer[Slot(i - 1)]
  <2>1. i - 1 \in 0 .. count - 1
    BY <1>2
  <2>2. Slot(i - 1) # Slot(count)
    BY <1>2, <2>1, FreshSlot DEF Send
  <2>3. Slot(i - 1) \in 0 .. Capacity - 1
    BY <1>2, <2>1, SlotValue, CapacityType
  <2>. QED
    BY <2>2, <2>3 DEF Send, TypeOK
<1>6. buffer'[Slot(count)] = v
  BY <1>2, SlotValue, CapacityType DEF Send, TypeOK
<1>7. Contents' = Append(Contents, v)
  <2>1. Len(Contents) = count
    BY <1>2, <1>3
  <2>2. Append(Contents, v) = [i \in 1 .. count + 1 |->
                                 IF i = count + 1 THEN v ELSE Contents[i]]
    BY <1>2, <1>3, <2>1
  <2>3. ASSUME NEW i \in 1 .. count + 1
        PROVE  buffer'[Slot(i - 1)] = IF i = count + 1 THEN v ELSE Contents[i]
    BY <1>2, <1>3, <1>5, <1>6
  <2>. QED
    BY <1>4, <2>2, <2>3
<1>8. Len(Contents) < Capacity
  BY <1>2, <1>3
<1>. QED
  BY <1>7, <1>8 DEF Queue!Put, Send

LEMMA RecvRefines ==
  ASSUME TypeOK, LiveWhileOwned, Recv
  PROVE  Queue!Take
<1>0. TypeOK'
  BY StepType DEF Next
<1>1. shell = "live" /\ shell' = "live"
  BY DEF LiveWhileOwned, Recv
<1>2. count \in Nat \ {0} /\ count <= Capacity
  BY CapacityType DEF TypeOK, Recv
<1>3. Contents = [i \in 1 .. count |-> buffer[Slot(i - 1)]]
  BY <1>1 DEF Contents
<1>4. Contents' = [i \in 1 .. count - 1 |-> buffer[Slot(i - 1)']]
  BY <1>1 DEF Contents, Recv, Slot
<1>5. ASSUME NEW i \in 1 .. count - 1 PROVE Slot(i - 1)' = Slot(i)
  <2>1. i - 1 \in 0 .. count - 1 /\ (i - 1) + 1 = i
    BY <1>2
  <2>. QED
    BY <2>1, <1>0, NextSlot DEF Recv
<1>6. Contents # <<>> /\ Tail(Contents) = [i \in 1 .. count - 1 |-> Contents[i + 1]]
  BY <1>2, <1>3
<1>7. Contents' = Tail(Contents)
  <2>1. ASSUME NEW i \in 1 .. count - 1
        PROVE  Contents[i + 1] = buffer[Slot(i - 1)']
    BY <1>2, <1>3, <1>5
  <2>. QED
    BY <1>4, <1>6, <2>1
<1>. QED
  BY <1>6, <1>7 DEF Queue!Take, Recv

LEMMA InitRefines == Init => Queue!Init
BY DEF Init, Queue!Init, Contents

LEMMA StepRefines ==
  TypeOK /\ LiveWhileOwned /\ [Next]_vars
    => [Queue!Next]_<<Contents, closed>>
<1>. SUFFICES ASSUME TypeOK, LiveWhileOwned, [Next]_vars
              PROVE  Queue!Next \/ UNCHANGED <<Contents, closed>>
  OBVIOUS
<1>1. ASSUME NEW v \in Msg, Send(v) PROVE Queue!Next
  BY <1>1, SendRefines DEF Queue!Next
<1>2. CASE Recv
  BY <1>2, RecvRefines DEF Queue!Next
<1>3. CASE Close
  BY <1>3 DEF Close, Contents, Slot, Queue!Next, Queue!Close
<1>4. CASE Share
  BY <1>4 DEF Share, Contents, Slot
<1>5. ASSUME NEW home \in BOOLEAN, Drop(home)
      PROVE  Queue!Next \/ UNCHANGED <<Contents, closed>>
  <2>1. CASE shell' = shell
    BY <1>5, <2>1 DEF Drop, Contents, Slot
  <2>2. CASE shell' # shell
    BY <1>5, <2>2 DEF Drop, Contents, Queue!Next, Queue!Drain
  <2>. QED
    BY <2>1, <2>2
<1>6. CASE UNCHANGED vars
  BY <1>6 DEF vars, Contents, Slot
<1>. QED
  BY <1>1, <1>2, <1>3, <1>4, <1>5, <1>6 DEF Next

\* The ring implements the queue, for every capacity the program asks for.
THEOREM RingIsQueue == Spec => IsQueue
<1>1. Init => TypeOK /\ LiveWhileOwned
  BY InitType, OwnedInit
<1>2. (TypeOK /\ LiveWhileOwned) /\ [Next]_vars => (TypeOK /\ LiveWhileOwned)'
  BY StepType, OwnedStep
<1>. QED
  BY <1>1, <1>2, InitRefines, StepRefines, PTL DEF Spec, IsQueue, Queue!Spec
=============================================================================
