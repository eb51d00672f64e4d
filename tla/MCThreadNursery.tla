-------------------------- MODULE MCThreadNursery --------------------------
(***************************************************************************)
(* Small instances of ThreadNursery: the main thread, three tasks, two     *)
(* channels.  Init picks one of the setups a .cfg names.                   *)
(***************************************************************************)
EXTENDS ThreadNursery

CONSTANTS A, B, C          \* the tasks
CONSTANTS x, y             \* channels
CONSTANTS Outer, Inner     \* nurseries

Send(ch)  == [op |-> "send", ch |-> ch]
Recv(ch)  == [op |-> "recv", ch |-> ch]
Poll(ch)  == [op |-> "poll", ch |-> ch]
Close(ch) == [op |-> "close", ch |-> ch]
Nurse(k)  == [op |-> "open", n |-> k]
Go(t)     == [op |-> "spawn", child |-> t]
JoinAll   == [op |-> "join"]
Crash     == [op |-> "fail"]
Quit      == [op |-> "exit"]

Caps == [ch \in Channel |-> IF ch = x THEN 1 ELSE 2]

Program(native, refused, main, a, b, c) ==
  [native |-> native, refused |-> refused,
   code |-> [t \in Thread |-> CASE t = Main -> main [] t = A -> a [] t = B -> b [] t = C -> c]]

Vm(main, a, b, c) == Program(FALSE, {}, main, a, b, c)
Native(main, a, b, c) == Program(TRUE, {}, main, a, b, c)

All(body) == <<Nurse(Outer), Go(A), Go(B), Go(C)>> \o body \o <<JoinAll>>

\* One producer closes after its last value, two receivers drain.
Draining == <<<<Send(y), Send(y), Close(y)>>, <<Recv(y), Recv(y)>>, <<Recv(y)>>>>

\* Whatever the traffic was, each task gets stuck, on an empty or a full channel.
Sticking == <<<<Send(x), Recv(y)>>, <<Recv(x), Send(x), Send(x), Send(x)>>, <<Send(x), Recv(y)>>>>

\* All end up waiting for a value.
Starving == <<<<Send(y), Recv(x)>>, <<Recv(y), Recv(x)>>, <<Recv(x)>>>>

Sound ==
  { Vm(All(<<Recv(x)>>), <<Send(x), Send(x)>>, <<Send(x), Recv(y)>>, <<Recv(x), Recv(x), Send(y)>>),
    Vm(All(<<Poll(x)>>), Sticking[1], Sticking[2], Sticking[3]),
    Vm(All(<<>>), Draining[1], Draining[2], Draining[3]),
    Native(All(<<Poll(y)>>), Draining[1], Draining[2], Draining[3]),
    Native(All(<<Poll(x)>>), Starving[1], Starving[2], Starving[3]),
    \* a task fails and nobody depends on it, another calls exit()
    Vm(All(<<>>), <<Send(x), Crash>>, <<Recv(x)>>, <<Quit>>),
    Vm(All(<<>>), <<Close(x), Send(x)>>, <<Recv(x)>>, <<Recv(x)>>),
    Native(All(<<>>), <<Send(x), Crash>>, <<Recv(x), Recv(x)>>, <<Quit>>),
    \* a task with a nursery of its own
    Vm(<<Nurse(Outer), Go(A), Go(B), JoinAll>>,
       <<Nurse(Inner), Go(C), JoinAll, Send(x)>>, <<Recv(x)>>, <<Send(y)>>),
    \* no thread for a task
    Program(FALSE, {A}, All(<<>>), <<Send(x)>>, <<Recv(x), Send(y)>>, <<Recv(y)>>),
    Program(TRUE, {C}, All(<<>>), <<Send(x)>>, <<Recv(x)>>, <<>>) }

-----------------------------------------------------------------------------
(* Setups for the findings *)

\* One task is done when the other gets stuck.
OneFinished == { Vm(<<Nurse(Outer), Go(A), Go(B), JoinAll>>, <<>>, <<Recv(x)>>, <<>>) }

\* A return in the nursery's body.
ReturnInBody == { Vm(<<Nurse(Outer), Go(A)>>, <<Send(x)>>, <<>>, <<>>) }

\* The body opens a second nursery whose task waits for one of the first.
TaskWaitsOutside ==
  { Vm(<<Nurse(Outer), Go(A), Nurse(Inner), Go(B), JoinAll, JoinAll>>,
       <<Send(x)>>, <<Recv(x)>>, <<>>) }

\* A channel is closed under a sender that waits for room.
ClosedUnderSender ==
  { Vm(All(<<>>), <<Send(x), Send(x)>>, <<Close(x)>>, <<Recv(x), Recv(x)>>) }

\* A single task is stuck.
OneStuck == { Vm(<<Nurse(Outer), Go(A), JoinAll>>, <<Recv(x)>>, <<>>, <<>>) }
=============================================================================
