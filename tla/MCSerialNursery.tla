-------------------------- MODULE MCSerialNursery --------------------------
(***************************************************************************)
(* Small instances of SerialNursery: every program of a shape, one         *)
(* behaviour each.                                                         *)
(***************************************************************************)
EXTENDS SerialNursery, TLC

CONSTANTS A, B, C, D        \* the tasks
CONSTANTS x, y             \* channels
CONSTANTS Outer, Inner, Other   \* nurseries

Send(ch)  == [op |-> "send", ch |-> ch]
Recv(ch)  == [op |-> "recv", ch |-> ch]
Nurse(k)  == [op |-> "open", n |-> k]
Go(t)     == [op |-> "spawn", child |-> t]
JoinAll   == [op |-> "join"]
Jump      == [op |-> "leave"]

\* A channel that one value fills, and one that holds two in their order.
Caps == [ch \in Channel |-> IF ch = x THEN 1 ELSE 2]

Traffic == [op : {"send", "recv"}, ch : Channel]
Single  == Traffic \union [op : {"poll", "close"}, ch : {x}] \union [op : {"builtin", "fail", "exit"}]

UpTo(k, ops) == UNION {[1 .. n -> ops] : n \in 0 .. k}

Whole(main, a, b, c) ==
  (Main :> main) @@ (A :> a) @@ (B :> b) @@ (C :> c) @@ (D :> <<>>)

Group(n, body) == <<Nurse(n)>> \o body \o <<JoinAll>>
Both == Group(Outer, <<Go(A), Go(B)>>)

\* Two tasks, any two statements each.
Flat == {Whole(Both, a, b, <<>>) : a, b \in UpTo(2, Single)}

\* Three tasks that exchange values with one another and with the parent; then
\* as many tasks as a group holds, and one more.
Wide == {Whole(Group(Outer, <<Go(A), Go(B), Go(C)>> \o body) \o body, a, b, c) :
           a, b, c, body \in UpTo(1, Traffic)}
Full4 == {Whole(Group(Outer, <<Go(A), Go(B), Go(C)>> \o more), <<>>, <<>>, <<>>) :
            more \in {<<>>, <<Go(D)>>}}

\* A task with a nursery of its own, with statements in the body and after it.
Nested == {Whole(Both, Group(Inner, <<Go(C)>> \o body) \o after, b, c) :
             body, after, c \in UpTo(1, Traffic), b \in UpTo(2, Traffic)}

\* Two tasks that both open a nursery; a body may block, and end or jump out.
Crossing(ends) ==
  {Whole(Both, <<Nurse(Inner), Go(C)>> \o a \o end, Group(Other, b), <<>>) :
     a \in UpTo(1, Traffic), end \in ends, b \in UpTo(2, Traffic)}
Suspending == Crossing({<<JoinAll>>})

\* As many levels as there are, and one more.
Deep == {Whole(Group(Outer, Group(Inner, <<Go(A)>> \o more)), a, <<>>, <<>>) :
           more \in {<<>>, Group(Other, <<Go(B)>>)}, a \in UpTo(1, Traffic)}

\* A task of the outer nursery waits to be started while an inner one runs.
Early == {Whole(Group(Outer, <<Go(A)>> \o Group(Inner, <<Go(B)>>)), a, b, <<>>) :
            a, b \in UpTo(1, Traffic)}

\* exit() in the body of a nursery that has a task.
Quitting == {Whole(Both, <<Nurse(Inner), Go(C), [op |-> "exit"], JoinAll>>, b, <<>>) :
               b \in UpTo(1, Traffic)}

\* A task calls a lambda of its parent's that spawns, in a nursery of its own or not.
Lambda == {Whole(Both, a, b, c) : a \in {<<Go(C)>>, Group(Inner, <<Go(C)>>) \o <<Go(D)>>},
                                  b, c \in UpTo(1, Traffic)}

Everything == Flat \union Wide \union Full4 \union Nested \union Crossing({<<JoinAll>>, <<Jump>>}) \union Deep
                \union Early \union Quitting \union Lambda
=============================================================================
