--------------------------- MODULE MCMNScheduler ---------------------------
(***************************************************************************)
(* Small instances of MNScheduler: two or three workers and one script per *)
(* fiber.  Each program below is one a user could write; a .cfg picks one. *)
(***************************************************************************)
EXTENDS MNScheduler

CONSTANTS A, B, C          \* the spawned fibers
CONSTANTS x, y             \* channels
CONSTANTS Outer, Inner     \* nurseries

Send(c)  == [op |-> "send", ch |-> c]
Recv(c)  == [op |-> "recv", ch |-> c]
Poll(c)  == [op |-> "poll", ch |-> c]
Close(c) == [op |-> "close", ch |-> c]
Nurse(g) == [op |-> "open", n |-> g]
Go(f)    == [op |-> "spawn", child |-> f]
Repeat(k) == [op |-> "loop", to |-> k]
Join     == [op |-> "join"]
Fail     == [op |-> "fail"]
Quit     == [op |-> "exit"]

Cap1 == [c \in Channel |-> 1]
Cap2 == [c \in Channel |-> IF c = x THEN 2 ELSE 1]

Scripts(main, a, b, c) ==
  [f \in Fiber |-> CASE f = Main -> main [] f = A -> a [] f = B -> b [] f = C -> c]

-----------------------------------------------------------------------------
(* Programs for the passing runs *)

\* Two producers and two consumers, one of them the main fiber in the nursery's
\* body, over a channel of capacity 1.  One producer then waits for a value
\* that nobody sends: in the end it and the join are stuck, and only they.
Pipeline ==
  Scripts(<<Nurse(Outer), Go(A), Go(B), Go(C), Recv(x), Join>>,
          <<Send(x), Send(x)>>, <<Send(x), Recv(y)>>, <<Recv(x), Recv(x)>>)

\* Two tasks send on a channel of capacity 2, in any order; one closes it and then waits for
\* ever.  The main fiber waits and polls in the nursery's body, and one task stops the program.
Closing ==
  Scripts(<<Nurse(Outer), Go(A), Go(B), Go(C), Recv(x), Poll(x), Join>>,
          <<Send(x), Send(x), Recv(y), Close(x), Recv(y)>>, <<Send(x), Send(y), Recv(x)>>,
          <<Recv(x), Quit>>)

\* A task fails, by sending on a channel it has closed.  One sibling computes;
\* the other waits for the value the nursery's body sends, and then computes.
Failing ==
  Scripts(<<Nurse(Outer), Go(C), Go(B), Go(A), Send(x), Join>>,
          <<Close(y), Send(y)>>, <<Repeat(1)>>, <<Recv(x), Repeat(2)>>)

-----------------------------------------------------------------------------
(* Programs for the findings *)

\* A pipeline that completes.
Passing ==
  Scripts(<<Nurse(Outer), Go(A), Go(B), Join>>,
          <<Send(x), Send(x)>>, <<Recv(x), Recv(x)>>, <<>>)

\* A task opens a nursery of its own.
Nested ==
  Scripts(<<Nurse(Outer), Go(A), Go(B), Join>>,
          <<Nurse(Inner), Go(C), Join, Send(x)>>, <<Recv(x), Recv(x)>>, <<Send(x)>>)

\* A task fails while its sibling goes to wait on a channel.
LostCancel ==
  Scripts(<<Nurse(Outer), Go(C), Go(B), Go(A), Join>>, <<Fail>>, <<Repeat(1)>>, <<Recv(x)>>)

\* The body closes the channel a cancelled sibling waits on.
CloseAfterFail ==
  Scripts(<<Nurse(Outer), Go(C), Go(B), Go(A), Close(x), Join>>,
          <<Fail>>, <<Recv(x)>>, <<Recv(y)>>)
=============================================================================
