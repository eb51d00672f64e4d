--------------------------- MODULE BoundedChannel ---------------------------
(***************************************************************************)
(* What a Channel<T> promises to an Ingle program, whatever scheduler runs *)
(* it (docs/language.md, "send(ch, v)", "recv(ch)", "close(ch)"): a        *)
(* bounded first-in-first-out queue that can be closed once and for all.   *)
(* Taking from a closed, empty channel yields None; putting into a closed  *)
(* channel is not one of its steps.                                        *)
(***************************************************************************)
EXTENDS Naturals, Sequences

CONSTANTS Msg,        \* the values that can be sent
          Capacity    \* how many of them the channel holds at most

VARIABLES queue,      \* the values in the channel, oldest first
          shut        \* has close() run

Init == queue = <<>> /\ shut = FALSE

Put(v) == /\ ~shut
          /\ Len(queue) < Capacity
          /\ queue' = Append(queue, v)
          /\ UNCHANGED shut

Take == /\ queue # <<>>
        /\ queue' = Tail(queue)
        /\ UNCHANGED shut

Close == shut' = TRUE /\ UNCHANGED queue

\* The last owner's drop discards whatever is still queued.
Drain == queue' = <<>> /\ UNCHANGED shut

Next == Take \/ Close \/ Drain \/ \E v \in Msg : Put(v)

Spec == Init /\ [][Next]_<<queue, shut>>
=============================================================================
