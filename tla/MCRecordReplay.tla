--------------------------- MODULE MCRecordReplay ---------------------------
(***************************************************************************)
(* Every program of a few instructions over three sources, foreign calls   *)
(* of no or two leaves, a loop back to the start, output and every ending. *)
(***************************************************************************)
EXTENDS RecordReplay

CONSTANT Length

Instructions ==
  {[op |-> "draw", src |-> "random"], [op |-> "draw", src |-> "clock"],
   [op |-> "read", src |-> "read_line"],
   [op |-> "call", leaves |-> 0], [op |-> "call", leaves |-> 2],
   [op |-> "jump", to |-> 1],
   [op |-> "callout"], [op |-> "print"], [op |-> "write"], [op |-> "exit"], [op |-> "fail"]}

AllPrograms == {Append(p, [op |-> "return"]) : p \in [1..Length -> Instructions]}
=============================================================================
