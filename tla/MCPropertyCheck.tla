-------------------------- MODULE MCPropertyCheck --------------------------
(***************************************************************************)
(* Small instances of PropertyCheck: programs of one or two functions.     *)
(***************************************************************************)
EXTENDS PropertyCheck

Int1 == [array |-> FALSE, bool |-> FALSE]
Bool == [array |-> FALSE, bool |-> TRUE]
Ints == [array |-> TRUE, bool |-> FALSE]
Bools == [array |-> TRUE, bool |-> TRUE]

Pure(leaves, can, native) == [leaves |-> leaves, can |-> can, pure |-> TRUE, native |-> native]
Drawing(leaves) ==
  [leaves |-> leaves, can |-> {"passes", "fails"}, pure |-> FALSE, native |-> TRUE]

\* A function that may exit, before one that prints; two leaves; an array; an array
\* given to a function that draws random values.
MCPrograms ==
  { <<Pure(<<Bool>>, {"passes", "fails", "exits"}, TRUE), Pure(<<Int1>>, Does, TRUE)>>,
    <<Pure(<<Int1, Bool>>, {"passes", "fails"}, FALSE)>>,
    <<Pure(<<Ints>>, {"passes", "fails"}, FALSE)>>,
    <<Drawing(<<Bools>>)>> }

MCNumber == -1..2
=============================================================================
