---------------------------- MODULE MCBPlusTree -----------------------------
(* A small table, one loaded downwards (half full leaves, inner nodes about
   to split) and one loaded upwards (full leaves, lone children). *)
EXTENDS BPlusTree

MCKeys == 0 .. 67
MCLoads ==
  { << 27, 45 >>,
    [i \in 1 .. 22 |-> 68 - 2 * i],
    [i \in 1 .. 64 |-> i] }
MCAsked == {0, 23, 25, 27, 45, 47, 65, 66}
=============================================================================
