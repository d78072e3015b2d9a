------------------------------- MODULE MCDSLR -------------------------------
(***************************************************************************)
(* A small instance of DSLR: lanes that are full after two tickets.        *)
(***************************************************************************)
EXTENDS DSLR

CONSTANTS c1, c2, c3

=============================================================================
