------------------------------ MODULE MCTwoPL ------------------------------
(***************************************************************************)
(* Small instances of TwoPL.  Lock words keep one bit of the clock.        *)
(***************************************************************************)
EXTENDS TwoPL

CONSTANTS c1, c2, c3, k1, k2

MCId == [c \in Cors |-> IF c = c1 THEN 1 ELSE IF c = c2 THEN 2 ELSE 91]

MCWordSpace == 2 * 524288

\* The first coroutine has the first record in its own memory.
MCLocal == {<< c1, k1 >>}
=============================================================================
