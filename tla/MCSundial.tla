----------------------------- MODULE MCSundial -----------------------------
(***************************************************************************)
(* A small instance of Sundial: three coroutines, two records.             *)
(***************************************************************************)
EXTENDS Sundial

CONSTANTS c1, c2, c3, k1

MCId == [c \in Cors |-> IF c = c1 THEN 1 ELSE IF c = c2 THEN 2 ELSE 3]

\* Both records on one machine.
MCHome == [k \in Keys |-> 0]

\* c1 only overwrites k1, c2 reads k1 and overwrites both records, c3
\* overwrites both records.
MCReads == [c \in Cors |-> IF c = c2 THEN {k1} ELSE {}]
MCWrites == [c \in Cors |-> IF c = c1 THEN {k1} ELSE Keys]
=============================================================================
