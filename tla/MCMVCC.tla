------------------------------- MODULE MCMVCC -------------------------------
(***************************************************************************)
(* Small instances of MVCC.  A run ends when every clock has reached its   *)
(* bound.                                                                  *)
(***************************************************************************)
EXTENDS MVCC, TLC

CONSTANTS c1, c2

MCId == [c \in Cors |-> IF c = c1 THEN 1 ELSE 2]

\* One coroutine runs one transaction more than the other.
MCUntil == [c \in Cors |-> IF c = c1 THEN 2 ELSE 1]

\* No action tells one record from another.
MCSymmetry == Permutations(Keys)

\* Over verbs, where the parts of a block land in any order, the transaction of
\* c2 has one record.
MCBound == verbs => Cardinality(rset[c2] \cup wset[c2]) <= 1

Exhausted ==
  /\ \A c \in Cors : pc[c] = "idle" /\ clock[c] >= Until[c]
  /\ UNCHANGED vars

MCSpec == Init /\ [][Next \/ Exhausted]_vars
=============================================================================
