------------------------------- MODULE MCOCC -------------------------------
(***************************************************************************)
(* Small instances of OCC: three machines, one backup each.                *)
(***************************************************************************)
EXTENDS OCC

CONSTANTS c1, c2, k1, k2

MCNode == [c \in Cors |-> IF c = c1 THEN 0 ELSE 2]
MCZero == [c \in Cors |-> 0]
MCHome == [k \in Keys |-> 1]

\* Two transactions that each read what the other writes, one that writes
\* both records and one that only reads.
MCTxns == [c \in Cors |->
  IF c = c1 THEN {<< {k1}, {k2} >>, << {}, {k1, k2} >>}
            ELSE {<< {k2}, {k1} >>, << {k1, k2}, {} >>}]

\* Over RPC and over verbs, the hybrids in which the reads alone are of the
\* other kind, and the one whose records are read and written by RPC only.
MCBuilds == {{}, Stages, {"read"}, Stages \ {"read"}, {"lock", "validate", "release"}}

\* One transaction more in the RPC build.
MCMaxTxns == [b \in Builds |-> IF b = {} THEN 3 ELSE 2]
=============================================================================
