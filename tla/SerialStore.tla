---------------------------- MODULE SerialStore ----------------------------
(***************************************************************************)
(* What a concurrency-control protocol of src/src/rtx promises to the      *)
(* transactions that run over it.  A transaction collects observations     *)
(* (the records its read and write calls handed to it) and then either     *)
(* aborts, or commits in one atomic step at which everything it observed   *)
(* is the current contents of the store and everything it wrote is         *)
(* installed.  Every behaviour of this module is therefore strictly        *)
(* serializable: the commit steps are the serial order.                    *)
(***************************************************************************)

CONSTANTS Txns,     \* the coroutines that run transactions
          Keys,     \* the records
          Values    \* the contents a record can have

VARIABLES store,    \* the contents of every record
          seen,     \* seen[t]: what t has observed, a function on the keys it asked for
          status    \* status[t]: "idle", "active", "committed" or "aborted"

vars == << store, seen, status >>

Nothing == [k \in {} |-> k]

Init ==
  /\ store \in [Keys -> Values]
  /\ seen = [t \in Txns |-> Nothing]
  /\ status = [t \in Txns |-> "idle"]

\* A transaction starts: it has seen nothing.
Start(t) ==
  /\ status[t] = "idle"
  /\ status' = [status EXCEPT ![t] = "active"]
  /\ UNCHANGED << store, seen >>

\* The store hands one more record to t.  Which contents it hands out is
\* not restricted here: Commit is where a wrong observation must be caught.
Observe(t) ==
  /\ status[t] = "active"
  /\ \E k \in Keys \ DOMAIN seen[t], v \in Values :
       seen' = [seen EXCEPT ![t] =
                  [j \in DOMAIN seen[t] \cup {k} |->
                     IF j = k THEN v ELSE seen[t][j]]]
  /\ UNCHANGED << store, status >>

\* The transaction takes effect at one point: all it has seen is current,
\* and the records it wrote (among those it has seen) get their new contents.
Commit(t) ==
  /\ status[t] = "active"
  /\ \A k \in DOMAIN seen[t] : store[k] = seen[t][k]
  /\ \E W \in SUBSET DOMAIN seen[t] : \E new \in [W -> Values] :
       store' = [k \in Keys |-> IF k \in W THEN new[k] ELSE store[k]]
  /\ seen' = [seen EXCEPT ![t] = Nothing]
  /\ status' = [status EXCEPT ![t] = "committed"]

\* The transaction gives up: it leaves no trace in the store.
Abort(t) ==
  /\ status[t] = "active"
  /\ seen' = [seen EXCEPT ![t] = Nothing]
  /\ status' = [status EXCEPT ![t] = "aborted"]
  /\ UNCHANGED store

\* The coroutine is done with the transaction and may start another one.
Finish(t) ==
  /\ status[t] \in {"committed", "aborted"}
  /\ status' = [status EXCEPT ![t] = "idle"]
  /\ UNCHANGED << store, seen >>

Next == \E t \in Txns :
  Start(t) \/ Observe(t) \/ Commit(t) \/ Abort(t) \/ Finish(t)

Spec == Init /\ [][Next]_vars
=============================================================================
