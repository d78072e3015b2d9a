------------------------------ MODULE RunQueue ------------------------------
(***************************************************************************)
(* What the routine list of a worker thread promises: a queue of runnable  *)
(* routines, served in order, one full pass at a time.  The master routine *)
(* (written 0 and never queued) polls events and appends the routines they *)
(* make ready; a pass then runs every queued routine once, and a routine   *)
(* either keeps its place or leaves the queue when it hands over.          *)
(***************************************************************************)
EXTENDS Integers, Sequences

CONSTANT Routines   \* the routines other than the master

VARIABLES queue,    \* the runnable routines, in the order they are served
          running   \* the routine that has the thread, 0 for the master

vars == << queue, running >>

Queued == { queue[i] : i \in DOMAIN queue }

\* Whoever follows position i in this pass.
After(i) == IF i = Len(queue) THEN 0 ELSE queue[i + 1]

Init ==
  /\ queue \in [1 .. Len(queue) -> Routines]
  /\ \A i, j \in DOMAIN queue : queue[i] = queue[j] => i = j
  /\ running = 0

Enqueue(r) ==
  /\ running = 0 /\ r \notin Queued
  /\ queue' = Append(queue, r)
  /\ UNCHANGED running

Dispatch ==
  /\ running = 0 /\ queue # << >>
  /\ running' = queue[1]
  /\ UNCHANGED queue

Pass(i) ==
  /\ running = queue[i]
  /\ running' = After(i)
  /\ UNCHANGED queue

Leave(i) ==
  /\ running = queue[i]
  /\ running' = After(i)
  /\ queue' = SubSeq(queue, 1, i - 1) \o SubSeq(queue, i + 1, Len(queue))

Next ==
  \/ \E r \in Routines : Enqueue(r)
  \/ Dispatch
  \/ \E i \in DOMAIN queue : Pass(i) \/ Leave(i)

Spec == Init /\ [][Next]_vars
=============================================================================
