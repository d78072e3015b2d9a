----------------------------- MODULE Scheduler -----------------------------
(***************************************************************************)
(* The cooperative scheduler of one worker thread: the routine list        *)
(* (core/routine.h, routine.cc), the master routine and its event loop     *)
(* (core/rworker.h, rworker.cc), the yields (core/rworker_yield_impl.hpp), *)
(* the reply counters of RRpc (core/rrpc.h, rrpc.cc) and the completion    *)
(* counters of RScheduler (core/rdma_sched.h, rdma_sched.cc).              *)
(*                                                                         *)
(* Routine 0 is the master and the list's header.  Routines 1 .. N are the *)
(* worker coroutines, N + 1 .. N + M the one-shot routines that serve      *)
(* Y_REQ requests.  The list is intrusive: next_ and prev_ of a routine    *)
(* that is off the list are stale.  Only one routine runs at a time and    *)
(* only the master polls, so a step here is what happens between two       *)
(* context switches or at one polled event.  The master's loop handles     *)
(* replies, completions and timers in any order, which includes the order  *)
(* of events_handler.  The network (external) answers each request once.   *)
(***************************************************************************)
EXTENDS Integers, Sequences

CONSTANTS N,       \* worker coroutines
          M,       \* one-shot routines in ro_pool, 512 in the code
          MaxOps   \* bound: outstanding replies, and verbs, of a coroutine

ASSUME SchedulerAssumption ==
  N \in Nat \ {0} /\ M \in Nat /\ MaxOps \in Nat \ {0}

Master == 0
Cors == 1 .. N
Shots == N + 1 .. N + M
Routines == 0 .. N + M

VARIABLES
  next,     \* next_ of every routine
  prev,     \* prev_ of every routine
  tailer,   \* routine_tailer
  active,   \* active_
  current,  \* routine_meta_: the routine that runs
  replies,  \* reply_counts_[c]: replies still to come
  verbs,    \* pending_counts_[c]: RDMA completions still to come
  timer,    \* timer[c]: time_start_ # 0
  pool      \* ro_pool: free one-shot routines

list == << next, prev, tailer >>
waits == << replies, verbs, timer >>
vars == << next, prev, tailer, active, current, replies, verbs, timer, pool >>

\* thread_local_init chains the coroutines in the order of their ids.
Init ==
  /\ next = [r \in Routines |-> IF r < N THEN r + 1 ELSE Master]
  /\ prev = [r \in Routines |-> IF r \in Cors THEN r - 1 ELSE Master]
  /\ tailer = N
  /\ active = [r \in Routines |-> FALSE]
  /\ current = Master
  /\ replies = [c \in Cors |-> 0]
  /\ verbs = [c \in Cors |-> 0]
  /\ timer = [c \in Cors |-> FALSE]
  /\ pool = Shots
-----------------------------------------------------------------------------
\* add_to_routine_list: append, unless the routine is marked active.
AddToRoutineList(r) ==
  IF active[r]
  THEN UNCHANGED list
  ELSE /\ next' = [next EXCEPT ![tailer] = r, ![r] = Master]
       /\ prev' = [prev EXCEPT ![r] = tailer]
       /\ tailer' = r

\* yield_to marks the routine active and switches to it.
YieldTo(r, act) ==
  /\ active' = [act EXCEPT ![r] = TRUE]
  /\ current' = r

\* yield_from_routine_list: unlink the routine and run its successor.
YieldFromRoutineList(r) ==
  /\ next' = [next EXCEPT ![prev[r]] = next[r]]
  /\ prev' = [prev EXCEPT ![next[r]] = prev[r]]
  /\ tailer' = IF tailer = r THEN prev[r] ELSE tailer
  /\ YieldTo(next[r], [active EXCEPT ![r] = FALSE])

\* Nothing is outstanding: the test of indirect_yield.
Idle(c) == replies[c] = 0 /\ verbs[c] = 0
-----------------------------------------------------------------------------
\* prepare_multi_req and the requests behind it: n replies will come.
SendRequests(c, n) ==
  /\ current = c
  /\ replies[c] + n <= MaxOps
  /\ replies' = [replies EXCEPT ![c] = @ + n]
  /\ UNCHANGED << list, active, current, verbs, timer, pool >>

\* post_send, post_cas or post_batch with a signalled request: add_pending.
PostVerb(c) ==
  /\ current = c
  /\ verbs[c] < MaxOps
  /\ verbs' = [verbs EXCEPT ![c] = @ + 1]
  /\ UNCHANGED << list, active, current, replies, timer, pool >>

\* indirect_yield: the coroutine leaves the list until all has come back.
\* (It returns at once when nothing is outstanding.)
IndirectYield(c) ==
  /\ current = c /\ ~Idle(c)
  /\ YieldFromRoutineList(c)
  /\ UNCHANGED << waits, pool >>

\* Faulty variant: time_start_ is not set.
IndirectYieldTimeoutUnset(c) ==
  /\ current = c /\ Idle(c)
  /\ YieldFromRoutineList(c)
  /\ UNCHANGED << waits, pool >>

\* indirect_yield_timeout: off the list until a timer expires.  The lock
\* manager of DSLR backs off so, after it has waited for its verbs.  (Idle is
\* what this caller, the only one, guarantees; the function does not test it.)
IndirectYieldTimeout(c) ==
  /\ current = c /\ Idle(c)
  /\ YieldFromRoutineList(c)
  /\ timer' = [timer EXCEPT ![c] = TRUE]
  /\ UNCHANGED << replies, verbs, pool >>

\* Faulty variant: the coroutine does not wait for its requests first.
YieldNextAnyTime(c) ==
  /\ current = c
  /\ YieldTo(next[c], [active EXCEPT ![c] = FALSE])
  /\ UNCHANGED << list, waits, pool >>

\* Faulty variant: the routine that hands over stays marked active.
YieldNextStillActive(c) ==
  /\ current = c /\ Idle(c)
  /\ YieldTo(next[c], active)
  /\ UNCHANGED << list, waits, pool >>

\* yield_next: hand over and keep the place in the list.  The workers do so
\* between transactions and the lock loops between attempts, each after an
\* indirect_yield has collected everything.  (Idle is this discipline of the
\* callers: yield_next does not test it, and without it a poller would append
\* a routine that is on the list.)
YieldNext(c) ==
  /\ current = c /\ Idle(c)
  /\ YieldTo(next[c], [active EXCEPT ![c] = FALSE])
  /\ UNCHANGED << list, waits, pool >>

\* one_shot_func: the callback has run; back to the pool and off the list.
\* (A callback is handed the yield too; all of the pool have the master's id 0,
\* so none could be woken by what it waits for, and the callback is taken to
\* run to its end in one turn.)
OneShotDone(s) ==
  /\ current = s
  /\ pool' = pool \cup {s}
  /\ YieldFromRoutineList(s)
  /\ UNCHANGED waits
-----------------------------------------------------------------------------
\* Faulty variant: a reply that is not required is counted all the same.
PollReplyUnasked(c) ==
  /\ current = Master
  /\ replies' = [replies EXCEPT ![c] = @ - 1]
  /\ IF replies[c] = 1 /\ verbs[c] = 0
     THEN AddToRoutineList(c)
     ELSE UNCHANGED list
  /\ UNCHANGED << active, current, verbs, timer, pool >>

\* Faulty variant: the completions still to come are not looked at.
PollReplyAlone(c) ==
  /\ current = Master /\ replies[c] > 0
  /\ replies' = [replies EXCEPT ![c] = @ - 1]
  /\ IF replies[c] = 1 THEN AddToRoutineList(c) ELSE UNCHANGED list
  /\ UNCHANGED << active, current, verbs, timer, pool >>

\* poll_comp_callback with a REPLY.
PollReply(c) ==
  /\ current = Master /\ replies[c] > 0
  /\ replies' = [replies EXCEPT ![c] = @ - 1]
  /\ IF replies[c] = 1 /\ verbs[c] = 0
     THEN AddToRoutineList(c)
     ELSE UNCHANGED list
  /\ UNCHANGED << active, current, verbs, timer, pool >>

\* RScheduler::poll_comps takes one completion off a queue pair.
PollCompletion(c) ==
  /\ current = Master /\ verbs[c] > 0
  /\ verbs' = [verbs EXCEPT ![c] = @ - 1]
  /\ IF verbs[c] = 1 /\ replies[c] = 0
     THEN AddToRoutineList(c)
     ELSE UNCHANGED list
  /\ UNCHANGED << active, current, replies, timer, pool >>

\* The timer part of events_handler.
PollTimer(c) ==
  /\ current = Master
  /\ ~active[c] /\ timer[c]
  /\ AddToRoutineList(c)
  /\ timer' = [timer EXCEPT ![c] = FALSE]
  /\ UNCHANGED << active, current, replies, verbs, pool >>

\* poll_comp_callback with a Y_REQ: add_one_shot_routine, which asserts that
\* the pool is not empty.
PollOneShot(s) ==
  /\ current = Master /\ s \in pool
  /\ pool' = pool \ {s}
  /\ AddToRoutineList(s)
  /\ UNCHANGED << active, current, waits >>

\* new_master_routine runs the first routine of the list.
Dispatch ==
  /\ current = Master
  /\ next[Master] # Master
  /\ YieldTo(next[Master], active)
  /\ UNCHANGED << list, waits, pool >>
-----------------------------------------------------------------------------
\* What a running coroutine may do before it hands over, and handing over.
Run(c) ==
  \/ \E n \in 1 .. MaxOps : SendRequests(c, n)
  \/ PostVerb(c)
  \/ IndirectYield(c) \/ IndirectYieldTimeout(c) \/ YieldNext(c)

Poll(c) == PollReply(c) \/ PollCompletion(c) \/ PollTimer(c)

Next ==
  \/ \E c \in Cors : Run(c) \/ Poll(c)
  \/ \E s \in Shots : PollOneShot(s) \/ OneShotDone(s)
  \/ Dispatch

Spec == Init /\ [][Next]_vars

\* A coroutine that runs goes on running and the master goes on looping.
\* Every answer arrives in the end, and every pass of the master polls all
\* the queues before it dispatches: an event that keeps being there when the
\* master runs is taken.
FairSpec ==
  /\ Spec
  /\ WF_vars(Dispatch)
  /\ \A c \in Cors : WF_vars(Run(c)) /\ SF_vars(Poll(c))
  /\ \A s \in Shots : WF_vars(OneShotDone(s))
-----------------------------------------------------------------------------
\* Every variable has its type.
TypeOK ==
  /\ next \in [Routines -> Routines]
  /\ prev \in [Routines -> Routines]
  /\ tailer \in Routines
  /\ active \in [Routines -> BOOLEAN]
  /\ current \in Routines
  /\ replies \in [Cors -> 0 .. MaxOps]
  /\ verbs \in [Cors -> 0 .. MaxOps]
  /\ timer \in [Cors -> BOOLEAN]
  /\ pool \subseteq Shots

\* The routines met by following next_ from the header, until it comes back.
Walk[i \in 0 .. N + M + 1] == IF i = 0 THEN Master ELSE next[Walk[i - 1]]

Length ==
  CHOOSE n \in 0 .. N + M + 1 :
    /\ n <= N + M => Walk[n + 1] = Master
    /\ \A i \in 1 .. n : Walk[i] # Master

Chain == [i \in 1 .. Length |-> Walk[i]]

Listed == { Chain[i] : i \in DOMAIN Chain }

\* A coroutine is off the list exactly while something it waits for will put
\* it back: replies, completions, or a timer.  So no wake-up is lost, none
\* comes twice ("avoid the chain from being added twice", rrpc.cc:83), and a
\* coroutine that runs again after indirect_yield has everything it asked for.
OffListWhileWaiting ==
  \A c \in Cors : c \in Listed <=> c = current \/ (Idle(c) /\ ~timer[c])

\* yield_from_routine_list asserts active_ (routine.h:69): the routine that
\* runs is marked active, and among the others only the master can be.
ActiveRuns ==
  \A r \in Routines \ {Master} : active[r] <=> r = current

\* The pointers implement a queue: no routine is lost, listed twice or
\* overtaken, whichever event relinks them.
Queue == INSTANCE RunQueue WITH
           Routines <- Routines \ {Master}, queue <- Chain, running <- current

ImplementsQueue == Queue!Spec

\* Every coroutine gets to run again and again: none starves behind the
\* others, and none sleeps for ever.
EveryCoroutineRuns == \A c \in Cors : []<>(current = c)
=============================================================================
