-------------------------------- MODULE DSLR --------------------------------
(***************************************************************************)
(* The DSLR lock manager (src/src/rtx/dslr.h, .cc), an alternative to      *)
(* compare-and-swap for the lock word of a record: a bakery of tickets     *)
(* taken with RDMA fetch-and-add.  The word has four lanes, the next       *)
(* exclusive and shared ticket to be served (nx, ns) and the next to be    *)
(* given out (maxx, maxs).  Before a lane runs full the holder of its last *)
(* ticket sets the word back to zero.                                      *)
(*                                                                         *)
(* One record, and one request at a time of every coroutine.  A step is    *)
(* one access to the word with the local decisions that follow it.         *)
(***************************************************************************)
EXTENDS Integers, FiniteSets

CONSTANTS
  Cors,       \* coroutines
  Modes,      \* the modes that are asked for
  COUNT_MAX,  \* tickets of a lane between two resets
  Lane,       \* values of a lane: 65536
  MaxTries    \* bound: calls of acquireLock in a run

\* There are fewer coroutines than tickets in the upper part of a lane.
ASSUME DSLRAssumption ==
  /\ IsFiniteSet(Cors)
  /\ Modes \subseteq {"SHARED", "EXCLUSIVE"}
  /\ COUNT_MAX \in Nat \ {0}
  /\ Lane \in Nat /\ COUNT_MAX + Cardinality(Cors) < Lane
  /\ MaxTries \in Nat

VARIABLES
  word,       \* the lock word
  pc,         \* pc[c]: what the coroutine does with the lock
  mode,       \* mode[c]: l.mode
  prev,       \* prev[c]: prev_lock, the word its ticket was taken from
  resetFrom,  \* resetFrom[c]: l.resetFrom, the word it has to set to zero
  last,       \* last[c]: last_lock
  tries,      \* calls of acquireLock so far
  leaked,     \* tickets by mode that will never be given back
  forced      \* the word was overwritten by a reset after a timeout

vars == << word, pc, mode, prev, resetFrom, last, tries, leaked, forced >>
-----------------------------------------------------------------------------
\* ENCODE_DSLR_LOCK_CONTENT and the DECODE_ macros.
Encode(nx, ns, maxx, maxs) == ((nx * Lane + ns) * Lane + maxx) * Lane + maxs
NX(w)   == w \div (Lane * Lane * Lane)
NS(w)   == (w \div (Lane * Lane)) % Lane
MAXX(w) == (w \div Lane) % Lane
MAXS(w) == w % Lane

\* set_lock_meta: the value is shifted to its lane; -1 is all the bits from
\* the lane up.
Unit(segment) ==
  CASE segment = "NX"   -> Encode(1, 0, 0, 0)
    [] segment = "NS"   -> Encode(0, 1, 0, 0)
    [] segment = "MAXX" -> Encode(0, 0, 1, 0)
    [] segment = "MAXS" -> Encode(0, 0, 0, 1)

FetchAdd(segment, val) ==
  word' = (word + val * Unit(segment)) % (Lane * Lane * Lane * Lane)

MaxOf(m)  == IF m = "SHARED" THEN "MAXS" ELSE "MAXX"
NextOf(m) == IF m = "SHARED" THEN "NS" ELSE "NX"

Init ==
  /\ word = 0
  /\ pc = [c \in Cors |-> "idle"]
  /\ mode \in [Cors -> Modes]
  /\ prev = [c \in Cors |-> 0]
  /\ resetFrom = [c \in Cors |-> 0]
  /\ last = [c \in Cors |-> 0]
  /\ tries = 0
  /\ leaked = [m \in {"SHARED", "EXCLUSIVE"} |-> 0]
  /\ forced = FALSE

Goto(c, label) == pc' = [pc EXCEPT ![c] = label]
-----------------------------------------------------------------------------
\* No tickets are left until the word is reset.
Full(w) == MAXS(w) >= COUNT_MAX \/ MAXX(w) >= COUNT_MAX

\* Faulty variant: an exclusive ticket does not wait for the readers.
ServedBeforeReaders(m, ticket, w) == MAXX(ticket) = NX(w)

\* The ticket is next: everyone it waits for has given his ticket back.
Served(m, ticket, w) ==
  /\ MAXX(ticket) = NX(w)
  /\ m = "EXCLUSIVE" => MAXS(ticket) = NS(w)

\* The last ticket of a lane: the word once all tickets are given back.
ResetDuty(m, w) ==
  CASE m = "SHARED" /\ MAXS(w) = COUNT_MAX - 1
         -> Encode(MAXX(w), COUNT_MAX, MAXX(w), COUNT_MAX)
    [] m = "EXCLUSIVE" /\ MAXX(w) = COUNT_MAX - 1
         -> Encode(COUNT_MAX, MAXS(w), COUNT_MAX, MAXS(w))
    [] OTHER -> 0

\* acquireLock: the fetch-and-add takes the ticket.
TakeTicket(c) ==
  /\ pc[c] = "idle" /\ tries < MaxTries
  /\ tries' = tries + 1
  /\ \E m \in Modes :
       /\ mode' = [mode EXCEPT ![c] = m]
       /\ FetchAdd(MaxOf(m), 1)
       /\ IF Full(word)
          THEN Goto(c, "revert") /\ resetFrom' = [resetFrom EXCEPT ![c] = 0]
          ELSE /\ resetFrom' = [resetFrom EXCEPT ![c] = ResetDuty(m, word)]
               /\ Goto(c, IF Served(m, word, word) THEN "held" ELSE "wait")
  /\ prev' = [prev EXCEPT ![c] = word]
  /\ UNCHANGED << last, leaked, forced >>

\* handleConflict reads the word until the ticket is next.
Poll(c) ==
  /\ pc[c] = "wait" /\ Served(mode[c], prev[c], word)
  /\ ~(MAXX(prev[c]) < NX(word) \/ MAXS(prev[c]) < NS(word))
  /\ Goto(c, "held")
  /\ UNCHANGED << word, mode, prev, resetFrom, last, tries, leaked, forced >>

PollAgain(c) ==
  /\ pc[c] = "wait" /\ ~Served(mode[c], prev[c], word)
  /\ ~(MAXX(prev[c]) < NX(word) \/ MAXS(prev[c]) < NS(word))
  /\ UNCHANGED vars

\* A later ticket has been given back: the request fails and its ticket stays.
PollPassed(c) ==
  /\ pc[c] = "wait"
  /\ MAXX(prev[c]) < NX(word) \/ MAXS(prev[c]) < NS(word)
  /\ Goto(c, "idle")
  /\ last' = [last EXCEPT ![c] = prev[c]]
  /\ leaked' = [leaked EXCEPT ![mode[c]] = @ + 1]
  /\ UNCHANGED << word, mode, prev, resetFrom, tries, forced >>

\* Faulty variant: the ticket that was too many is kept.
RevertForgotten(c) ==
  /\ pc[c] = "revert"
  /\ Goto(c, IF mode[c] = "SHARED" THEN "backoff" ELSE "idle")
  /\ UNCHANGED << word, mode, prev, resetFrom, last, tries, leaked, forced >>

\* Faulty variant: both modes take the ticket back from the shared lane.
RevertShared(c) ==
  /\ pc[c] = "revert"
  /\ FetchAdd("MAXS", -1)
  /\ Goto(c, IF mode[c] = "SHARED" THEN "backoff" ELSE "idle")
  /\ UNCHANGED << mode, prev, resetFrom, last, tries, leaked, forced >>

\* A ticket that was too many is taken back.  An exclusive request fails with
\* that, a shared one backs off first.
Revert(c) ==
  /\ pc[c] = "revert"
  /\ FetchAdd(MaxOf(mode[c]), -1)
  /\ Goto(c, IF mode[c] = "SHARED" THEN "backoff" ELSE "idle")
  /\ UNCHANGED << mode, prev, resetFrom, last, tries, leaked, forced >>

BackoffOver(c) ==
  /\ pc[c] = "backoff"
  /\ Goto(c, "idle")
  /\ last' = [last EXCEPT ![c] = prev[c]]
  /\ UNCHANGED << word, mode, prev, resetFrom, tries, leaked, forced >>

\* If nothing has been given back since the last failure, and that was more
\* than two leases ago, the holders are taken to be gone: reset() puts a word
\* in place that counts every ticket as given back.  (The guard is in
\* acquireLock.  last_lock is one variable of the coroutine for all records; a
\* failure at another record in between is not modelled, so the guard holds
\* less often here than in the code.)
ForceReset(c) ==
  /\ pc[c] = "backoff"
  /\ NX(prev[c]) = NX(last[c]) /\ NS(prev[c]) = NS(last[c])
  /\ IF word = prev[c]
     THEN /\ word' = Encode(MAXX(word), MAXS(word) + 1, MAXX(word), MAXS(word))
          /\ forced' = TRUE
     ELSE UNCHANGED << word, forced >>
  /\ Goto(c, "idle")
  /\ last' = [last EXCEPT ![c] = prev[c]]
  /\ UNCHANGED << mode, prev, resetFrom, tries, leaked >>
-----------------------------------------------------------------------------
\* releaseLock within the lease, or with a reset to do.
Release(c) ==
  /\ pc[c] = "held"
  /\ FetchAdd(NextOf(mode[c]), 1)
  /\ Goto(c, IF resetFrom[c] > 0 THEN "reset" ELSE "idle")
  /\ UNCHANGED << mode, prev, resetFrom, last, tries, leaked, forced >>

\* releaseLock after the lease has run out leaves the word alone.
Expire(c) ==
  /\ pc[c] = "held" /\ resetFrom[c] = 0
  /\ Goto(c, "idle")
  /\ leaked' = [leaked EXCEPT ![mode[c]] = @ + 1]
  /\ UNCHANGED << word, mode, prev, resetFrom, last, tries, forced >>

\* Faulty variant: the word is set to zero whatever it is.
ResetBlindly(c) ==
  /\ pc[c] = "reset"
  /\ word' = 0
  /\ resetFrom' = [resetFrom EXCEPT ![c] = 0]
  /\ Goto(c, "idle")
  /\ UNCHANGED << mode, prev, last, tries, leaked, forced >>

\* The compare-and-swap loop of the reset.
Reset(c) ==
  /\ pc[c] = "reset" /\ word = resetFrom[c]
  /\ word' = 0
  /\ resetFrom' = [resetFrom EXCEPT ![c] = 0]
  /\ Goto(c, "idle")
  /\ UNCHANGED << mode, prev, last, tries, leaked, forced >>

ResetAgain(c) ==
  /\ pc[c] = "reset" /\ word # resetFrom[c]
  /\ UNCHANGED vars

Step(c) ==
  \/ Poll(c) \/ PollAgain(c) \/ PollPassed(c)
  \/ Revert(c) \/ BackoffOver(c) \/ ForceReset(c)
  \/ Release(c) \/ Expire(c) \/ Reset(c) \/ ResetAgain(c)

\* The bound on the calls is reached and all of them are over.
Exhausted ==
  /\ \A c \in Cors : pc[c] = "idle"
  /\ tries = MaxTries
  /\ UNCHANGED vars

Next == (\E c \in Cors : TakeTicket(c) \/ Step(c)) \/ Exhausted

Spec == Init /\ [][Next]_vars

\* A coroutine that has work is scheduled again and its requests complete.
FairSpec == Spec /\ \A c \in Cors : WF_vars(Step(c))
-----------------------------------------------------------------------------
\* Types; the two lanes that give out tickets never run into the next one,
\* though every refused request adds to them before it takes that back.
TypeOK ==
  /\ word \in 0 .. Lane * Lane * Lane * Lane - 1
  /\ MAXX(word) <= COUNT_MAX + Cardinality(Cors)
  /\ MAXS(word) <= COUNT_MAX + Cardinality(Cors)
  /\ pc \in [Cors -> {"idle", "held", "wait", "revert", "backoff", "reset"}]
  /\ mode \in [Cors -> Modes]
  /\ prev \in [Cors -> Nat] /\ resetFrom \in [Cors -> Nat] /\ last \in [Cors -> Nat]
  /\ leaked \in [{"SHARED", "EXCLUSIVE"} -> Nat]

\* An exclusive holder is alone, through leases that run out, requests that
\* give up and resets of the word.
Exclusion ==
  \A c, d \in Cors :
    c # d /\ pc[c] = "held" /\ pc[d] = "held" => mode[c] = "SHARED" /\ mode[d] = "SHARED"

\* The tickets of a mode that somebody has in hand.
InHand(m) == { c \in Cors : pc[c] \in {"held", "wait", "revert"} /\ mode[c] = m }

\* The lanes count the tickets: what has been given out and not given back is
\* in somebody's hand or lost.  A reset to zero while a ticket is out, or a
\* revert that misses its lane, breaks the count for good.
TicketsCounted ==
  forced \/
    /\ MAXX(word) - NX(word) = Cardinality(InHand("EXCLUSIVE")) + leaked["EXCLUSIVE"]
    /\ MAXS(word) - NS(word) = Cardinality(InHand("SHARED")) + leaked["SHARED"]

\* As long as no ticket is lost every call returns, across resets too.
EveryCallReturns ==
  \A c \in Cors : pc[c] # "idle" ~>
    (pc[c] = "idle" \/ forced \/ leaked["SHARED"] + leaked["EXCLUSIVE"] > 0)
=============================================================================
