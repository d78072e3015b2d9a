\* Two coroutines and a one-shot routine: three routines on the list, two
\* requests of either kind outstanding at once.
CONSTANTS
  N = 2
  M = 1
  MaxOps = 2
SPECIFICATION FairSpec
INVARIANTS TypeOK OffListWhileWaiting ActiveRuns
PROPERTIES ImplementsQueue EveryCoroutineRuns
