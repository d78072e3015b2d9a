SPECIFICATION Spec
CONSTANTS
  Keys <- MCKeys
  M = 4
  NENT = 3
  Loads <- MCLoads
  Asked <- MCAsked
  MaxInserts = 3
INVARIANTS TypeOK ListMatchesTree
PROPERTIES ActsAsOrderedSet
