\* Six strings with two values and every prefix looked up; a tree of up to
\* six systems; a list of up to four pointers, two of them equally far.
CONSTANTS
  Characters <- MCCharacters
  Strings <- MCStrings
  Queries <- MCQueries
  Data = {d1, d2}
  Null = Null
  Crash = Crash
  NULL = Null
  Keys = {1, 2, 3, 4, 5, 6}
  Cells = {1, 2, 3, 4}
  ListHead = ListHead
  Pointers = {0, 2, 3, 4}
  Origin = 0
SPECIFICATION MCSpec
INVARIANTS
  NoGarbage
  TreeBalanced
PROPERTIES
  AsDictionary
  AsOrderedSet
  AsSequence
CHECK_DEADLOCK FALSE
