\* Is there a lookup that does not return?
CONSTANTS
  Characters <- MCCharacters
  Strings <- MCStrings
  Queries <- MCQueries
  Data = {d1}
  Null = Null
  Crash = Crash
SPECIFICATION Spec
INVARIANT LookupReturns
CHECK_DEADLOCK FALSE
