\* Two messages of the console; signals from outside until main() waits for
\* one, that of the console's "quit" then.  The program ends: no deadlock check.
CONSTANTS
  WallSizes = {2, 6, 9}
  MaxMessages = 2
  Signals = {"startServer", "startConsole", "mask", "stopServer"}
SPECIFICATION FairSpec
INVARIANTS
  TermHonoured
  NoLateWrite
  CleanupAlone
  NoSleepAfterStop
PROPERTY QuitEnds
CHECK_DEADLOCK FALSE
