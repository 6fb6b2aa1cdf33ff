\* One wall of the console, and a signal from outside while main() waits.
CONSTANTS
  WallSizes = {2, 6, 9}
  MaxMessages = 1
  Signals = {"waiting"}
SPECIFICATION Spec
INVARIANT TermHonoured
CHECK_DEADLOCK FALSE
