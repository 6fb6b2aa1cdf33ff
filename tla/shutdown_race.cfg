\* One connection, one worker, sends that succeed, and stop_server.
CONSTANTS
  Conns = {c1}
  Workers = {w1}
  Flaky = {}
  Impatient = {}
  Msgs = {"term"}
  WallSizes = {}
  NoConn = NoConn
  Server = Server
SPECIFICATION Spec
INVARIANT NoUseAfterFree
CHECK_DEADLOCK FALSE
