\* One impatient connection, three workers, every message of the console and
\* of stop_server;
\* sends may fail.  The server stops for good: no deadlock check.
CONSTANTS
  Conns = {c1}
  Workers = {w1, w2, w3}
  Flaky = {c1}
  Impatient = {c1}
  Msgs = {"pause", "cont", "wall", "term"}
  WallSizes = {3, 6}
  NoConn = NoConn
  Server = Server
SPECIFICATION FairSpec
INVARIANTS
  NoUseAfterQuit
PROPERTIES
  ShutdownCompletes
CHECK_DEADLOCK FALSE
