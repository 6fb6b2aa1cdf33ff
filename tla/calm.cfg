\* Two connections, three workers, no console messages, and sends that
\* may fail on either connection.
CONSTANTS
  Conns = {c1, c2}
  Workers = {w1, w2, w3}
  Flaky = {c1, c2}
  Impatient = {}
  Msgs = {}
  WallSizes = {}
  NoConn = NoConn
  Server = Server
SPECIFICATION FairSpec
INVARIANTS
  OneRunner
  NoUseAfterFree
  NoLostWakeup
PROPERTIES
  QueueDrains
  AsSessions
