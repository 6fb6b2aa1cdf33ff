\* A polite client, two workers, one wall or pause; writes may fail.  The
\* client may fall silent: no deadlock check.
CONSTANTS
  Chars = {"x", "y", "w", ">"}
  MinSize = 1
  MaxSize = 3
  Lines <- MCLines
  Eols <- MCEols
  MaxLines = 3
  Outputs <- MCOutputs
  PromptChar = ">"
  Notice <- MCNotice
  MaxNotices = 1
  Flaky = TRUE
  Workers = {w1, w2}
  Loop = loop
SPECIFICATION FairSpec
INVARIANTS
  LineIntact
  SendErrorsReal
  OutputWhole
PROPERTIES
  LineRuns
CHECK_DEADLOCK FALSE
