SPECIFICATION Spec
CONSTANTS
  Threads = {th1, th2}
  Txs = {t1}
  Conns = {c1, c2}
  Handles = {h1, h2}
  NoTx = NoTx
  NoConn = NoConn
  NoThread = NoThread
  NoHandle = NoHandle
  Capacity = 2
  Variants = {TRUE, FALSE}
  SharedTx = TRUE
  InOrder = FALSE
  Recycles = FALSE
  AsyncTimeout = TRUE
CHECK_DEADLOCK FALSE
SYMMETRY Symmetry
INVARIANTS StaleOnlyAfterFailure OneBranch
