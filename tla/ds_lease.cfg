SPECIFICATION FairSpec
CONSTANTS
  Threads = {th1, th2}
  Txs = {t1, t2}
  Conns = {c1, c2}
  Handles = {h1, h2}
  NoTx = NoTx
  NoConn = NoConn
  NoThread = NoThread
  NoHandle = NoHandle
  Capacity = 2
  Variants = {TRUE, FALSE}
  SharedTx = FALSE
  InOrder = FALSE
  Recycles = FALSE
  AsyncTimeout = FALSE
CHECK_DEADLOCK FALSE
PROPERTIES LeaseSpec Settled
CONSTRAINT Attended
