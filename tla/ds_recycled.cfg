SPECIFICATION Spec
CONSTANTS
  Threads = {th1, th2}
  Txs = {t1, t2}
  Conns = {c1, c2}
  Handles = {h1, h2, h3}
  NoTx = NoTx
  NoConn = NoConn
  NoThread = NoThread
  NoHandle = NoHandle
  Capacity = 2
  Variants = {FALSE}
  SharedTx = FALSE
  InOrder = FALSE
  Recycles = TRUE
  AsyncTimeout = FALSE
CHECK_DEADLOCK FALSE
SYMMETRY SymmetryRecycled
INVARIANTS SameConnection NoSilentLeak 
PROPERTIES KeepsConnection
CONSTRAINTS Unmarked Attended
