------------------- MODULE TransactionAwareDSSharedProofs -------------------
(***************************************************************************)
(* Theorems about TransactionAwareDS that hold in every environment: the   *)
(* manager may roll back in a thread of its own, and several threads may   *)
(* work in one transaction.  What keeps them apart there is                *)
(* transaction.synchronized, so the argument starts from who is inside it. *)
(***************************************************************************)
EXTENDS TransactionAwareDSLeaseProofs

(* The statements inside transaction.synchronized: the search is among them  *)
(* in the authenticated variant only.                                       *)
Inside(th) ==
  \/ pc[th] \in {"recheck", "wrap"} \cup Registering
  \/ frame[th].auth /\ frame[th].tx # NoTx /\ pc[th] \in Searching

(* The monitor of a transaction is held by the thread inside it.             *)
MonitorInv ==
  \A t \in Txs, th \in Threads : monitor[t] = th <=> Inside(th) /\ frame[th].tx = t

(* A call outside any transaction has no transaction, and a wrapper has one.  *)
UserTx ==
  /\ \A h \in Handles : ~Ended(h) => handle[h].tx = NoTx
  /\ \A th \in Threads : pc[th] \in Closing \cup Demarcating => handle[frame[th].h].tx \in Txs

(* A transaction that was asked to enlist a connection has a context, so a     *)
(* thread of the plain variant about to register one finds neither.          *)
BranchAt(th) ==
  LET t == frame[th].tx IN
  /\ pc[th] \in {"putConn", "enlist"} /\ status[t] = "active" => transactionMemory[t] # NoConn
  /\ ~frame[th].auth =>
       /\ pc[th] \in {"putTx", "putConn", "enlist"} /\ status[t] = "active" => asked[t] = {}
       /\ pc[th] = "putTx" /\ IsActive(t) => transactionMemory[t] = NoConn

BranchInv ==
  /\ \A t \in Txs : status[t] \in {"none", "active"} /\ transactionMemory[t] = NoConn => asked[t] = {}
  /\ \A th \in Threads : BranchAt(th)

(* A transaction enlists only what it was asked to enlist.                   *)
JoinedInv == \A t \in Txs : enlisted[t] \subseteq asked[t]

(* Who answers for an entry of transactionMemory: the thread that has put it   *)
(* and not yet registered the callback, the callback, or the call that failed  *)
(* in between.                                                              *)
Kept(t, c) ==
  \/ \E th \in Threads :
       pc[th] \in {"putConn", "enlist", "hook"} /\ frame[th].tx = t /\ frame[th].conn = c
  \/ c \in terminations[t]
  \/ \E h \in Handles : handle[h].state = "failed" /\ handle[h].tx = NoTx /\ handle[h].conn = c

StaleInv == \A t \in Txs, c \in Conns : transactionMemory[t] = c => Kept(t, c)

SharedInv ==
  /\ Begun /\ MonitorInv /\ UserTx /\ BranchInv /\ JoinedInv /\ StaleInv
  /\ \A th \in Threads : EvictsOverAt(th)

Alone == TypeInv /\ LeakInv /\ SharedInv

-----------------------------------------------------------------------------
(* What a step of getConnection does *)

\* The two maps and the manager.
Records(th) ==
  LET c == frame[th].conn  t == frame[th].tx IN
  /\ UNCHANGED <<status, assoc, closings, forgetting>>
  /\ \A u \in Txs : transactionMemory'[u] # transactionMemory[u] =>
       \/ pc[th] = "evictTx" /\ u = frame[th].seen /\ transactionMemory'[u] = NoConn
       \/ pc[th] = "putTx" /\ u = t /\ transactionMemory'[u] = c
  /\ \A x \in Conns : connectionMemory'[x] # connectionMemory[x] =>
       \/ connectionMemory'[x] = NoTx
       \/ pc[th] = "putConn" /\ x = c /\ connectionMemory'[x] = t
  /\ \A u \in Txs : asked'[u] # asked[u] =>
       pc[th] = "enlist" /\ u = t /\ status[u] = "active" /\ asked'[u] = asked[u] \cup {c}
  /\ \A u \in Txs : asked[u] \subseteq asked'[u] /\ enlisted'[u] \subseteq enlisted[u] \cup asked'[u]
  /\ \A u \in Txs : terminations[u] \subseteq terminations'[u]

LEMMA OpenRecords ==
  ASSUME TypeInv, NEW th \in Threads, OpenStep(th)
  PROVE  Records(th)
<1>1. /\ LocalOK(th) /\ frame[th] \in Frame
      /\ transactionMemory \in [Txs -> Conns \cup {NoConn}]
      /\ connectionMemory \in [Conns -> Txs \cup {NoTx}]
      /\ asked \in [Txs -> SUBSET Conns] /\ enlisted \in [Txs -> SUBSET Conns]
      /\ terminations \in [Txs -> SUBSET Conns]
  BY DEF TypeInv, TypeOK, FrameOK
<1> USE <1>1
<1>2. CASE \/ Lookup(th) \/ Enter(th) \/ Borrow(th) \/ Probe(th) \/ Inspect(th) \/ Judge(th) \/ Swap(th)
           \/ SwapRaises(th) \/ Release(th) \/ Found(th) \/ Recheck(th) \/ Wrap(th)
  BY <1>2 DEF Records, Lookup, Enter, Borrow, Probe, Inspect, Judge, Swap, SwapRaises, Release, Found,
       Recheck, Wrap, tmVars, memVars
<1>3. CASE EvictTx(th)
  BY <1>3 DEF Records, EvictTx, At, tmVars
<1>4. CASE EvictConn(th)
  BY <1>4 DEF Records, EvictConn, tmVars
<1>5. CASE PutTx(th)
  BY <1>5 DEF Records, PutTx, At, tmVars
<1>6. CASE PutConn(th)
  BY <1>6 DEF Records, PutConn, At, tmVars
<1>7. CASE Enlist(th)
  BY <1>7 DEF Records, Enlist, At, memVars
<1>8. CASE Hook(th)
  BY <1>8 DEF Records, Hook, At, memVars
<1>9. QED
  BY <1>2, <1>3, <1>4, <1>5, <1>6, <1>7, <1>8 DEF OpenStep, Advance

\* A call that goes on: it comes into the monitor by entering a free one and stays
\* in it, and what it registers it keeps in hand.
GoesOn(th) ==
  LET c == frame[th].conn  t == frame[th].tx IN
  /\ pc'[th] \in Opening /\ handle' = handle
  /\ frame'[th].tx = t /\ frame'[th].auth = frame[th].auth
  /\ frame'[th].seen \in {frame[th].seen, NoTx} \/ \E x \in Conns : frame'[th].seen = connectionMemory[x]
  /\ pc'[th] = "evictTx" => frame'[th].seen = frame[th].seen /\ ~IsActive(frame[th].seen)
  /\ \/ pc[th] = "enter" /\ monitor[t] = NoThread /\ monitor' = [monitor EXCEPT ![t] = th] /\ Inside(th)'
     \/ monitor' = monitor /\ (Inside(th) <=> Inside(th)')
  /\ pc'[th] = "putTx" => frame[th].auth \/ (pc[th] = "recheck" /\ transactionMemory[t] = NoConn)
  /\ pc'[th] = "putConn" <=> pc[th] = "putTx"
  /\ pc'[th] = "enlist" <=> pc[th] = "putConn"
  /\ pc'[th] = "hook" <=> pc[th] = "enlist"
  /\ pc[th] \in Registering => frame'[th].conn = c
  /\ pc[th] = "hook" => c \in terminations'[t]
  /\ pc[th] = "putTx" => transactionMemory'[t] = c

\* A call that ends, and is out of the monitor: once it has put its connection and
\* before it has registered the callback, only by an exception.
Returns(th, h) ==
  LET c == frame[th].conn  t == frame[th].tx IN
  /\ pc'[th] = "idle" /\ frame'[th] = Blank
  /\ handle'[h].tx \in {handle[h].tx, t}
  /\ handle'[h].state \in {"open", "failed"}
  /\ \/ LeaveMonitor(th)
     \/ monitor' = monitor /\ ~Inside(th)
  /\ pc[th] \notin {"putTx", "putConn"}
  /\ pc[th] \in {"enlist", "hook"} =>
       handle'[h].state = "failed" /\ handle'[h].conn = c /\ handle'[h].tx = handle[h].tx

LEMMA OpenMoves ==
  ASSUME TypeInv, NEW th \in Threads, OpenStep(th), NEW h \in Handles, h = frame[th].h
  PROVE  GoesOn(th) \/ Returns(th, h)
<1>1. /\ LocalOK(th) /\ frame[th] \in Frame
      /\ pc \in [Threads -> Labels] /\ frame \in [Threads -> Frame]
      /\ transactionMemory \in [Txs -> Conns \cup {NoConn}]
      /\ connectionMemory \in [Conns -> Txs \cup {NoTx}]
      /\ terminations \in [Txs -> SUBSET Conns]
  BY DEF TypeInv, TypeOK, FrameOK
<1> USE <1>1, NullsAssumption
<1>2. CASE Lookup(th)
  <2>1. CASE transactionMemory[frame[th].tx] # NoConn
    <3>1. Deliver(th, transactionMemory[frame[th].tx], frame[th].tx) /\ pc[th] = "lookup" /\ monitor' = monitor
      BY <1>2, <2>1 DEF Lookup, At
    <3>2. QED
      BY <3>1, DeliverEffect DEF Returns, Inside, Searching, Registering
  <2>2. CASE transactionMemory[frame[th].tx] = NoConn
    BY <1>2, <2>2 DEF Lookup, GoesOn, Inside, At, Goto, memVars, tmVars, Opening, Searching, Registering
  <2>3. QED
    BY <2>1, <2>2
<1>3. CASE Enter(th)
  BY <1>3 DEF Enter, GoesOn, Inside, At, Goto, LocalOK, memVars, tmVars, Opening, Searching, Registering
<1>4. CASE Borrow(th) \/ Swap(th)
  BY <1>4 DEF Borrow, Swap, GoesOn, Inside, At, Goto, SetFrame, Frame, memVars, tmVars, Opening, Searching, Registering
<1>5. CASE Probe(th) \/ Judge(th)
  BY <1>5 DEF Probe, Judge, GoesOn, Inside, At, Goto, memVars, tmVars, Opening, Searching, Registering
<1>6. CASE Inspect(th)
  <2>1. CASE connectionMemory[frame[th].conn] = NoTx
    <3>1. Raise(th, frame[th].conn) /\ pc[th] = "inspect" /\ LeaveMonitor(th)
      BY <1>6, <2>1 DEF Inspect, At, Raise
    <3>2. QED
      BY <3>1, RaiseEffect DEF Returns
  <2>2. CASE connectionMemory[frame[th].conn] # NoTx
    BY <1>6, <2>2 DEF Inspect, GoesOn, Inside, At, Goto, SetFrame, Frame, LocalOK, memVars, tmVars, Opening, Searching, Registering
  <2>3. QED
    BY <2>1, <2>2
<1>7. CASE EvictTx(th) \/ EvictConn(th)
  BY <1>7 DEF EvictTx, EvictConn, GoesOn, Inside, At, Goto, tmVars, Opening, Searching, Registering
<1>8. CASE Release(th)
  BY <1>8 DEF Release, GoesOn, Inside, At, Goto, SetFrame, Frame, memVars, tmVars, Opening, Searching, Registering
<1>9. CASE Found(th)
  <2>1. CASE frame[th].tx = NoTx
    <3>1. Deliver(th, frame[th].conn, NoTx) /\ pc[th] = "found" /\ monitor' = monitor
      BY <1>9, <2>1 DEF Found, At
    <3>2. QED
      BY <2>1, <3>1, DeliverEffect DEF Returns, Inside, Searching, Registering
  <2>2. CASE frame[th].tx # NoTx
    BY <1>9, <2>2 DEF Found, GoesOn, Inside, At, Goto, memVars, tmVars, Opening, Searching, Registering
  <2>3. QED
    BY <2>1, <2>2
<1>10. CASE Recheck(th)
  BY <1>10 DEF Recheck, GoesOn, Inside, At, Goto, memVars, tmVars, Opening, Searching, Registering
<1>11. CASE PutTx(th) \/ PutConn(th)
  BY <1>11 DEF PutTx, PutConn, GoesOn, Inside, At, Goto, LocalOK, tmVars, Opening, Searching, Registering
<1>12. ASSUME pc[th] \in {"enlist", "hook", "swap"}, Raise(th, frame[th].conn) PROVE Returns(th, h)
  BY <1>12, RaiseEffect DEF Returns, Raise
<1>13. CASE Enlist(th) \/ Hook(th) \/ SwapRaises(th)
  <2>1. pc[th] \in {"enlist", "hook", "swap"}
    BY <1>13 DEF Enlist, Hook, SwapRaises, At
  <2>2. CASE ~Raise(th, frame[th].conn)
    BY <1>13, <2>2 DEF Enlist, Hook, SwapRaises, GoesOn, Inside, At, Goto, LocalOK, memVars, Opening, Searching, Registering
  <2>3. QED
    BY <1>12, <2>1, <2>2
<1>14. CASE Wrap(th)
  <2>1. Deliver(th, frame[th].conn, frame[th].tx) /\ pc[th] = "wrap" /\ LeaveMonitor(th)
    BY <1>14 DEF Wrap, At
  <2>2. QED
    BY <2>1, DeliverEffect DEF Returns
<1>15. QED
  BY <1>2, <1>3, <1>4, <1>5, <1>6, <1>7, <1>8, <1>9, <1>10, <1>11, <1>12, <1>13, <1>14 DEF OpenStep, Advance

\* Two threads are not inside the monitor of one transaction.
LEMMA InsideAlone ==
  ASSUME MonitorInv, NEW th \in Threads, NEW o \in Threads, Inside(th), Inside(o),
         frame[th].tx \in Txs, frame[o].tx = frame[th].tx
  PROVE  th = o
BY DEF MonitorInv

LEMMA InOpening == ASSUME NEW th \in Threads, OpenStep(th) PROVE pc[th] \in Opening
BY DEF OpenStep, Advance, SwapRaises, At, Opening, Searching, Registering, Lookup, Enter, Borrow, Probe, Inspect, Judge,
       EvictTx, EvictConn, Swap, Release, Found, Recheck, PutTx, PutConn, Enlist, Hook, Wrap

\* A step of getConnection keeps what is claimed in every environment.
LEMMA SharedOpen ==
  ASSUME TypeInv, CallOK, SharedInv, NEW th \in Threads, OpenStep(th)
  PROVE  SharedInv'
<1>1. PICK h \in Handles : h = frame[th].h
  BY CallHandle
<1>2. /\ \A o \in Threads \ {th} : pc'[o] = pc[o] /\ frame'[o] = frame[o]
      /\ \A g \in Handles : g # h => handle'[g] = handle[g]
  BY <1>1, Locality
<1>3. Records(th) /\ (GoesOn(th) \/ Returns(th, h))
  BY <1>1, OpenRecords, OpenMoves
<1>4. /\ pc[th] \in Opening /\ handle[h].state = "opening" /\ handle[h].tx = NoTx
      /\ \A o \in Threads : pc[o] \in Closing \cup Demarcating => frame[o].h \in Handles /\ frame[o].h # h
  <2>1. pc[th] \in Opening
    BY InOpening
  <2>2. handle[h].state = "opening" /\ ~Ended(h)
    BY <1>1, <2>1 DEF CallOK, Ended
  <2>3. QED
    BY <2>1, <2>2 DEF SharedInv, UserTx, TypeInv, HandleOK, FrameOK, LocalOK
<1>5. /\ pc \in [Threads -> Labels] /\ frame \in [Threads -> Frame] /\ handle \in [Handles -> Handle]
      /\ monitor \in [Txs -> Threads \cup {NoThread}] /\ status \in [Txs -> Statuses]
      /\ transactionMemory \in [Txs -> Conns \cup {NoConn}]
      /\ connectionMemory \in [Conns -> Txs \cup {NoTx}]
      /\ asked \in [Txs -> SUBSET Conns] /\ terminations \in [Txs -> SUBSET Conns]
      /\ \A o \in Threads : LocalOK(o)
      /\ \A o \in Threads : LocalOK(o)'
      /\ Begun /\ MonitorInv /\ UserTx /\ BranchInv /\ JoinedInv /\ StaleInv
      /\ \A o \in Threads : EvictsOverAt(o)
  <2>1. TypeInv'
    BY ShapeStep DEF Next
  <2>2. QED
    BY <2>1 DEF TypeInv, TypeOK, FrameOK, SharedInv
<1>6. /\ pc[th] = "evictTx" => frame[th].seen \in Txs /\ status[frame[th].seen] \in {"completing", "done"}
      /\ pc[th] \in Registering \cup {"enter", "recheck", "wrap"} => frame[th].tx \in Txs
      /\ frame[th].tx \in Txs \cup {NoTx} /\ frame[th].conn \in Conns \cup {NoConn}
      /\ frame[th].seen \in Txs \cup {NoTx}
      /\ pc[th] \in Registering => frame[th].conn \in Conns
  BY <1>5 DEF LocalOK, EvictsOverAt, Frame, Registering
<1>7. Begun'
  <2>1. \A u \in Txs : status[u] = "none" => transactionMemory'[u] = NoConn
    BY <1>3, <1>5, <1>6, NullsAssumption DEF Records, Begun, Registering
  <2>2. \A u \in Txs : status[u] = "none" => \A c \in Conns : connectionMemory'[c] # u
    BY <1>3, <1>5, <1>6, NullsAssumption DEF Records, Begun, Registering
  <2>3. \A u \in Txs : status[u] = "none" => \A g \in Handles : handle'[g].tx # u
    BY <1>1, <1>2, <1>3, <1>5, <1>6, NullsAssumption DEF GoesOn, Returns, Begun
  <2>4. \A u \in Txs : status[u] = "none" => \A o \in Threads : frame'[o].tx # u /\ frame'[o].seen # u
    BY <1>2, <1>3, <1>5, <1>6, NullsAssumption DEF GoesOn, Returns, Begun, Blank
  <2>5. QED
    BY <1>3, <1>5, <2>1, <2>2, <2>3, <2>4 DEF Records, Begun
<1>8. MonitorInv'
  <2>1. CASE GoesOn(th)
    BY <1>2, <1>5, <1>6, <2>1, NullsAssumption DEF GoesOn, MonitorInv, Inside, Searching, Registering
  <2>2. CASE Returns(th, h)
    <3>1. ~Inside(th)'
      BY <2>2 DEF Returns, Inside, Searching, Registering
    <3>2. \A o \in Threads \ {th} : Inside(o)' <=> Inside(o)
      BY <1>2 DEF Inside
    <3>3. \A u \in Txs : monitor'[u] = IF monitor[u] = th THEN NoThread ELSE monitor[u]
      BY <1>5, <2>2 DEF Returns, LeaveMonitor, MonitorInv
    <3>4. QED
      BY <1>2, <1>5, <3>1, <3>2, <3>3, NullsAssumption DEF MonitorInv
  <2>3. QED
    BY <1>3, <2>1, <2>2
<1>9. UserTx'
  <2>1. \A g \in Handles : ~Ended(g)' => handle'[g].tx = NoTx
    BY <1>2, <1>3, <1>5 DEF UserTx, Ended, GoesOn, Returns
  <2>2. \A o \in Threads : (pc[o] \in Closing \cup Demarcating)' => handle'[frame'[o].h].tx \in Txs
    BY <1>2, <1>3, <1>4, <1>5 DEF UserTx, GoesOn, Returns, Opening, Searching, Registering, Closing, Demarcating
  <2>3. QED
    BY <2>1, <2>2 DEF UserTx
<1>10. BranchInv'
  <2>1. ASSUME NEW u \in Txs, status[u] \in {"none", "active", "marked"}, transactionMemory'[u] = NoConn
        PROVE  transactionMemory[u] = NoConn
    BY <1>3, <1>5, <1>6, <2>1, NullsAssumption DEF Records, Registering
  <2>2. ASSUME NEW u \in Txs, status[u] \in {"none", "active"}, transactionMemory'[u] = NoConn
        PROVE  asked'[u] = {}
    <3>1. transactionMemory[u] = NoConn /\ asked[u] = {}
      BY <1>5, <2>1, <2>2 DEF BranchInv
    <3>2. pc[th] = "enlist" /\ frame[th].tx = u => status[u] # "active"
      BY <1>5, <3>1 DEF BranchInv, BranchAt
    <3>3. QED
      BY <1>3, <3>1, <3>2 DEF Records
  <2>3. BranchAt(th)'
    <3>1. CASE Returns(th, h)
      BY <3>1 DEF BranchAt, Returns
    <3>2. CASE GoesOn(th)
      <4> DEFINE t == frame[th].tx
      <4>1. frame'[th].tx = t /\ frame'[th].auth = frame[th].auth /\ status' = status
        BY <1>3, <3>2 DEF GoesOn, Records
      <4>2. ASSUME pc'[th] \in {"putConn", "enlist"}, status[t] = "active" PROVE transactionMemory'[t] # NoConn
        <5>1. t \in Txs
          BY <1>6, <3>2, <4>2 DEF GoesOn, Registering
        <5>2. CASE pc'[th] = "putConn"
          BY <1>6, <3>2, <5>2, NullsAssumption DEF GoesOn, Registering
        <5>3. CASE pc'[th] = "enlist"
          BY <1>5, <2>1, <3>2, <4>2, <5>1, <5>3 DEF GoesOn, BranchInv, BranchAt
        <5>4. QED
          BY <4>2, <5>2, <5>3
      <4>3. ASSUME ~frame[th].auth, pc'[th] = "putTx", IsActive(t) PROVE transactionMemory'[t] = NoConn
        <5>1. pc[th] = "recheck" /\ transactionMemory[t] = NoConn /\ t \in Txs
          BY <1>6, <3>2, <4>3 DEF GoesOn
        <5>2. QED
          BY <1>3, <5>1 DEF Records
      <4>4. ASSUME ~frame[th].auth, pc'[th] \in {"putTx", "putConn", "enlist"}, status[t] = "active"
            PROVE  asked'[t] = {}
        <5>1. pc[th] \in {"recheck", "putTx", "putConn"} /\ t \in Txs
          BY <1>6, <3>2, <4>4 DEF GoesOn, Registering
        <5>2. pc[th] = "recheck" => transactionMemory[t] = NoConn
          BY <3>2, <4>4, <5>1 DEF GoesOn
        <5>3. asked[t] = {}
          BY <1>5, <4>4, <5>1, <5>2 DEF BranchInv, BranchAt
        <5>4. QED
          BY <1>3, <5>1, <5>3 DEF Records
      <4>5. QED
        BY <4>1, <4>2, <4>3, <4>4 DEF BranchAt, IsActive
    <3>3. QED
      BY <1>3, <3>1, <3>2
  <2>4. ASSUME NEW o \in Threads \ {th} PROVE BranchAt(o)'
    <3> DEFINE t == frame[o].tx
    <3>1. pc'[o] = pc[o] /\ frame'[o] = frame[o] /\ status' = status /\ BranchAt(o) /\ LocalOK(o)
      BY <1>2, <1>3, <1>5 DEF Records, BranchInv
    <3>2. SUFFICES ASSUME pc[o] \in {"putTx", "putConn", "enlist"} PROVE BranchAt(o)'
      BY <3>1 DEF BranchAt
    <3>3. t \in Txs /\ Inside(o)
      BY <3>1, <3>2 DEF LocalOK, Inside, Registering
    <3>4. frame[th].tx = t => ~Inside(th)
      BY <1>5, <3>3, InsideAlone
    <3>5. asked'[t] = asked[t]
      BY <1>3, <3>3, <3>4 DEF Records, Inside, Registering
    <3>6. pc[th] = "putTx" => frame[th].tx # t
      BY <3>4 DEF Inside, Registering
    <3>7. IsActive(t) => transactionMemory'[t] = transactionMemory[t]
      BY <1>3, <1>6, <3>3, <3>6 DEF Records, IsActive
    <3>8. status[t] = "active" => IsActive(t)
      BY <3>3, NullsAssumption DEF IsActive
    <3>9. QED
      BY <3>1, <3>5, <3>7, <3>8 DEF BranchAt, IsActive
  <2>5. QED
    BY <1>3, <2>2, <2>3, <2>4 DEF BranchInv, Records
<1>11. StaleInv'
  <2> SUFFICES ASSUME NEW u \in Txs, NEW c \in Conns, transactionMemory'[u] = c PROVE Kept(u, c)'
    BY DEF StaleInv
  <2>1. CASE transactionMemory'[u] # transactionMemory[u]
    <3>1. pc[th] = "putTx" /\ u = frame[th].tx /\ c = frame[th].conn
      BY <1>3, <2>1, NullsAssumption DEF Records
    <3>2. pc'[th] = "putConn" /\ frame'[th].tx = u /\ frame'[th].conn = c
      BY <1>3, <3>1 DEF GoesOn, Returns, Registering
    <3>3. QED
      BY <3>2 DEF Kept
  <2>2. CASE transactionMemory'[u] = transactionMemory[u]
    <3>1. Kept(u, c)
      BY <1>5, <2>2 DEF StaleInv
    <3>2. ASSUME NEW o \in Threads, pc[o] \in {"putConn", "enlist", "hook"}, frame[o].tx = u, frame[o].conn = c
          PROVE  Kept(u, c)'
      <4>1. CASE o # th
        BY <1>2, <3>2, <4>1 DEF Kept
      <4>2. CASE o = th /\ GoesOn(th)
        <5>1. CASE pc[th] \in {"putConn", "enlist"}
          BY <3>2, <4>2, <5>1 DEF GoesOn, Registering, Kept
        <5>2. CASE pc[th] = "hook"
          BY <3>2, <4>2, <5>2 DEF GoesOn, Kept
        <5>3. QED
          BY <3>2, <4>2, <5>1, <5>2
      <4>3. CASE o = th /\ Returns(th, h)
        BY <1>4, <3>2, <4>3 DEF Returns, Kept
      <4>4. QED
        BY <1>3, <4>1, <4>2, <4>3
    <3>3. ASSUME c \in terminations[u] PROVE Kept(u, c)'
      BY <1>3, <3>3 DEF Records, Kept
    <3>4. ASSUME NEW g \in Handles, handle[g].state = "failed", handle[g].tx = NoTx, handle[g].conn = c
          PROVE  Kept(u, c)'
      BY <1>2, <1>4, <3>4 DEF Kept
    <3>5. QED
      BY <3>1, <3>2, <3>3, <3>4 DEF Kept
  <2>3. QED
    BY <2>1, <2>2
<1>12. ASSUME NEW o \in Threads PROVE EvictsOverAt(o)'
  <2>1. CASE o # th
    BY <1>2, <1>3, <1>5, <2>1 DEF EvictsOverAt, Records
  <2>2. CASE o = th /\ Returns(th, h)
    BY <2>2 DEF EvictsOverAt, Returns
  <2>3. CASE o = th /\ GoesOn(th)
    <3>1. ASSUME pc'[th] = "evictTx" PROVE status[frame'[th].seen] \in {"completing", "done"}
      <4>1. frame'[th].seen = frame[th].seen /\ ~IsActive(frame[th].seen)
        BY <2>3, <3>1 DEF GoesOn
      <4>2. frame[th].seen \in Txs
        BY <1>5, <3>1, <4>1 DEF LocalOK
      <4>3. QED
        BY <1>5, <4>1, <4>2, NullsAssumption DEF IsActive, Begun, Statuses
    <3>2. QED
      BY <1>3, <2>3, <3>1 DEF EvictsOverAt, Records
  <2>4. QED
    BY <1>3, <2>1, <2>2, <2>3
<1>13. JoinedInv'
  BY <1>3, <1>5 DEF Records, JoinedInv
<1>14. QED
  BY <1>7, <1>8, <1>9, <1>10, <1>11, <1>12, <1>13 DEF SharedInv

-----------------------------------------------------------------------------
(* What every other step does *)

\* It leaves the calls under way alone, begins one at most, forgets what belongs to
\* a transaction that is done, and moves a transaction towards its outcome.
Forward(u) ==
  \/ status'[u] = status[u]
  \/ status[u] = "none" /\ status'[u] = "active"
  \/ status[u] \in {"active", "marked"} /\ status'[u] \in {"marked", "completing"}
  \/ status[u] = "completing" /\ status'[u] = "done"

Calls(th) ==
  \/ pc'[th] = pc[th] /\ frame'[th] = frame[th]
  \/ /\ pc[th] \notin Opening
     /\ pc'[th] \in Opening => pc'[th] \in {"lookup", "borrow"} /\ (pc'[th] = "borrow" => frame'[th].tx = NoTx)
     /\ frame'[th].tx \in {NoTx, frame[th].tx, assoc[th]}
     /\ frame'[th].seen \in {NoTx, frame[th].seen} \/ \E c \in Conns : frame'[th].seen = connectionMemory[c]
     /\ pc'[th] \in Closing \cup Demarcating => frame'[th].h \in Handles /\ handle[frame'[th].h].tx \in Txs

Variant(th) == frame'[th].auth = frame[th].auth \/ frame'[th].auth = FALSE \/ frame'[th].auth \in Variants

Holds(h) ==
  /\ handle'[h].tx = handle[h].tx /\ handle'[h].conn = handle[h].conn
  /\ Ended(h) => Ended(h)'
  /\ handle[h].state = "failed" /\ handle[h].tx = NoTx => handle'[h].state = "failed"

Aside ==
  /\ \A u \in Txs : Forward(u)
  /\ \A th \in Threads : assoc'[th] \in {NoTx, assoc[th]} \/ (assoc'[th] \in Txs /\ status'[assoc'[th]] # "none")
  /\ asked' = asked /\ enlisted' = enlisted /\ unused' = unused
  /\ \A u \in Txs :
       \/ transactionMemory'[u] = transactionMemory[u] /\ terminations'[u] = terminations[u]
       \/ transactionMemory'[u] = NoConn /\ status[u] = "done"
  /\ \A c \in Conns : connectionMemory'[c] \in {NoTx, connectionMemory[c]}
  /\ \A u \in Txs : monitor'[u] = monitor[u]
  /\ \A th \in Threads : Calls(th) /\ Variant(th)
  /\ \A h \in Handles : Holds(h)

LEMMA AsideKeeps ==
  ASSUME TypeInv, TypeInv', SharedInv, Aside
  PROVE  SharedInv'
<1>1. /\ Begun /\ MonitorInv /\ UserTx /\ BranchInv /\ JoinedInv /\ StaleInv
      /\ \A o \in Threads : EvictsOverAt(o) /\ LocalOK(o) /\ frame[o].tx \in Txs \cup {NoTx}
      /\ \A o \in Threads : frame[o].seen \in Txs \cup {NoTx}
  BY DEF SharedInv, TypeInv, TypeOK, FrameOK, Frame
<1>2. \A u \in Txs : /\ status'[u] = "none" => status[u] = "none"
                     /\ status'[u] = "active" => status[u] \in {"none", "active"}
                     /\ IsActive(u)' => IsActive(u) \/ status[u] = "none"
                     /\ status[u] \in {"completing", "done"} => status'[u] \in {"completing", "done"}
  BY DEF Aside, Forward, IsActive
<1>3. \A o \in Threads : pc'[o] \in Opening => \/ pc'[o] = pc[o] /\ frame'[o] = frame[o]
                                               \/ pc'[o] = "lookup"
                                               \/ pc'[o] = "borrow" /\ frame'[o].tx = NoTx
  BY DEF Aside, Calls
<1>4. \A o \in Threads : pc[o] \in Opening => pc'[o] = pc[o] /\ frame'[o] = frame[o]
  BY DEF Aside, Calls
<1>5. Begun'
  BY <1>1, <1>2, NullsAssumption DEF Begun, Aside, Calls, Holds
<1>6. MonitorInv'
  <2>1. \A o \in Threads : (Inside(o)' <=> Inside(o)) /\ (Inside(o) => frame'[o] = frame[o])
    BY <1>3, <1>4 DEF Inside, Opening, Searching, Registering
  <2>2. QED
    BY <1>1, <2>1 DEF MonitorInv, Aside
<1>7. UserTx'
  <2>1. \A g \in Handles : ~Ended(g)' => handle'[g].tx = NoTx
    BY <1>1 DEF UserTx, Aside, Holds
  <2>2. \A o \in Threads : (pc[o] \in Closing \cup Demarcating)' => handle'[frame'[o].h].tx \in Txs
    BY <1>1 DEF UserTx, Aside, Calls, Holds, LocalOK
  <2>3. QED
    BY <2>1, <2>2 DEF UserTx
<1>8. BranchInv'
  <2>1. \A u \in Txs : status[u] # "done" => transactionMemory'[u] = transactionMemory[u]
    BY DEF Aside
  <2>2. \A u \in Txs : status'[u] \in {"none", "active"} /\ transactionMemory'[u] = NoConn => asked'[u] = {}
    BY <1>1, <1>2, <2>1 DEF BranchInv, Aside
  <2>3. ASSUME NEW o \in Threads PROVE BranchAt(o)'
    <3>1. SUFFICES ASSUME (pc[o] \in {"putTx", "putConn", "enlist"})' PROVE BranchAt(o)'
      BY DEF BranchAt
    <3>2. pc'[o] = pc[o] /\ frame'[o] = frame[o] /\ frame[o].tx \in Txs
      BY <1>1, <1>3, <3>1 DEF LocalOK, Opening, Registering
    <3>3. status[frame[o].tx] # "none"
      BY <1>1, <3>2 DEF Begun
    <3>4. /\ status'[frame[o].tx] = "active" => status[frame[o].tx] = "active"
          /\ IsActive(frame[o].tx)' => IsActive(frame[o].tx)
      BY <1>2, <3>2, <3>3
    <3>5. IsActive(frame[o].tx) => transactionMemory'[frame[o].tx] = transactionMemory[frame[o].tx]
      BY <2>1, <3>2 DEF IsActive
    <3>6. BranchAt(o) /\ asked' = asked
      BY <1>1 DEF BranchInv, Aside
    <3>7. status[frame[o].tx] = "active" => IsActive(frame[o].tx)
      BY <3>2, NullsAssumption DEF IsActive
    <3>8. QED
      BY <3>2, <3>4, <3>5, <3>6, <3>7 DEF BranchAt
  <2>4. QED
    BY <2>2, <2>3 DEF BranchInv
<1>9. StaleInv'
  <2> SUFFICES ASSUME NEW u \in Txs, NEW c \in Conns, transactionMemory'[u] = c PROVE Kept(u, c)'
    BY DEF StaleInv
  <2>1. transactionMemory[u] = c /\ terminations'[u] = terminations[u]
    BY NullsAssumption DEF Aside
  <2>2. Kept(u, c)
    BY <1>1, <2>1 DEF StaleInv
  <2>3. \A o \in Threads : pc[o] \in {"putConn", "enlist", "hook"} => pc'[o] = pc[o] /\ frame'[o] = frame[o]
    BY <1>4 DEF Opening, Registering
  <2>4. QED
    BY <2>1, <2>2, <2>3 DEF Kept, Aside, Holds
<1>10. ASSUME NEW o \in Threads PROVE EvictsOverAt(o)'
  <2>1. SUFFICES ASSUME pc'[o] = "evictTx" PROVE EvictsOverAt(o)'
    BY DEF EvictsOverAt
  <2>2. pc[o] = "evictTx" /\ frame'[o] = frame[o]
    BY <1>3, <2>1 DEF Opening, Searching
  <2>3. frame[o].seen \in Txs
    BY <1>1, <2>2 DEF LocalOK
  <2>4. QED
    BY <1>1, <1>2, <2>2, <2>3 DEF EvictsOverAt
<1>11. JoinedInv'
  BY <1>1 DEF JoinedInv, Aside
<1>12. QED
  BY <1>5, <1>6, <1>7, <1>8, <1>9, <1>10, <1>11 DEF SharedInv

LEMMA UseAside ==
  ASSUME TypeInv, CallOK, SharedInv, NEW th \in Threads, UseStep(th)
  PROVE  Aside
<1>1. PICK h \in Handles : h = frame[th].h
  BY CallHandle
<1>2. /\ \A o \in Threads \ {th} : pc'[o] = pc[o] /\ frame'[o] = frame[o]
      /\ \A g \in Handles : g # h => handle'[g] = handle[g]
  BY <1>1, Locality
<1>3. /\ UNCHANGED <<status, assoc, asked, memVars>>
      /\ pc'[th] \notin Opening /\ frame'[th].tx \in {frame[th].tx, NoTx}
      /\ frame'[th].seen \in {frame[th].seen, NoTx} \/ \E c \in Conns : frame'[th].seen = connectionMemory[c]
      /\ handle'[h].tx = handle[h].tx
  BY <1>1, UseLeavesMemory
<1>4. handle'[h].conn = handle[h].conn /\ Ended(h)'
  BY <1>1, UseEffect DEF UseOutcome
<1>5. /\ pc[th] \in Closing \cup Demarcating /\ LocalOK(th) /\ frame[th] \in Frame
      /\ pc \in [Threads -> Labels] /\ frame \in [Threads -> Frame]
      /\ MonitorInv /\ handle[h].tx \in Txs
  <2>1. pc[th] \in Closing \cup Demarcating
    BY DEF UseStep, CloseLookup, CloseCheck, CloseContext, CloseDefer, DemLookup, DemCheck, DemDelegate,
           At, Closing, Demarcating
  <2>2. QED
    BY <1>1, <2>1 DEF SharedInv, UserTx, TypeInv, TypeOK, FrameOK
<1>6. /\ pc'[th] \in Closing \cup Demarcating => frame'[th].h = h
      /\ frame'[th].auth = frame[th].auth \/ frame'[th].auth = FALSE
  <2>1. \/ frame' \in {frame, [frame EXCEPT ![th] = [frame[th] EXCEPT !.seen = connectionMemory[frame[th].conn]]]}
        \/ pc'[th] = "idle" /\ frame'[th] = Blank
    BY LeaveEffect, <1>5 DEF UseStep, CloseLookup, CloseCheck, CloseContext, CloseDefer, DemLookup, DemCheck,
       DemDelegate, Raise, SetFrame
  <2>2. CASE pc'[th] = "idle" /\ frame'[th] = Blank
    BY <2>2 DEF Blank, Closing, Demarcating
  <2>3. CASE frame'[th] = frame[th] \/ frame'[th] = [frame[th] EXCEPT !.seen = connectionMemory[frame[th].conn]]
    BY <1>1, <1>5, <2>3 DEF Frame
  <2>4. QED
    BY <1>5, <2>1, <2>2, <2>3
<1>7. UNCHANGED <<enlisted, terminations, unused>>
  BY DEF UseStep, CloseLookup, CloseCheck, CloseContext, CloseDefer, DemLookup, DemCheck, DemDelegate,
         tmVars, poolVars, Return
<1>8. \A u \in Txs : monitor'[u] = monitor[u]
  <2>1. monitor' = monitor \/ LeaveMonitor(th)
    BY DEF UseStep, CloseLookup, CloseCheck, CloseContext, CloseDefer, DemLookup, DemCheck, DemDelegate, Raise
  <2>2. ~Inside(th)
    BY <1>5 DEF Inside, Searching, Registering, Closing, Demarcating
  <2>3. QED
    BY <1>5, <2>1, <2>2 DEF LeaveMonitor, MonitorInv
<1>9. \A o \in Threads : Calls(o) /\ Variant(o)
  <2>1. Calls(th)
    BY <1>1, <1>3, <1>5, <1>6 DEF Calls, Opening, Searching, Registering, Closing, Demarcating
  <2>2. QED
    BY <1>2, <1>6, <2>1 DEF Calls, Variant
<1>10. \A g \in Handles : Holds(g)
  BY <1>2, <1>3, <1>4, <1>5, NullsAssumption DEF Holds, Ended
<1>11. QED
  BY <1>3, <1>7, <1>8, <1>9, <1>10 DEF Aside, Forward, memVars

LEMMA CallAside ==
  ASSUME TypeInv, CallOK, NEW th \in Threads, ClientCall(th) \/ Completed(th)
  PROVE  Aside
<1>1. /\ pc \in [Threads -> Labels] /\ frame \in [Threads -> Frame] /\ handle \in [Handles -> Handle]
      /\ status \in [Txs -> Statuses] /\ assoc \in [Threads -> Txs \cup {NoTx}]
  BY DEF TypeInv, TypeOK
<1> USE <1>1
<1>2. ASSUME NEW h \in Handles, NEW auth \in Variants, GetConnection(th, h, auth) PROVE Aside
  <2> DEFINE t == IF IsActive(assoc[th]) THEN assoc[th] ELSE NoTx
  <2>1. /\ UNCHANGED <<tmVars, poolVars, memVars, monitor>> /\ pc[th] = "idle" /\ handle[h].state = "unused"
        /\ pc' = [pc EXCEPT ![th] = IF t = NoTx THEN "borrow" ELSE "lookup"]
        /\ frame' = [frame EXCEPT ![th] = [Blank EXCEPT !.h = h, !.auth = auth, !.tx = t]]
        /\ handle' = [handle EXCEPT ![h] = [handle[h] EXCEPT !.state = "opening", !.owner = th]]
    BY <1>2 DEF GetConnection, At, Goto, SetFrame, SetHandle
  <2>2. \A g \in Handles : Holds(g)
    BY <2>1 DEF Holds, Ended, Handle
  <2>3. frame'[th].tx = t /\ frame'[th].seen = NoTx /\ frame'[th].auth = auth
    BY <2>1 DEF Blank
  <2>4. \A o \in Threads : Calls(o)
    BY <2>1, <2>3 DEF Calls, Opening, Searching, Registering, Closing, Demarcating
  <2>5. \A o \in Threads : Variant(o)
    BY <2>1, <2>3 DEF Variant
  <2>6. QED
    BY <2>1, <2>2, <2>4, <2>5 DEF Aside, Forward, tmVars, poolVars, memVars
<1>3. ASSUME NEW h \in Handles, Close(th, h) \/ Demarcate(th, h) PROVE Aside
  <2>1. /\ UNCHANGED <<tmVars, memVars, monitor, unused>> /\ pc[th] = "idle"
        /\ handle' = handle \/ (handle[h].state = "open" /\ handle' = [handle EXCEPT ![h] = [handle[h] EXCEPT !.state = "closed"]])
        /\ \/ pc' = pc /\ frame' = frame
           \/ /\ pc' \in {[pc EXCEPT ![th] = "closeLookup"], [pc EXCEPT ![th] = "demLookup"]}
              /\ frame' = [frame EXCEPT ![th] = [Blank EXCEPT !.h = h, !.conn = handle[h].conn]]
              /\ handle[h].tx # NoTx
    BY <1>3 DEF Close, Demarcate, At, Goto, SetFrame, SetHandle, Return, poolVars
  <2>2. \A g \in Handles : Holds(g)
    BY <2>1 DEF Holds, Ended, Handle
  <2>3. handle[h].tx \in Txs \cup {NoTx}
    BY DEF Handle
  <2>4. /\ [Blank EXCEPT !.h = h, !.conn = handle[h].conn].tx = NoTx
        /\ [Blank EXCEPT !.h = h, !.conn = handle[h].conn].auth = FALSE
        /\ [Blank EXCEPT !.h = h, !.conn = handle[h].conn].seen = NoTx
        /\ [Blank EXCEPT !.h = h, !.conn = handle[h].conn].h = h
    BY DEF Blank
  <2>5. \A o \in Threads : Calls(o) /\ Variant(o)
    <3>1. /\ \A o \in Threads \ {th} : pc'[o] = pc[o] /\ frame'[o] = frame[o]
          /\ \/ pc'[th] = pc[th] /\ frame'[th] = frame[th]
             \/ /\ pc'[th] \in {"closeLookup", "demLookup"} /\ handle[h].tx # NoTx
                /\ frame'[th] = [Blank EXCEPT !.h = h, !.conn = handle[h].conn]
      BY <2>1
    <3>2. QED
      BY <2>1, <2>3, <2>4, <3>1 DEF Calls, Variant, Opening, Searching, Registering
  <2>6. QED
    BY <2>1, <2>2, <2>5 DEF Aside, Forward, tmVars, memVars
<1>4. ASSUME UNCHANGED <<poolVars, memVars, monitor, handle, asked, enlisted, terminations, frame>>,
             pc' = pc \/ (pc[th] \in {"idle", "completing"} /\ \E l \in {"idle", "completing"} : pc' = [pc EXCEPT ![th] = l]),
             \A u \in Txs : Forward(u),
             assoc' = assoc \/ \E u \in Txs \cup {NoTx} : assoc' = [assoc EXCEPT ![th] = u] /\ (u = NoTx \/ status'[u] # "none")
      PROVE  Aside
  <2>1. \A o \in Threads : Calls(o)
    BY <1>4 DEF Calls, Opening, Searching, Registering, Closing, Demarcating
  <2>2. QED
    BY <1>4, <2>1 DEF Aside, Variant, Holds, Ended, poolVars, memVars
<1>5. ASSUME NEW t \in Txs, Begin(th, t) PROVE Aside
  BY <1>4, <1>5 DEF Begin, Forward
<1>6. ASSUME NEW t \in Txs, Resume(th, t) PROVE Aside
  BY <1>4, <1>6 DEF Resume, Forward, IsActive
<1>7. CASE Suspend(th) \/ Completed(th)
  BY <1>4, <1>7 DEF Suspend, Completed, Forward, At, Goto
<1>8. CASE Complete(th)
  <2>1. /\ IsActive(assoc[th]) /\ status' = [status EXCEPT ![assoc[th]] = "completing"]
        /\ UNCHANGED <<assoc, poolVars, memVars, monitor, handle, asked, enlisted, terminations, frame>>
        /\ pc[th] = "idle" /\ pc' = [pc EXCEPT ![th] = "completing"]
    BY <1>8 DEF Complete, At, Goto
  <2>2. \A u \in Txs : Forward(u)
    BY <2>1 DEF Forward, IsActive
  <2>3. QED
    BY <1>4, <2>1, <2>2
<1>9. QED
  BY <1>2, <1>3, <1>5, <1>6, <1>7, <1>8 DEF ClientCall, OneOf

LEMMA ManagerAside ==
  ASSUME TypeInv, NEW t \in Txs, MarkRollback(t) \/ TimeOut(t) \/ CompletionStep(t)
  PROVE  Aside
<1>1. /\ status \in [Txs -> Statuses] /\ transactionMemory \in [Txs -> Conns \cup {NoConn}]
      /\ connectionMemory \in [Conns -> Txs \cup {NoTx}] /\ terminations \in [Txs -> SUBSET Conns]
  BY DEF TypeInv, TypeOK
<1>2. UNCHANGED <<assoc, asked, enlisted, unused, monitor, handle, pc, frame>>
  BY DEF MarkRollback, TimeOut, CompletionStep, Resolve, ForgetConn, RunTermination, RunClosing, poolVars, Return
<1>3. \A u \in Txs : Forward(u)
  BY <1>1 DEF MarkRollback, TimeOut, CompletionStep, Resolve, ForgetConn, RunTermination, RunClosing, Forward, IsActive
<1>4. \A u \in Txs :
        \/ transactionMemory'[u] = transactionMemory[u] /\ terminations'[u] = terminations[u]
        \/ transactionMemory'[u] = NoConn /\ status[u] = "done"
  BY <1>1 DEF MarkRollback, TimeOut, CompletionStep, Resolve, ForgetConn, RunTermination, RunClosing, memVars
<1>5. \A c \in Conns : connectionMemory'[c] \in {NoTx, connectionMemory[c]}
  BY <1>1 DEF MarkRollback, TimeOut, CompletionStep, Resolve, ForgetConn, RunTermination, RunClosing, memVars
<1>6. QED
  BY <1>2, <1>3, <1>4, <1>5 DEF Aside, Calls, Variant, Holds, Ended

\* A step is one of getConnection or none of its business.
LEMMA StepCases ==
  ASSUME Alone, [Next]_vars
  PROVE  Aside \/ \E th \in Threads : OpenStep(th)
<1>1. CASE \/ \E th \in Threads : ClientCall(th) \/ UseStep(th) \/ Completed(th)
          \/ \E t \in Txs : MarkRollback(t) \/ TimeOut(t) \/ CompletionStep(t)
  BY <1>1, UseAside, CallAside, ManagerAside DEF Alone, LeakInv
<1>2. CASE UNCHANGED vars
  BY <1>2 DEF vars, tmVars, poolVars, memVars, Aside, Forward, Calls, Variant, Holds, Ended
<1>3. QED
  BY <1>1, <1>2 DEF Next

LEMMA SharedStep == ASSUME Alone, [Next]_vars PROVE SharedInv'
<1>1. TypeInv' /\ CallOK
  BY ShapeStep DEF Alone, LeakInv
<1>2. QED
  BY <1>1, StepCases, SharedOpen, AsideKeeps DEF Alone

LEMMA InitSharedInv == Init => SharedInv
BY NullsAssumption DEF Init, SharedInv, Begun, JoinedInv, MonitorInv, Inside, UserTx, Ended, BranchInv, BranchAt,
   StaleInv, EvictsOverAt, NewHandle, Blank, Searching, Registering, Closing, Demarcating

LEMMA SharedAlways == Spec => []Alone
<1>1. Init => Alone
  BY InitTypeInv, InitLeakInv, InitSharedInv DEF Alone
<1>2. ASSUME Alone, [Next]_vars PROVE Alone'
  BY <1>2, ShapeStep, LeakStep, SharedStep DEF Alone
<1>3. QED
  BY <1>1, <1>2, PTL DEF Spec

-----------------------------------------------------------------------------
(* What follows *)

\* However many threads call getConnection() in one transaction at once, and with
\* authenticated calls among them, a thread that is about to enlist a connection in
\* an active transaction is the first to do so.
THEOREM OneBranchHolds == Spec => []OneBranch
<1>1. Alone => OneBranch
  BY DEF Alone, SharedInv, BranchInv, BranchAt, OneBranch, At
<1>2. QED
  BY <1>1, SharedAlways, PTL

\* In every environment: what transactionMemory still holds of a transaction that is
\* over and drained is the mark of a call that is not finished or that failed.
THEOREM StaleOnlyAfterFailureHolds == Spec => []StaleOnlyAfterFailure
<1>1. ASSUME Alone PROVE StaleOnlyAfterFailure
  <2> SUFFICES ASSUME NEW t \in Txs, Drained(t), transactionMemory[t] # NoConn
               PROVE  \/ \E th \in Threads : frame[th].tx = t
                      \/ \E h \in Handles : handle[h].state = "failed" /\ handle[h].conn = transactionMemory[t]
    BY DEF StaleOnlyAfterFailure
  <2>1. transactionMemory[t] \in Conns
    BY <1>1 DEF Alone, TypeInv, TypeOK
  <2>2. Kept(t, transactionMemory[t])
    BY <1>1, <2>1 DEF Alone, SharedInv, StaleInv
  <2>3. QED
    BY <2>2 DEF Kept, Drained
<1>2. QED
  BY <1>1, SharedAlways, PTL

\* transaction.synchronized keeps its promise: never two threads inside it for one
\* transaction, and none leaves it, by a return or an exception, without its monitor.
Synchronized ==
  /\ \A th, o \in Threads : Inside(th) /\ Inside(o) /\ frame[th].tx = frame[o].tx => th = o
  /\ \A t \in Txs : monitor[t] # NoThread =>
       \E th \in Threads : monitor[t] = th /\ Inside(th) /\ frame[th].tx = t

\* Whichever way a call ends, it holds the monitor exactly while it is in the block:
\* no later call in the transaction waits for a thread that has gone.
THEOREM SynchronizedHolds == Spec => []Synchronized
<1>1. ASSUME Alone PROVE Synchronized
  <2>1. MonitorInv /\ monitor \in [Txs -> Threads \cup {NoThread}]
    BY <1>1 DEF Alone, SharedInv, TypeInv, TypeOK
  <2>2. ASSUME NEW th \in Threads, Inside(th) PROVE frame[th].tx \in Txs
    <3>1. LocalOK(th) /\ frame[th].tx \in Txs \cup {NoTx}
      BY <1>1 DEF Alone, TypeInv, TypeOK, FrameOK, Frame
    <3>2. QED
      BY <2>2, <3>1 DEF Inside, LocalOK
  <2>3. ASSUME NEW th \in Threads, NEW o \in Threads, Inside(th), Inside(o), frame[th].tx = frame[o].tx
        PROVE  th = o
    BY <2>1, <2>2, <2>3, InsideAlone
  <2>4. QED
    BY <2>1, <2>3 DEF Synchronized, MonitorInv
<1>2. QED
  BY <1>1, SharedAlways, PTL

-----------------------------------------------------------------------------
(* Without authenticated calls, shared transactions included *)

(* A transaction is asked to enlist one connection at most.                  *)
OneBranchEach == \A t \in Txs : \A c, d \in asked[t] : c = d

PlainInv == (\A th \in Threads : frame[th].auth = FALSE) /\ OneBranchEach

LEMMA PlainStep == ASSUME TRUE \notin Variants, Alone, PlainInv, [Next]_vars PROVE PlainInv'
<1>1. ASSUME NEW th \in Threads, OpenStep(th) PROVE PlainInv'
  <2>1. PICK h \in Handles : h = frame[th].h
    BY <1>1, CallHandle DEF Alone
  <2>2. Records(th) /\ (GoesOn(th) \/ Returns(th, h))
    BY <1>1, <2>1, OpenRecords, OpenMoves DEF Alone
  <2>3. \A o \in Threads \ {th} : frame'[o] = frame[o]
    BY <1>1, <2>1, Locality DEF Alone
  <2>4. \A o \in Threads : frame'[o].auth = FALSE
    BY <2>2, <2>3 DEF PlainInv, GoesOn, Returns, Blank
  <2>5. OneBranchEach'
    BY <2>2 DEF PlainInv, OneBranchEach, Records, Alone, SharedInv, BranchInv, BranchAt
  <2>6. QED
    BY <2>4, <2>5 DEF PlainInv
<1>2. CASE Aside
  BY <1>2, EnvironmentAssumption DEF Aside, Variant, PlainInv, OneBranchEach
<1>3. QED
  BY <1>1, <1>2, StepCases

LEMMA PlainAlways == ASSUME TRUE \notin Variants PROVE Spec => [](Alone /\ PlainInv)
<1>1. Init => PlainInv
  BY DEF Init, PlainInv, OneBranchEach, Blank
<1>2. ASSUME PlainInv, Alone, [Next]_vars PROVE PlainInv'
  BY <1>2, PlainStep
<1>3. QED
  BY <1>1, <1>2, SharedAlways, PTL DEF Spec

\* getConnection() alone asks a transaction to enlist one connection at most, whoever
\* works in the transaction and however it ends.
THEOREM OneBranchEachHolds == ASSUME TRUE \notin Variants PROVE Spec => []OneBranchEach
<1>1. PlainInv => OneBranchEach
  BY DEF PlainInv
<1>2. QED
  BY <1>1, PlainAlways, PTL

\* And the connection remembered for an active transaction stays, however many
\* threads register at once: the second check under the monitor is enough.
THEOREM PlainKeepsConnection == ASSUME TRUE \notin Variants PROVE Spec => KeepsConnection
<1> DEFINE Stays == \A t \in Txs : IsActive(t) /\ transactionMemory[t] # NoConn
                      => transactionMemory'[t] = transactionMemory[t]
<1>1. ASSUME Alone, PlainInv, [Next]_vars PROVE Stays
  <2>1. ASSUME NEW th \in Threads, OpenStep(th), NEW t \in Txs, IsActive(t), transactionMemory[t] # NoConn
        PROVE  transactionMemory'[t] = transactionMemory[t]
    <3>1. Records(th)
      BY <1>1, <2>1, OpenRecords DEF Alone
    <3>2. EvictsOverAt(th) /\ BranchAt(th) /\ ~frame[th].auth
      BY <1>1 DEF Alone, SharedInv, BranchInv, PlainInv
    <3>3. QED
      BY <2>1, <3>1, <3>2 DEF Records, EvictsOverAt, BranchAt, IsActive
  <2>2. CASE Aside
    BY <2>2 DEF Aside, IsActive
  <2>3. QED
    BY <1>1, <2>1, <2>2, StepCases
<1>2. Alone /\ PlainInv /\ [Next]_vars => [Stays]_vars
  BY <1>1
<1>3. QED
  BY <1>2, PlainAlways, PTL DEF Spec, KeepsConnection

-----------------------------------------------------------------------------
(* When the pool lends fresh handles, shared transactions included *)

(* A connection belongs to one transaction for good.                         *)
TiedOnce == \A c \in Conns, t, u \in Txs : Tied(c, t) /\ Tied(c, u) => t = u

NeverLent(c) == Free(c) /\ ~Handled(c) /\ \A th \in Threads : ~InHand(th, c)

(* What a getConnection call holds is its own: known to nobody before the      *)
(* first put, and to its own transaction only from there on.                *)
OwnAt(th) ==
  pc[th] \in Opening =>
    /\ pc[th] \notin Stale
    /\ \A c \in Conns : frame[th].conn = c =>
         /\ pc[th] \notin Late => Free(c) /\ ~Handled(c)
         /\ \A u \in Txs : Tied(c, u) => u = frame[th].tx
         /\ \A o \in Threads : InHand(o, c) => o = th

(* A call on a wrapper asks about the wrapper's own connection and transaction, *)
(* and goes through to the connection when that transaction is over.         *)
UserAt(th) ==
  LET h == frame[th].h IN
  /\ pc[th] \in Demarcating => handle[h].conn = frame[th].conn
  /\ pc[th] \in {"demCheck", "demDelegate"} => handle[h].tx = frame[th].seen
  /\ pc[th] = "demDelegate" => status[handle[h].tx] \in {"completing", "done"}

OwnInv ==
  /\ TiedOnce /\ \A c \in unused : NeverLent(c)
  /\ \A th \in Threads : OwnAt(th) /\ UserAt(th)

\* A call that goes on, with the connection it has or with one never lent before.
Carries(th) ==
  /\ pc'[th] \in Opening \ Stale /\ handle' = handle /\ frame'[th].tx = frame[th].tx
  /\ \/ /\ pc[th] = "borrow" /\ pc'[th] = "probe"
        /\ \E c \in unused : frame'[th].conn = c /\ unused' = unused \ {c}
     \/ /\ frame'[th].conn = frame[th].conn /\ unused' = unused
        /\ pc'[th] \notin Late => pc[th] \notin Late

\* A call that ends gives its handle what it holds, or what its transaction has.
Gives(th, h) ==
  /\ pc'[th] = "idle" /\ unused' = unused
  /\ handle'[h].tx \in {NoTx, frame[th].tx}
  /\ \/ handle'[h].conn = frame[th].conn
        /\ (handle'[h].tx # NoTx => pc[th] = "wrap")
     \/ frame[th].tx \in Txs /\ handle'[h].conn = transactionMemory[frame[th].tx]

LEMMA OpenOwn ==
  ASSUME Alone, OwnInv, ~Recycles, NEW th \in Threads, OpenStep(th), NEW h \in Handles, h = frame[th].h
  PROVE  /\ pc[th] \in Opening \ Stale /\ ~Ended(h) /\ handle[h].tx = NoTx
         /\ Carries(th) \/ Gives(th, h)
<1>1. /\ LocalOK(th) /\ frame[th] \in Frame /\ TypeInv
      /\ pc \in [Threads -> Labels] /\ frame \in [Threads -> Frame]
      /\ transactionMemory \in [Txs -> Conns \cup {NoConn}]
      /\ connectionMemory \in [Conns -> Txs \cup {NoTx}] /\ unused \subseteq Conns
  BY DEF Alone, TypeInv, TypeOK, FrameOK
<1>2. pc[th] \in Opening \ Stale
  BY DEF OwnInv, OwnAt, OpenStep, Advance, SwapRaises, At, Opening, Searching, Registering, Lookup, Enter, Borrow, Probe,
       Inspect, Judge, EvictTx, EvictConn, Swap, Release, Found, Recheck, PutTx, PutConn, Enlist, Hook, Wrap
<1>3. ~Ended(h) /\ handle[h].tx = NoTx
  BY <1>2 DEF Alone, LeakInv, CallOK, SharedInv, UserTx, Ended
<1> USE <1>1
<1>4. CASE Lookup(th)
  <2>1. CASE transactionMemory[frame[th].tx] # NoConn
    <3>1. Deliver(th, transactionMemory[frame[th].tx], frame[th].tx) /\ frame[th].tx \in Txs /\ unused' = unused
      BY <1>4, <2>1 DEF Lookup, At, LocalOK, poolVars
    <3>2. QED
      BY <1>2, <1>3, <3>1, DeliverEffect DEF Gives
  <2>2. CASE transactionMemory[frame[th].tx] = NoConn
    BY <1>2, <1>3, <1>4, <2>2 DEF Lookup, Carries, At, Goto, poolVars, Opening, Searching, Registering, Late, Stale
  <2>3. QED
    BY <2>1, <2>2
<1>5. CASE Borrow(th)
  <2>1. PICK c \in Conns : Lend(c) /\ SetFrame(th, [frame[th] EXCEPT !.conn = c])
    BY <1>5 DEF Borrow
  <2>2. c \in unused /\ unused' = unused \ {c}
    BY <2>1 DEF Lend, Lendable, OneOf
  <2>3. frame'[th].conn = c /\ frame'[th].tx = frame[th].tx
    BY <2>1 DEF SetFrame, Frame
  <2>4. QED
    BY <1>2, <1>3, <1>5, <2>2, <2>3 DEF Borrow, Carries, At, Goto, Opening, Searching, Registering, Stale
<1>6. CASE Probe(th)
  <2>1. pc[th] = "probe" /\ frame[th].conn \in Conns
    BY <1>6 DEF Probe, At, LocalOK, Searching
  <2>2. Free(frame[th].conn)
    BY <1>2, <2>1 DEF OwnInv, OwnAt, Late
  <2>3. connectionMemory[frame[th].conn] = NoTx
    BY <2>1, <2>2 DEF Free, Tied
  <2>4. QED
    BY <1>2, <1>3, <1>6, <2>3 DEF Probe, Carries, At, Goto, poolVars, Opening, Searching, Registering, Late, Stale
<1>7. CASE \/ Inspect(th) \/ Judge(th) \/ EvictTx(th) \/ EvictConn(th)
           \/ Swap(th) \/ SwapRaises(th) \/ Release(th)
  BY <1>2, <1>7 DEF Inspect, Judge, EvictTx, EvictConn, Swap, SwapRaises, Release, At, Stale
<1>8. CASE Found(th)
  <2>1. CASE frame[th].tx = NoTx
    <3>1. Deliver(th, frame[th].conn, NoTx) /\ unused' = unused
      BY <1>8, <2>1 DEF Found, poolVars
    <3>2. QED
      BY <1>2, <1>3, <3>1, DeliverEffect DEF Gives
  <2>2. CASE frame[th].tx # NoTx
    BY <1>2, <1>3, <1>8, <2>2 DEF Found, Carries, At, Goto, poolVars, Opening, Searching, Registering, Late, Stale
  <2>3. QED
    BY <2>1, <2>2
<1>9. CASE Enter(th) \/ Recheck(th)
  BY <1>2, <1>3, <1>9 DEF Enter, Recheck, Carries, At, Goto, poolVars, Opening, Searching, Registering, Late, Stale
<1>10. CASE PutTx(th) \/ PutConn(th)
  BY <1>2, <1>3, <1>10 DEF PutTx, PutConn, Carries, At, Goto, poolVars, Opening, Searching, Registering, Late, Stale
<1>11. CASE Enlist(th) \/ Hook(th)
  <2>1. CASE Raise(th, frame[th].conn)
    <3>1. unused' = unused
      BY <1>11 DEF Enlist, Hook, poolVars
    <3>2. QED
      BY <1>2, <1>3, <2>1, <3>1, RaiseEffect DEF Gives
  <2>2. CASE ~Raise(th, frame[th].conn)
    BY <1>2, <1>3, <1>11, <2>2 DEF Enlist, Hook, Carries, At, Goto, poolVars, Opening, Searching, Registering, Late, Stale
  <2>3. QED
    BY <2>1, <2>2
<1>12. CASE Wrap(th)
  <2>1. Deliver(th, frame[th].conn, frame[th].tx) /\ pc[th] = "wrap" /\ unused' = unused
    BY <1>12 DEF Wrap, At, poolVars
  <2>2. QED
    BY <1>2, <1>3, <2>1, DeliverEffect DEF Gives
<1>13. QED
  BY <1>4, <1>5, <1>6, <1>7, <1>8, <1>9, <1>10, <1>11, <1>12 DEF OpenStep, Advance

LEMMA OwnOpen ==
  ASSUME Alone, OwnInv, ~Recycles, NEW th \in Threads, OpenStep(th)
  PROVE  OwnInv'
<1>1. PICK h \in Handles : h = frame[th].h
  BY CallHandle DEF Alone
<1>2. /\ \A o \in Threads \ {th} : pc'[o] = pc[o] /\ frame'[o] = frame[o]
      /\ \A g \in Handles : g # h => handle'[g] = handle[g]
  BY <1>1, Locality DEF Alone
<1>3. /\ pc[th] \in Opening \ Stale /\ ~Ended(h) /\ handle[h].tx = NoTx
      /\ Carries(th) \/ Gives(th, h)
  BY <1>1, OpenOwn
<1>4. Records(th) /\ (GoesOn(th) \/ Returns(th, h))
  BY <1>1, OpenRecords, OpenMoves DEF Alone
<1>5. /\ TiedOnce /\ (\A c \in unused : NeverLent(c)) /\ \A o \in Threads : OwnAt(o) /\ UserAt(o)
      /\ frame[th].tx \in Txs \cup {NoTx} /\ frame[th].conn \in Conns \cup {NoConn}
      /\ unused \subseteq Conns
      /\ \A g \in Handles : handle[g].conn \in Conns \cup {NoConn}
      /\ \A u \in Txs : transactionMemory[u] \in Conns \cup {NoConn}
  BY DEF OwnInv, Alone, TypeInv, TypeOK, Frame, Handle
<1>6. ASSUME NEW c \in Conns, NEW u \in Txs, Tied(c, u)'
      PROVE  Tied(c, u) \/ (c = frame[th].conn /\ u = frame[th].tx /\ pc[th] \in Registering \cup {"wrap"})
  <2>1. transactionMemory'[u] = c => transactionMemory[u] = c \/ (pc[th] = "putTx" /\ u = frame[th].tx /\ c = frame[th].conn)
    BY <1>4, NullsAssumption DEF Records
  <2>2. connectionMemory'[c] = u => connectionMemory[c] = u \/ (pc[th] = "putConn" /\ u = frame[th].tx /\ c = frame[th].conn)
    BY <1>4, NullsAssumption DEF Records
  <2>3. c \in asked'[u] => c \in asked[u] \/ (pc[th] = "enlist" /\ u = frame[th].tx /\ c = frame[th].conn)
    BY <1>4 DEF Records
  <2>4. ASSUME NEW g \in Handles, handle'[g].tx = u, handle'[g].conn = c
        PROVE  Tied(c, u) \/ (c = frame[th].conn /\ u = frame[th].tx /\ pc[th] = "wrap")
    <3>1. CASE handle'[g] = handle[g]
      BY <2>4, <3>1 DEF Tied
    <3>2. CASE g = h /\ Gives(th, h)
      BY <2>4, <3>2, NullsAssumption DEF Gives, Tied
    <3>3. QED
      BY <1>2, <1>3, <3>1, <3>2 DEF Carries
  <2>5. QED
    BY <1>6, <2>1, <2>2, <2>3, <2>4 DEF Tied, Registering
<1>7. ASSUME NEW c \in Conns, Handled(c)'
      PROVE  \/ Handled(c) \/ (c = frame[th].conn /\ Gives(th, h)) \/ (frame[th].tx \in Txs /\ Tied(c, frame[th].tx))
  BY <1>2, <1>3, <1>7 DEF Handled, Carries, Gives, Tied
<1>8. ASSUME NEW o \in Threads, NEW c \in Conns, InHand(o, c)'
      PROVE  InHand(o, c) \/ (o = th /\ c \in unused /\ c \notin unused')
  <2>1. CASE o # th
    BY <1>2, <1>8, <2>1 DEF InHand
  <2>2. CASE o = th /\ Carries(th)
    BY <1>3, <1>8, <2>2 DEF InHand, Carries
  <2>3. CASE o = th /\ Gives(th, h)
    BY <1>8, <2>3 DEF InHand, Gives, Opening, Searching, Registering
  <2>4. QED
    BY <1>3, <2>1, <2>2, <2>3
<1>9. TiedOnce'
  <2>1. SUFFICES ASSUME NEW c \in Conns, NEW t \in Txs, NEW u \in Txs, Tied(c, t)', Tied(c, u)' PROVE t = u
    BY DEF TiedOnce
  <2>2. frame[th].conn = c => \A v \in Txs : Tied(c, v) => v = frame[th].tx
    BY <1>3, <1>5 DEF OwnAt
  <2>3. QED
    BY <1>5, <1>6, <2>1, <2>2 DEF TiedOnce
<1>10. ASSUME NEW c \in unused' PROVE NeverLent(c)'
  <2>1. c \in unused /\ c \in Conns /\ unused' \subseteq unused
    BY <1>3, <1>5, <1>10 DEF Carries, Gives
  <2>2. Free(c) /\ ~Handled(c) /\ frame[th].conn # c /\ \A o \in Threads : ~InHand(o, c)
    BY <1>3, <1>5, <2>1 DEF NeverLent, InHand
  <2>3. Free(c)'
    BY <1>6, <2>1, <2>2 DEF Free
  <2>4. ~Handled(c)'
    BY <1>7, <2>1, <2>2 DEF Free
  <2>5. \A o \in Threads : ~InHand(o, c)'
    BY <1>8, <1>10, <2>1, <2>2
  <2>6. QED
    BY <2>3, <2>4, <2>5 DEF NeverLent
<1>11. ASSUME NEW o \in Threads, o # th PROVE OwnAt(o)'
  <2>1. SUFFICES ASSUME pc[o] \in Opening, NEW c \in Conns, frame[o].conn = c
                 PROVE  /\ pc[o] \notin Late => Free(c)' /\ ~Handled(c)'
                        /\ \A u \in Txs : Tied(c, u)' => u = frame[o].tx
                        /\ \A q \in Threads : InHand(q, c)' => q = o
    BY <1>2, <1>5, <1>11 DEF OwnAt
  <2>2. /\ InHand(o, c) /\ ~InHand(th, c) /\ frame[th].conn # c /\ c \notin unused
        /\ pc[o] \notin Late => Free(c) /\ ~Handled(c)
        /\ \A u \in Txs : Tied(c, u) => u = frame[o].tx
        /\ \A q \in Threads : InHand(q, c) => q = o
    BY <1>3, <1>5, <1>11, <2>1 DEF OwnAt, InHand, NeverLent
  <2>3. pc[o] \notin Late => Free(c)' /\ ~Handled(c)'
    BY <1>6, <1>7, <2>2 DEF Free
  <2>4. \A u \in Txs : Tied(c, u)' => u = frame[o].tx
    BY <1>6, <2>2
  <2>5. \A q \in Threads : InHand(q, c)' => q = o
    BY <1>8, <2>2
  <2>6. QED
    BY <2>3, <2>4, <2>5
<1>12. OwnAt(th)'
  <2>1. CASE Gives(th, h)
    BY <2>1 DEF Gives, OwnAt, Opening, Searching, Registering
  <2>2. CASE Carries(th)
    <3>1. GoesOn(th)
      BY <1>4, <2>2 DEF Carries, Returns, Opening, Searching, Registering
    <3>2. SUFFICES ASSUME NEW c \in Conns, frame'[th].conn = c
                   PROVE  /\ pc'[th] \notin Late => Free(c)' /\ ~Handled(c)'
                          /\ \A u \in Txs : Tied(c, u)' => u = frame[th].tx
                          /\ \A q \in Threads : InHand(q, c)' => q = th
      BY <2>2 DEF OwnAt, Carries
    <3>3. Handled(c)' <=> Handled(c)
      BY <2>2 DEF Handled, Carries
    <3>4. CASE c \in unused
      <4>1. Free(c) /\ ~Handled(c) /\ \A q \in Threads : ~InHand(q, c)
        BY <1>5, <3>4 DEF NeverLent
      <4>2. frame[th].conn # c
        BY <1>3, <4>1 DEF InHand
      <4>3. Free(c)'
        BY <1>6, <4>1, <4>2 DEF Free
      <4>4. \A q \in Threads : InHand(q, c)' => q = th
        BY <1>8, <4>1
      <4>5. QED
        BY <3>3, <4>1, <4>3, <4>4 DEF Free
    <3>5. CASE frame[th].conn = c
      <4>1. /\ pc[th] \notin Late => Free(c) /\ ~Handled(c)
            /\ \A u \in Txs : Tied(c, u) => u = frame[th].tx
            /\ \A q \in Threads : InHand(q, c) => q = th
        BY <1>3, <1>5, <3>5 DEF OwnAt
      <4>2. c \notin unused
        BY <1>3, <1>5, <3>5 DEF NeverLent, InHand
      <4>3. \A q \in Threads : InHand(q, c)' => q = th
        BY <1>8, <4>1, <4>2
      <4>4. \A u \in Txs : Tied(c, u)' => u = frame[th].tx
        BY <1>6, <4>1
      <4>5. ASSUME pc'[th] \notin Late PROVE Free(c)' /\ ~Handled(c)'
        <5>1. pc[th] \notin Registering \cup {"wrap"}
          BY <2>2, <3>1, <4>5, <1>3 DEF Carries, GoesOn, Late, Registering
        <5>2. pc[th] \notin Late
          BY <5>1 DEF Late, Registering
        <5>3. QED
          BY <1>6, <3>3, <4>1, <5>1, <5>2 DEF Free
      <4>6. QED
        BY <4>3, <4>4, <4>5
    <3>6. QED
      BY <2>2, <3>2, <3>4, <3>5 DEF Carries
  <2>3. QED
    BY <1>3, <2>1, <2>2
<1>13. ASSUME NEW o \in Threads PROVE UserAt(o)'
  <2>1. CASE pc'[o] \in Demarcating
    <3>1. o # th
      BY <1>3, <2>1 DEF Carries, Gives, Opening, Searching, Registering, Demarcating
    <3>2. pc'[o] = pc[o] /\ frame'[o] = frame[o] /\ status' = status
      BY <1>2, <1>4, <3>1 DEF Records
    <3>3. frame[o].h \in Handles /\ Ended(frame[o].h)
      BY <2>1, <3>2 DEF Alone, TypeInv, FrameOK, LocalOK, HandleOK
    <3>4. handle'[frame[o].h] = handle[frame[o].h]
      BY <1>2, <1>3, <3>3
    <3>5. QED
      BY <1>5, <3>2, <3>4 DEF UserAt
  <2>2. CASE pc'[o] \notin Demarcating
    BY <2>2 DEF UserAt, Demarcating
  <2>3. QED
    BY <2>1, <2>2
<1>14. QED
  BY <1>9, <1>10, <1>11, <1>12, <1>13 DEF OwnInv

\* A call on a wrapper starts from it and finds its transaction, ...
Asks(th) ==
  pc'[th] \in Demarcating =>
    /\ frame'[th].h \in Handles
    /\ \/ pc'[th] = pc[th] /\ frame'[th] = frame[th]
       \/ pc'[th] = "demLookup" /\ frame'[th].conn = handle[frame'[th].h].conn
       \/ /\ pc[th] = "demLookup" /\ pc'[th] = "demCheck"
          /\ frame'[th].h = frame[th].h /\ frame'[th].conn = frame[th].conn
          /\ frame'[th].seen = connectionMemory[frame[th].conn] /\ frame'[th].seen # NoTx
       \/ /\ pc[th] = "demCheck" /\ pc'[th] = "demDelegate" /\ frame'[th] = frame[th]
          /\ ~IsActive(frame[th].seen)

LEMMA NextAsks ==
  ASSUME Alone, [Next]_vars, NEW o \in Threads, ~ \E th \in Threads : OpenStep(th)
  PROVE  Asks(o)
<1>1. /\ pc \in [Threads -> Labels] /\ frame \in [Threads -> Frame] /\ handle \in [Handles -> Handle] /\ TypeInv
      /\ pc[o] \in Demarcating => frame[o].h \in Handles
  BY DEF Alone, TypeInv, TypeOK, FrameOK, LocalOK
<1>2. ASSUME pc'[o] = pc[o], frame'[o] = frame[o] PROVE Asks(o)
  BY <1>1, <1>2 DEF Asks
<1>3. ASSUME pc'[o] \notin Demarcating PROVE Asks(o)
  BY <1>3 DEF Asks
<1>4. ASSUME NEW th \in Threads, UseStep(th) PROVE Asks(o)
  <2>1. CASE o # th
    BY <1>1, <1>2, <1>4, <2>1, Locality
  <2>2. CASE o = th
    <3>1. CASE CloseLookup(th) \/ CloseCheck(th) \/ CloseContext(th) \/ CloseDefer(th)
      <4>1. pc'[th] = "idle" \/ pc'[th] \in Closing
        BY <1>1, <3>1 DEF CloseLookup, CloseCheck, CloseContext, CloseDefer, Raise, Leave, Goto, Closing
      <4>2. QED
        BY <1>3, <2>2, <4>1 DEF Closing, Demarcating
    <3>2. CASE DemLookup(th)
      <4>1. CASE connectionMemory[frame[th].conn] = NoTx
        BY <1>1, <1>3, <2>2, <3>2, <4>1, LeaveEffect DEF DemLookup, Demarcating
      <4>2. CASE connectionMemory[frame[th].conn] # NoTx
        BY <1>1, <2>2, <3>2, <4>2 DEF DemLookup, Asks, At, Goto, SetFrame, Frame, Demarcating
      <4>3. QED
        BY <4>1, <4>2
    <3>3. CASE DemCheck(th)
      <4>1. CASE IsActive(frame[th].seen)
        BY <1>1, <1>3, <2>2, <3>3, <4>1, LeaveEffect DEF DemCheck, Demarcating
      <4>2. CASE ~IsActive(frame[th].seen)
        BY <1>1, <2>2, <3>3, <4>2 DEF DemCheck, Asks, At, Goto, Demarcating
      <4>3. QED
        BY <4>1, <4>2
    <3>4. CASE DemDelegate(th)
      BY <1>1, <1>3, <2>2, <3>4, LeaveEffect DEF DemDelegate, Demarcating
    <3>5. QED
      BY <1>4, <3>1, <3>2, <3>3, <3>4 DEF UseStep
  <2>3. QED
    BY <2>1, <2>2
<1>5. ASSUME NEW th \in Threads, NEW h \in Handles, NEW auth \in Variants, GetConnection(th, h, auth) PROVE Asks(o)
  BY <1>1, <1>2, <1>3, <1>5 DEF GetConnection, Goto, SetFrame, Demarcating
<1>6. ASSUME NEW th \in Threads, NEW h \in Handles, Close(th, h) PROVE Asks(o)
  BY <1>1, <1>2, <1>3, <1>6 DEF Close, Goto, SetFrame, Demarcating
<1>7. ASSUME NEW th \in Threads, NEW h \in Handles, Demarcate(th, h) PROVE Asks(o)
  <2>1. /\ pc' = [pc EXCEPT ![th] = "demLookup"]
        /\ frame' = [frame EXCEPT ![th] = [Blank EXCEPT !.h = h, !.conn = handle[h].conn]]
    BY <1>7 DEF Demarcate, Goto, SetFrame
  <2>2. CASE o = th
    BY <1>1, <2>1, <2>2 DEF Asks, Blank
  <2>3. CASE o # th
    BY <1>1, <1>2, <2>1, <2>3
  <2>4. QED
    BY <2>2, <2>3
<1>8. ASSUME NEW th \in Threads, NEW t \in Txs, Begin(th, t) \/ Resume(th, t) PROVE Asks(o)
  BY <1>2, <1>8 DEF Begin, Resume
<1>9. ASSUME NEW th \in Threads, Suspend(th) \/ Complete(th) \/ Completed(th) PROVE Asks(o)
  BY <1>1, <1>2, <1>3, <1>9 DEF Suspend, Complete, Completed, Goto, Demarcating
<1>10. ASSUME NEW t \in Txs, MarkRollback(t) \/ TimeOut(t) \/ CompletionStep(t) PROVE Asks(o)
  BY <1>2, <1>10 DEF MarkRollback, TimeOut, CompletionStep, Resolve, ForgetConn, RunTermination, RunClosing
<1>11. CASE UNCHANGED vars
  BY <1>2, <1>11 DEF vars
<1>12. QED
  BY <1>4, <1>5, <1>6, <1>7, <1>8, <1>9, <1>10, <1>11 DEF Next, ClientCall, OneOf

LEMMA OwnAside ==
  ASSUME Alone, Alone', OwnInv, Aside, \A o \in Threads : Asks(o)
  PROVE  OwnInv'
<1>1. /\ TiedOnce /\ (\A c \in unused : NeverLent(c)) /\ \A o \in Threads : OwnAt(o) /\ UserAt(o)
      /\ unused \subseteq Conns /\ unused' = unused /\ asked' = asked
      /\ \A g \in Handles : handle'[g].tx = handle[g].tx /\ handle'[g].conn = handle[g].conn
  BY DEF OwnInv, Alone, TypeInv, TypeOK, Aside, Holds
<1>2. ASSUME NEW c \in Conns, NEW u \in Txs, Tied(c, u)' PROVE Tied(c, u)
  BY <1>1, <1>2, NullsAssumption DEF Tied, Aside
<1>3. \A c \in Conns : Handled(c)' <=> Handled(c)
  BY <1>1 DEF Handled
<1>4. ASSUME NEW o \in Threads, pc'[o] \in Opening
      PROVE  (pc'[o] = pc[o] /\ frame'[o] = frame[o]) \/ (frame'[o].conn = NoConn /\ pc'[o] \in {"lookup", "borrow"})
  <2>1. (pc[o] \in {"lookup", "borrow"} => frame[o].conn = NoConn)'
    BY DEF Alone, LeakInv, CallOK, CallLocal
  <2>2. QED
    BY <1>4, <2>1 DEF Aside, Calls
<1>5. ASSUME NEW o \in Threads, NEW c \in Conns, InHand(o, c)' PROVE InHand(o, c)
  BY <1>4, <1>5, NullsAssumption DEF InHand
<1>6. TiedOnce'
  BY <1>1, <1>2 DEF TiedOnce
<1>7. ASSUME NEW c \in unused PROVE NeverLent(c)'
  BY <1>1, <1>2, <1>3, <1>5, <1>7 DEF NeverLent, Free
<1>8. ASSUME NEW o \in Threads PROVE OwnAt(o)'
  <2>1. CASE pc'[o] \in Opening /\ pc'[o] = pc[o] /\ frame'[o] = frame[o]
    <3>1. OwnAt(o)
      BY <1>1
    <3>2. pc[o] \in Opening /\ pc[o] \notin Stale
      BY <2>1, <3>1 DEF OwnAt
    <3>3. ASSUME NEW c \in Conns, frame[o].conn = c
          PROVE  /\ pc[o] \notin Late => Free(c)' /\ ~Handled(c)'
                 /\ \A u \in Txs : Tied(c, u)' => u = frame[o].tx
                 /\ \A q \in Threads : InHand(q, c)' => q = o
      BY <1>2, <1>3, <1>5, <3>1, <3>2, <3>3 DEF OwnAt, Free
    <3>4. QED
      BY <2>1, <3>2, <3>3 DEF OwnAt
  <2>2. CASE frame'[o].conn = NoConn /\ pc'[o] \in {"lookup", "borrow"}
    BY <2>2, NullsAssumption DEF OwnAt, Stale
  <2>3. QED
    BY <1>4, <2>1, <2>2 DEF OwnAt
<1>9. ASSUME NEW o \in Threads PROVE UserAt(o)'
  <2>1. CASE pc'[o] \notin Demarcating
    BY <2>1 DEF UserAt, Demarcating
  <2>2. CASE pc'[o] \in Demarcating /\ pc'[o] = pc[o] /\ frame'[o] = frame[o]
    <3>1. frame[o].h \in Handles /\ handle[frame[o].h].tx \in Txs
      BY <2>2 DEF Alone, TypeInv, FrameOK, LocalOK, SharedInv, UserTx
    <3>2. status[handle[frame[o].h].tx] \in {"completing", "done"}
            => status'[handle[frame[o].h].tx] \in {"completing", "done"}
      BY <3>1 DEF Aside, Forward
    <3>3. UserAt(o)
      BY <1>1
    <3>4. QED
      BY <1>1, <2>2, <3>1, <3>2, <3>3 DEF UserAt
  <2>3. CASE pc'[o] = "demLookup" /\ frame'[o].conn = handle[frame'[o].h].conn /\ frame'[o].h \in Handles
    BY <1>1, <2>3 DEF UserAt
  <2>4. CASE /\ pc[o] = "demLookup" /\ pc'[o] = "demCheck"
             /\ frame'[o].h = frame[o].h /\ frame'[o].conn = frame[o].conn
             /\ frame'[o].seen = connectionMemory[frame[o].conn] /\ frame'[o].seen # NoTx
    <3>1. /\ frame[o].h \in Handles /\ handle[frame[o].h].tx \in Txs /\ frame[o].conn \in Conns
          /\ connectionMemory[frame[o].conn] \in Txs \cup {NoTx}
      BY <2>4 DEF Alone, TypeInv, TypeOK, FrameOK, LocalOK, SharedInv, UserTx, Demarcating
    <3>2. handle[frame[o].h].conn = frame[o].conn
      BY <1>1, <2>4 DEF UserAt, Demarcating
    <3>3. Tied(frame[o].conn, handle[frame[o].h].tx) /\ Tied(frame[o].conn, frame'[o].seen)
      BY <2>4, <3>1, <3>2 DEF Tied
    <3>4. handle[frame[o].h].tx = frame'[o].seen
      BY <1>1, <2>4, <3>1, <3>3 DEF TiedOnce
    <3>5. QED
      BY <1>1, <2>4, <3>1, <3>2, <3>4 DEF UserAt
  <2>5. CASE pc[o] = "demCheck" /\ pc'[o] = "demDelegate" /\ frame'[o] = frame[o] /\ ~IsActive(frame[o].seen)
    <3>1. /\ frame[o].h \in Handles /\ handle[frame[o].h].tx \in Txs /\ status \in [Txs -> Statuses]
      BY <2>5 DEF Alone, TypeInv, TypeOK, FrameOK, LocalOK, SharedInv, UserTx, Demarcating
    <3>2. handle[frame[o].h].tx = frame[o].seen /\ handle[frame[o].h].conn = frame[o].conn
      BY <1>1, <2>5 DEF UserAt, Demarcating
    <3>3. status[handle[frame[o].h].tx] # "none"
      BY <3>1 DEF Alone, SharedInv, Begun
    <3>4. status[handle[frame[o].h].tx] \in {"completing", "done"}
      BY <2>5, <3>1, <3>2, <3>3, NullsAssumption DEF IsActive, Statuses
    <3>5. status'[handle[frame[o].h].tx] \in {"completing", "done"}
      BY <3>1, <3>4 DEF Aside, Forward
    <3>6. QED
      BY <1>1, <2>5, <3>1, <3>2, <3>5 DEF UserAt
  <2>6. QED
    BY <2>1, <2>2, <2>3, <2>4, <2>5 DEF Asks
<1>10. QED
  BY <1>1, <1>6, <1>7, <1>8, <1>9 DEF OwnInv

LEMMA InitOwnInv == Init => OwnInv
<1> SUFFICES ASSUME Init PROVE OwnInv
  OBVIOUS
<1>1. \A c \in Conns, t \in Txs : ~Tied(c, t)
  BY NullsAssumption DEF Init, Tied, NewHandle
<1>2. \A th \in Threads : pc[th] \notin Opening \cup Demarcating
  BY DEF Init, Opening, Searching, Registering, Demarcating
<1>3. \A c \in Conns : ~Handled(c)
  BY NullsAssumption DEF Init, Handled, NewHandle
<1>4. QED
  BY <1>1, <1>2, <1>3 DEF Init, OwnInv, TiedOnce, NeverLent, Free, InHand, OwnAt, UserAt, Demarcating

LEMMA OwnAlways == ASSUME ~Recycles PROVE Spec => [](Alone /\ OwnInv)
<1>1. ASSUME Alone, OwnInv, [Next]_vars PROVE OwnInv'
  <2>1. CASE \E th \in Threads : OpenStep(th)
    BY <1>1, <2>1, OwnOpen
  <2>2. CASE ~ \E th \in Threads : OpenStep(th)
    <3>1. Alone'
      BY <1>1, ShapeStep, LeakStep, SharedStep DEF Alone
    <3>2. Aside
      BY <1>1, <2>2, StepCases
    <3>3. \A o \in Threads : Asks(o)
      BY <1>1, <2>2, NextAsks
    <3>4. QED
      BY <1>1, <3>1, <3>2, <3>3, OwnAside
  <2>3. QED
    BY <2>1, <2>2
<1>2. Init => OwnInv
  BY InitOwnInv
<1>3. QED
  BY <1>1, <1>2, SharedAlways, PTL DEF Spec

(* Where the pool lends no ConnectionHandle twice, a connection is enlisted in  *)
(* one transaction in its whole life, whoever shares the transactions and       *)
(* whenever the manager rolls one back: the branches of two transactions never   *)
(* meet on one connection.                                                    *)
EnlistedOnce == \A c \in Conns, t, u \in Txs : c \in enlisted[t] /\ c \in enlisted[u] => t = u

THEOREM EnlistedOnceHolds == ASSUME ~Recycles PROVE Spec => []EnlistedOnce
<1>1. ASSUME Alone, OwnInv PROVE EnlistedOnce
  BY <1>1 DEF OwnInv, TiedOnce, Tied, EnlistedOnce, Alone, SharedInv, JoinedInv
<1>2. QED
  BY <1>1, OwnAlways, PTL

(* A commit, rollback, setAutoCommit or setReadOnly on a wrapper that reaches   *)
(* the plain connection does so after the transaction the connection is         *)
(* enlisted in, although isInTransaction reads connectionMemory and the status   *)
(* in two steps, and the manager may roll back between them.                   *)
THEOREM NoLocalDemarcationHolds == ASSUME ~Recycles PROVE Spec => []NoLocalDemarcation
<1>1. ASSUME Alone, OwnInv PROVE NoLocalDemarcation
  <2> SUFFICES ASSUME NEW th \in Threads, NEW t \in Txs, pc[th] = "demDelegate", frame[th].conn \in enlisted[t]
               PROVE  status[t] # "active"
    BY DEF NoLocalDemarcation, At
  <2>1. /\ frame[th].h \in Handles /\ handle[frame[th].h].tx \in Txs /\ frame[th].conn \in Conns
    BY <1>1 DEF Alone, TypeInv, FrameOK, LocalOK, SharedInv, UserTx, Demarcating
  <2>2. /\ handle[frame[th].h].conn = frame[th].conn
        /\ status[handle[frame[th].h].tx] \in {"completing", "done"}
    BY <1>1 DEF OwnInv, UserAt, Demarcating
  <2>3. Tied(frame[th].conn, t) /\ Tied(frame[th].conn, handle[frame[th].h].tx)
    BY <1>1, <2>1, <2>2 DEF Tied, Alone, SharedInv, JoinedInv
  <2>4. t = handle[frame[th].h].tx
    BY <1>1, <2>1, <2>3 DEF OwnInv, TiedOnce
  <2>5. QED
    BY <2>2, <2>4
<1>2. QED
  BY <1>1, OwnAlways, PTL

-----------------------------------------------------------------------------
(* What a transaction leaves behind: the safety half of Settled.             *)

(* Who answers for an entry of connectionMemory: the thread between the second  *)
(* put and the callback, the callback, the manager in the middle of it, or the   *)
(* call that failed.                                                        *)
Noted(t, c) ==
  \/ \E th \in Threads : pc[th] \in {"enlist", "hook"} /\ frame[th].tx = t /\ frame[th].conn = c
  \/ c \in terminations[t] \/ forgetting[t] = c
  \/ \E h \in Handles : handle[h].state = "failed" /\ handle[h].tx = NoTx /\ handle[h].conn = c

NotedInv == \A t \in Txs, c \in Conns : connectionMemory[c] = t => Noted(t, c)

LEMMA NotedOpen ==
  ASSUME Alone, NotedInv, NEW th \in Threads, OpenStep(th)
  PROVE  NotedInv'
<1>1. PICK h \in Handles : h = frame[th].h
  BY CallHandle DEF Alone
<1>2. /\ \A o \in Threads \ {th} : pc'[o] = pc[o] /\ frame'[o] = frame[o]
      /\ \A g \in Handles : g # h => handle'[g] = handle[g]
  BY <1>1, Locality DEF Alone
<1>3. Records(th) /\ (GoesOn(th) \/ Returns(th, h))
  BY <1>1, OpenRecords, OpenMoves DEF Alone
<1>4. ~Ended(h) /\ handle[h].tx = NoTx
  <2>1. pc[th] \in Opening
    BY InOpening
  <2>2. QED
    BY <1>1, <2>1 DEF Alone, LeakInv, CallOK, SharedInv, UserTx, Ended
<1>5. SUFFICES ASSUME NEW t \in Txs, NEW c \in Conns, connectionMemory'[c] = t PROVE Noted(t, c)'
  BY DEF NotedInv
<1>6. CASE connectionMemory[c] # t
  <2>1. pc[th] = "putConn" /\ c = frame[th].conn /\ t = frame[th].tx
    BY <1>3, <1>5, <1>6, NullsAssumption DEF Records
  <2>2. pc'[th] = "enlist" /\ frame'[th].conn = c /\ frame'[th].tx = t
    BY <1>3, <2>1 DEF GoesOn, Returns, Registering
  <2>3. QED
    BY <2>2 DEF Noted
<1>7. CASE connectionMemory[c] = t
  <2>1. Noted(t, c)
    BY <1>7 DEF NotedInv
  <2>2. terminations[t] \subseteq terminations'[t] /\ forgetting' = forgetting
    BY <1>3 DEF Records
  <2>3. ASSUME NEW g \in Handles, handle[g].state = "failed" PROVE handle'[g] = handle[g]
    BY <1>2, <1>4, <2>3 DEF Ended
  <2>4. ASSUME pc[th] \in {"enlist", "hook"}, frame[th].tx = t, frame[th].conn = c PROVE Noted(t, c)'
    <3>1. CASE GoesOn(th)
      BY <2>4, <3>1 DEF GoesOn, Noted, Registering
    <3>2. CASE Returns(th, h)
      BY <1>4, <2>4, <3>2 DEF Returns, Noted
    <3>3. QED
      BY <1>3, <3>1, <3>2
  <2>5. ASSUME NEW o \in Threads, o # th, pc[o] \in {"enlist", "hook"}, frame[o].tx = t, frame[o].conn = c
        PROVE  Noted(t, c)'
    BY <1>2, <2>5 DEF Noted
  <2>6. QED
    BY <2>1, <2>2, <2>3, <2>4, <2>5 DEF Noted
<1>8. QED
  BY <1>6, <1>7

\* A connection to be forgotten stays so until its entry is gone.
Forgets ==
  \A t \in Txs, c \in Conns : c \in terminations[t] \/ forgetting[t] = c =>
    c \in terminations'[t] \/ forgetting'[t] = c \/ connectionMemory'[c] = NoTx

LEMMA NextForgets ==
  ASSUME TypeInv, [Next]_vars, ~ \E th \in Threads : OpenStep(th)
  PROVE  Forgets
<1>1. /\ terminations \in [Txs -> SUBSET Conns] /\ forgetting \in [Txs -> Conns \cup {NoConn}]
      /\ connectionMemory \in [Conns -> Txs \cup {NoTx}]
  BY DEF TypeInv, TypeOK
<1>2. ASSUME NEW th \in Threads, ClientCall(th) \/ UseStep(th) \/ Completed(th)
      PROVE  terminations' = terminations /\ forgetting' = forgetting
  BY <1>2 DEF ClientCall, OneOf, GetConnection, Close, Demarcate, Begin, Resume, Suspend, Complete, Completed,
     UseStep, CloseLookup, CloseCheck, CloseContext, CloseDefer, DemLookup, DemCheck, DemDelegate, tmVars
<1>3. ASSUME NEW t \in Txs, MarkRollback(t) \/ TimeOut(t) \/ Resolve(t) \/ \E h \in Handles : RunClosing(t, h)
      PROVE  terminations' = terminations /\ forgetting' = forgetting
  BY <1>3 DEF MarkRollback, TimeOut, Resolve, RunClosing
<1>4. ASSUME NEW t \in Txs, NEW c \in Conns, RunTermination(t, c) PROVE Forgets
  BY <1>1, <1>4, NullsAssumption DEF RunTermination, Forgets
<1>5. ASSUME NEW t \in Txs, ForgetConn(t) PROVE Forgets
  BY <1>1, <1>5 DEF ForgetConn, Forgets
<1>6. CASE UNCHANGED vars
  BY <1>6 DEF vars, tmVars, Forgets
<1>7. QED
  BY <1>2, <1>3, <1>4, <1>5, <1>6 DEF Next, CompletionStep, Forgets

LEMMA NotedAside ==
  ASSUME Alone, NotedInv, Aside, Forgets
  PROVE  NotedInv'
<1> SUFFICES ASSUME NEW t \in Txs, NEW c \in Conns, connectionMemory'[c] = t PROVE Noted(t, c)'
  BY DEF NotedInv
<1>1. connectionMemory[c] = t /\ connectionMemory'[c] # NoTx
  BY NullsAssumption DEF Aside
<1>2. Noted(t, c)
  BY <1>1 DEF NotedInv
<1>3. \A o \in Threads : pc[o] \in {"enlist", "hook"} => pc'[o] = pc[o] /\ frame'[o] = frame[o]
  BY DEF Aside, Calls, Opening, Registering
<1>4. c \in terminations[t] \/ forgetting[t] = c => c \in terminations'[t] \/ forgetting'[t] = c
  BY <1>1 DEF Forgets
<1>5. \A h \in Handles : handle[h].state = "failed" /\ handle[h].tx = NoTx =>
        handle'[h].state = "failed" /\ handle'[h].tx = NoTx /\ handle'[h].conn = handle[h].conn
  BY DEF Aside, Holds
<1>6. QED
  BY <1>2, <1>3, <1>4, <1>5 DEF Noted

LEMMA NotedAlways == Spec => [](Alone /\ NotedInv)
<1>1. ASSUME Alone, NotedInv, [Next]_vars PROVE NotedInv'
  BY <1>1, StepCases, NotedOpen, NextForgets, NotedAside DEF Alone
<1>2. Init => NotedInv
  BY NullsAssumption DEF Init, NotedInv
<1>3. QED
  BY <1>1, <1>2, SharedAlways, PTL DEF Spec

(* When a transaction is over and its callbacks have run, both maps have        *)
(* forgotten it, unless a getConnection call in it is still on its way, or has    *)
(* ended in an exception with that connection before it registered the callback. *)
(* In every environment: whoever shares the transaction, whenever the manager    *)
(* rolls back and whichever handles the pool lends again.                      *)
ForgottenOnceDrained ==
  \A t \in Txs, c \in Conns : Drained(t) /\ Remembered(t, c) =>
    \/ \E th \in Threads : frame[th].tx = t
    \/ \E h \in Handles : handle[h].state = "failed" /\ handle[h].conn = c

THEOREM ForgottenOnceDrainedHolds == Spec => []ForgottenOnceDrained
<1>1. ASSUME Alone, NotedInv PROVE ForgottenOnceDrained
  <2> SUFFICES ASSUME NEW t \in Txs, NEW c \in Conns, Drained(t), Remembered(t, c)
               PROVE  \/ \E th \in Threads : frame[th].tx = t
                      \/ \E h \in Handles : handle[h].state = "failed" /\ handle[h].conn = c
    BY DEF ForgottenOnceDrained
  <2>1. terminations[t] = {} /\ forgetting[t] # c
    BY NullsAssumption DEF Drained
  <2>2. transactionMemory[t] = c => Kept(t, c)
    BY <1>1 DEF Alone, SharedInv, StaleInv
  <2>3. connectionMemory[c] = t => Noted(t, c)
    BY <1>1 DEF NotedInv
  <2>4. QED
    BY <2>1, <2>2, <2>3 DEF Remembered, Kept, Noted
<1>2. QED
  BY <1>1, NotedAlways, PTL

\* A thread that closes a wrapper has found the wrapper's transaction, ...
SeenInv ==
  \A th \in Threads : pc[th] \in {"closeCheck", "closeDefer"} => handle[frame[th].h].tx = frame[th].seen

\* ... so a wrapper closed in it is back in the pool or a callback of it waits.
ClosedInv ==
  \A h \in Handles : handle[h].state = "closed" /\ handle[h].tx \in Txs =>
    handle[h].conn \notin lent \/ h \in closings[handle[h].tx]

Sees(th) ==
  pc'[th] \in {"closeCheck", "closeDefer"} =>
    \/ pc'[th] = pc[th] /\ frame'[th] = frame[th]
    \/ /\ pc[th] \in {"closeLookup", "closeContext"}
       /\ frame'[th].h = frame[th].h /\ frame'[th].conn = frame[th].conn
       /\ frame'[th].seen = connectionMemory[frame[th].conn] /\ frame'[th].seen # NoTx

LEMMA UseSees ==
  ASSUME TypeInv, NEW th \in Threads, UseStep(th)
  PROVE  Sees(th)
<1>1. pc \in [Threads -> Labels] /\ frame \in [Threads -> Frame] /\ frame[th] \in Frame
  BY DEF TypeInv, TypeOK
<1>2. ASSUME pc[th] \in {"closeLookup", "closeContext"},
             IF connectionMemory[frame[th].conn] = NoTx THEN Raise(th, frame[th].conn)
             ELSE /\ SetFrame(th, [frame[th] EXCEPT !.seen = connectionMemory[frame[th].conn]])
                  /\ UNCHANGED <<handle, monitor>>
      PROVE  Sees(th)
  <2>1. CASE connectionMemory[frame[th].conn] = NoTx
    BY <1>1, <1>2, <2>1, LeaveEffect DEF Raise, Sees
  <2>2. CASE connectionMemory[frame[th].conn] # NoTx
    BY <1>1, <1>2, <2>2 DEF SetFrame, Frame, Sees
  <2>3. QED
    BY <2>1, <2>2
<1>3. CASE CloseLookup(th) \/ CloseContext(th)
  BY <1>2, <1>3 DEF CloseLookup, CloseContext, At
<1>4. CASE CloseCheck(th) \/ CloseDefer(th) \/ DemLookup(th) \/ DemCheck(th) \/ DemDelegate(th)
  <2>1. pc'[th] \notin {"closeCheck", "closeDefer"}
    BY <1>1, <1>4 DEF CloseCheck, CloseDefer, DemLookup, DemCheck, DemDelegate, Goto, Leave
  <2>2. QED
    BY <2>1 DEF Sees
<1>5. QED
  BY <1>3, <1>4 DEF UseStep

LEMMA NextSees ==
  ASSUME TypeInv, CallOK, [Next]_vars, NEW o \in Threads
  PROVE  Sees(o)
<1>1. pc \in [Threads -> Labels] /\ frame \in [Threads -> Frame]
  BY DEF TypeInv, TypeOK
<1>2. ASSUME pc'[o] = pc[o], frame'[o] = frame[o] PROVE Sees(o)
  BY <1>2 DEF Sees
<1>3. ASSUME pc'[o] \notin {"closeCheck", "closeDefer"} PROVE Sees(o)
  BY <1>3 DEF Sees
<1>4. ASSUME NEW th \in Threads, OpenStep(th) \/ UseStep(th) PROVE Sees(o)
  <2>1. CASE o # th
    BY <1>2, <1>4, <2>1, Locality
  <2>2. CASE o = th /\ OpenStep(th)
    <3>1. PICK h \in Handles : h = frame[th].h
      BY <2>2, CallHandle
    <3>2. GoesOn(th) \/ Returns(th, h)
      BY <2>2, <3>1, OpenMoves
    <3>3. QED
      BY <1>3, <2>2, <3>2 DEF GoesOn, Returns, Opening, Searching, Registering
  <2>3. QED
    BY <1>4, <2>1, <2>2, UseSees
<1>5. ASSUME NEW th \in Threads, ClientCall(th) \/ Completed(th) PROVE Sees(o)
  BY <1>1, <1>2, <1>3, <1>5 DEF ClientCall, OneOf, GetConnection, Close, Demarcate, Begin, Resume, Suspend,
     Complete, Completed, Goto, SetFrame
<1>6. ASSUME NEW t \in Txs, MarkRollback(t) \/ TimeOut(t) \/ CompletionStep(t) PROVE Sees(o)
  BY <1>2, <1>6 DEF MarkRollback, TimeOut, CompletionStep, Resolve, ForgetConn, RunTermination, RunClosing
<1>7. CASE UNCHANGED vars
  BY <1>2, <1>7 DEF vars
<1>8. QED
  BY <1>4, <1>5, <1>6, <1>7 DEF Next

LEMMA SeenStep ==
  ASSUME Alone, OwnInv, SeenInv, [Next]_vars
  PROVE  SeenInv'
<1>1. SUFFICES ASSUME NEW o \in Threads, pc'[o] \in {"closeCheck", "closeDefer"}
               PROVE  handle'[frame'[o].h].tx = frame'[o].seen
  BY DEF SeenInv
<1>2. Sees(o) /\ pc[o] \in Closing
  <2>1. Sees(o)
    BY NextSees DEF Alone, LeakInv
  <2>2. QED
    BY <1>1, <2>1 DEF Sees, Closing
<1>3. /\ frame[o].h \in Handles /\ handle[frame[o].h].tx \in Txs /\ Ended(frame[o].h)
      /\ frame[o].conn \in Conns /\ handle[frame[o].h].conn = frame[o].conn
      /\ \A c \in Conns : connectionMemory[c] \in Txs \cup {NoTx}
  BY <1>2 DEF Alone, TypeInv, TypeOK, FrameOK, LocalOK, HandleOK, LeakInv, CallOK, SharedInv, UserTx
<1>4. handle'[frame[o].h].tx = handle[frame[o].h].tx
  <2>1. CASE Aside
    BY <1>3, <2>1 DEF Aside, Holds
  <2>2. ASSUME NEW th \in Threads, OpenStep(th) PROVE handle'[frame[o].h].tx = handle[frame[o].h].tx
    <3>1. PICK h \in Handles : h = frame[th].h
      BY <2>2, CallHandle DEF Alone
    <3>2. \A g \in Handles : g # h => handle'[g] = handle[g]
      BY <2>2, <3>1, Locality DEF Alone
    <3>3. pc[th] \in Opening
      BY <2>2, InOpening
    <3>4. ~Ended(h)
      BY <3>1, <3>3 DEF Alone, LeakInv, CallOK, Ended
    <3>5. QED
      BY <1>3, <3>2, <3>4
  <2>3. QED
    BY <2>1, <2>2, StepCases
<1>5. CASE pc'[o] = pc[o] /\ frame'[o] = frame[o]
  BY <1>1, <1>4, <1>5 DEF SeenInv
<1>6. CASE frame'[o].h = frame[o].h /\ frame'[o].seen = connectionMemory[frame[o].conn] /\ frame'[o].seen # NoTx
  <2>1. Tied(frame[o].conn, handle[frame[o].h].tx) /\ Tied(frame[o].conn, frame'[o].seen)
    BY <1>3, <1>6 DEF Tied
  <2>2. QED
    BY <1>3, <1>4, <1>6, <2>1 DEF OwnInv, TiedOnce
<1>7. QED
  BY <1>1, <1>2, <1>5, <1>6 DEF Sees

\* What a step that is not one of getConnection does to the pool and the wrappers.
Closes ==
  /\ lent' \subseteq lent
  /\ \A h \in Handles : handle'[h].state = "closed" /\ handle[h].tx \in Txs =>
       handle[h].state = "closed" \/ handle[h].conn \notin lent' \/ h \in closings'[handle[h].tx]
  /\ \A t \in Txs : \A h \in closings[t] : h \in closings'[t] \/ handle[h].conn \notin lent'

LEMMA NextCloses ==
  ASSUME Alone, SeenInv, [Next]_vars, ~ \E th \in Threads : OpenStep(th)
  PROVE  Closes
<1>1. /\ closings \in [Txs -> SUBSET Handles] /\ handle \in [Handles -> Handle] /\ lent \subseteq Conns
      /\ TypeInv /\ CallOK
  BY DEF Alone, LeakInv, TypeInv, TypeOK
<1>2. ASSUME closings' = closings, lent' = lent,
             \A h \in Handles : handle'[h].state = "closed" => handle[h].state = "closed"
      PROVE  Closes
  BY <1>2 DEF Closes
<1>3. ASSUME NEW th \in Threads, UseStep(th) PROVE Closes
  <2>1. PICK h \in Handles : h = frame[th].h
    BY <1>1, <1>3, CallHandle
  <2>2. /\ pc[th] \in Closing => handle[h].conn = frame[th].conn
        /\ pc[th] = "closeDefer" => frame[th].seen = handle[h].tx
    BY <1>1, <2>1 DEF CallOK, SeenInv
  <2>3. CASE CloseLookup(th) \/ CloseContext(th)
    <3>1. closings' = closings /\ lent' = lent
          /\ (handle' = handle \/ handle' = [handle EXCEPT ![h] = [handle[h] EXCEPT !.state = "failed", !.conn = frame[th].conn]])
      BY <2>1, <2>3 DEF CloseLookup, CloseContext, Raise, SetHandle, tmVars, poolVars
    <3>2. \A g \in Handles : handle'[g].state = "closed" => handle[g].state = "closed"
      BY <1>1, <3>1 DEF Handle
    <3>3. QED
      BY <1>2, <3>1, <3>2
  <2>4. CASE CloseCheck(th)
    <3>1. CASE lent' = lent /\ handle' = handle /\ closings' = closings
      BY <1>2, <3>1
    <3>2. CASE /\ lent' = lent \ {handle[h].conn} /\ closings' = closings
               /\ handle' = [handle EXCEPT ![h] = [handle[h] EXCEPT !.state = "closed"]]
      BY <1>1, <3>2 DEF Closes
    <3>3. QED
      BY <2>1, <2>2, <2>4, <3>1, <3>2 DEF CloseCheck, Return, SetHandle, At, Closing, tmVars, poolVars
  <2>5. CASE CloseDefer(th)
    <3>1. CASE handle' = handle /\ closings' = closings /\ lent' = lent
      BY <1>2, <3>1
    <3>2. CASE /\ lent' = lent
               /\ closings' = [closings EXCEPT ![handle[h].tx] = @ \cup {h}]
               /\ handle' = [handle EXCEPT ![h] = [handle[h] EXCEPT !.closed = TRUE, !.state = "closed"]]
      BY <1>1, <3>2 DEF Closes
    <3>3. CASE /\ lent' = lent /\ closings' = closings
               /\ handle' = [handle EXCEPT ![h] = [handle[h] EXCEPT !.closed = TRUE, !.state = "failed"]]
      <4>1. \A g \in Handles : handle'[g].state = "closed" => handle[g].state = "closed"
        BY <1>1, <3>3 DEF Handle
      <4>2. QED
        BY <1>2, <3>3, <4>1
    <3>4. QED
      BY <2>1, <2>2, <2>5, <3>1, <3>2, <3>3 DEF CloseDefer, SetHandle, At, poolVars
  <2>6. CASE DemLookup(th) \/ DemCheck(th) \/ DemDelegate(th)
    BY <1>2, <2>6 DEF DemLookup, DemCheck, DemDelegate, tmVars, poolVars
  <2>7. QED
    BY <1>3, <2>3, <2>4, <2>5, <2>6 DEF UseStep
<1>4. ASSUME NEW th \in Threads, NEW h \in Handles, NEW auth \in Variants, GetConnection(th, h, auth) PROVE Closes
  BY <1>1, <1>2, <1>4 DEF GetConnection, SetHandle, Handle, tmVars, poolVars
<1>5. ASSUME NEW th \in Threads, NEW h \in Handles, Close(th, h) \/ Demarcate(th, h) PROVE Closes
  <2>1. closings' = closings
    BY <1>5 DEF Close, Demarcate, tmVars
  <2>2. CASE handle' = handle /\ lent' = lent
    BY <1>2, <2>1, <2>2
  <2>3. CASE /\ handle[h].tx = NoTx /\ lent' = lent \ {handle[h].conn}
             /\ handle' = [handle EXCEPT ![h] = [handle[h] EXCEPT !.state = "closed"]]
    BY <1>1, <2>1, <2>3, NullsAssumption DEF Closes
  <2>4. QED
    BY <1>5, <2>2, <2>3 DEF Close, Demarcate, Return, SetHandle, poolVars
<1>6. ASSUME NEW th \in Threads, (\E t \in Txs : Begin(th, t) \/ Resume(th, t)) \/ Suspend(th) \/ Complete(th) \/ Completed(th)
      PROVE  Closes
  BY <1>2, <1>6 DEF Begin, Resume, Suspend, Complete, Completed, poolVars
<1>7. ASSUME NEW t \in Txs, MarkRollback(t) \/ TimeOut(t) \/ Resolve(t) \/ ForgetConn(t) \/ \E c \in Conns : RunTermination(t, c)
      PROVE  Closes
  BY <1>2, <1>7 DEF MarkRollback, TimeOut, Resolve, ForgetConn, RunTermination, poolVars
<1>8. ASSUME NEW t \in Txs, NEW h \in Handles, RunClosing(t, h) PROVE Closes
  BY <1>1, <1>8 DEF RunClosing, Return, Closes
<1>9. CASE UNCHANGED vars
  BY <1>2, <1>9 DEF vars, tmVars, poolVars
<1>10. QED
  BY <1>3, <1>4, <1>5, <1>6, <1>7, <1>8, <1>9 DEF Next, ClientCall, CompletionStep, OneOf

\* What getConnection takes from the pool, if that lends no handle twice, was never
\* lent before.
LEMMA OpenLends ==
  ASSUME ~Recycles, NEW th \in Threads, OpenStep(th)
  PROVE  lent' \subseteq lent \cup unused
<1>1. ASSUME NEW c \in Conns, Lend(c) PROVE lent' \subseteq lent \cup unused
  BY <1>1 DEF Lend, Lendable, OneOf
<1>2. QED
  BY <1>1 DEF OpenStep, Advance, SwapRaises, Lookup, Enter, Borrow, Probe, Inspect, Judge, EvictTx, EvictConn, Swap, Release,
     Found, Recheck, PutTx, PutConn, Enlist, Hook, Wrap, Return, poolVars

LEMMA ClosedStep ==
  ASSUME ~Recycles, Alone, OwnInv, SeenInv, ClosedInv, [Next]_vars
  PROVE  ClosedInv'
<1> SUFFICES ASSUME NEW h \in Handles, handle'[h].state = "closed", handle'[h].tx \in Txs
             PROVE  handle'[h].conn \notin lent' \/ h \in closings'[handle'[h].tx]
  BY DEF ClosedInv
<1>1. handle[h].state = "closed" /\ handle[h].tx \in Txs => handle[h].conn \notin lent \/ h \in closings[handle[h].tx]
  BY DEF ClosedInv
<1>2. ASSUME NEW th \in Threads, OpenStep(th)
      PROVE  handle'[h].conn \notin lent' \/ h \in closings'[handle'[h].tx]
  <2>1. PICK g \in Handles : g = frame[th].h
    BY <1>2, CallHandle DEF Alone
  <2>2. Records(th) /\ (GoesOn(th) \/ Returns(th, g)) /\ \A f \in Handles : f # g => handle'[f] = handle[f]
    BY <1>2, <2>1, OpenRecords, OpenMoves, Locality DEF Alone
  <2>3. handle'[h] = handle[h] /\ closings' = closings
    BY <2>2 DEF Records, GoesOn, Returns
  <2>4. handle[h].conn \notin unused
    <3>1. Ended(h) /\ unused \subseteq Conns
      BY <2>3 DEF Ended, Alone, TypeInv, TypeOK
    <3>2. QED
      BY <3>1 DEF OwnInv, NeverLent, Handled
  <2>5. QED
    BY <1>1, <1>2, <2>3, <2>4, OpenLends
<1>3. CASE ~ \E th \in Threads : OpenStep(th)
  <2>1. Aside /\ Closes
    BY <1>3, StepCases, NextCloses
  <2>2. handle'[h].tx = handle[h].tx /\ handle'[h].conn = handle[h].conn
    BY <2>1 DEF Aside, Holds
  <2>3. QED
    BY <1>1, <2>1, <2>2 DEF Closes
<1>4. QED
  BY <1>2, <1>3

(* A connection closed in a transaction is back in the pool when the callbacks   *)
(* of that transaction have run, however many wrappers it had, whoever closed     *)
(* them, and whether the close was put off or went through at once.  The pool     *)
(* must lend no ConnectionHandle twice, or a later call may have it by then.     *)
ClosedIsReturned ==
  \A t \in Txs, h \in Handles :
    Drained(t) /\ handle[h].state = "closed" /\ handle[h].tx = t => handle[h].conn \notin lent

THEOREM ClosedIsReturnedHolds == ASSUME ~Recycles PROVE Spec => []ClosedIsReturned
<1>1. Init => SeenInv /\ ClosedInv
  BY NullsAssumption DEF Init, SeenInv, ClosedInv, NewHandle
<1>2. ASSUME Alone, OwnInv, SeenInv, ClosedInv, [Next]_vars PROVE (SeenInv /\ ClosedInv)'
  BY <1>2, SeenStep, ClosedStep
<1>3. ASSUME ClosedInv PROVE ClosedIsReturned
  BY <1>3 DEF ClosedInv, ClosedIsReturned, Drained
<1>4. QED
  BY <1>1, <1>2, <1>3, OwnAlways, PTL DEF Spec

=============================================================================
