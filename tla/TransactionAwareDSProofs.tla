---------------------- MODULE TransactionAwareDSProofs ----------------------
(***************************************************************************)
(* Theorems about TransactionAwareDS.                                      *)
(***************************************************************************)
EXTENDS TransactionAwareDS, TLAPS

(* What the local variables of a thread hold at each statement.              *)
LocalOK(th) ==
  /\ pc[th] \in Opening \cup Closing \cup Demarcating => frame[th].h \in Handles
  /\ pc[th] \in {"lookup", "enter", "recheck", "wrap"} \cup Registering => frame[th].tx \in Txs
  /\ pc[th] \in (Searching \ {"borrow"}) \cup {"recheck", "wrap"} \cup Registering
                 \cup Closing \cup Demarcating => frame[th].conn \in Conns
  /\ pc[th] = "enter" /\ ~frame[th].auth => frame[th].conn \in Conns
  /\ pc[th] = "release" => frame[th].next \in Conns
  /\ pc[th] \in {"judge", "evictTx", "evictConn", "closeCheck", "closeDefer", "demCheck"}
       => frame[th].seen \in Txs
  /\ pc[th] = "completing" => assoc[th] \in Txs

FrameOK == \A th \in Threads : LocalOK(th)

(* A call that has ended left a connection behind; only such a connection    *)
(* can be closed or used.                                                    *)
Ended(h) == handle[h].state \notin {"unused", "opening"}

HandleOK ==
  /\ \A h \in Handles : Ended(h) => handle[h].conn \in Conns
  /\ \A th \in Threads : pc[th] \in Closing \cup Demarcating => Ended(frame[th].h)

TypeInv == TypeOK /\ FrameOK /\ HandleOK

(* What a getConnection call under way holds, and what a closing thread does. *)
CallLocal(th) ==
  /\ pc[th] \in Opening \ {"release"} => frame[th].next = NoConn
  /\ pc[th] \in {"lookup", "borrow"} => frame[th].conn = NoConn
  /\ pc[th] = "enter" /\ frame[th].auth => frame[th].conn = NoConn

(* Each call under way has a handle of its own, without a connection yet; a    *)
(* thread closing a wrapper works on the wrapper's connection.                *)
CallOK ==
  /\ \A h \in Handles : ~Ended(h) => handle[h].conn = NoConn
  /\ \A th \in Threads :
       /\ pc[th] \in Opening => handle[frame[th].h].state = "opening"
       /\ pc[th] \in Closing => handle[frame[th].h].conn = frame[th].conn
       /\ CallLocal(th)
  /\ \A th, o \in Threads :
       pc[th] \in Opening /\ pc[o] \in Opening /\ frame[th].h = frame[o].h => th = o

(* Who answers for a connection, threads that close one not counted.         *)
Accounted(c) ==
  \/ \E th \in Threads : pc[th] \in Opening /\ c \in {frame[th].conn, frame[th].next}
  \/ \E h \in Handles :
       /\ handle[h].conn = c
       /\ handle[h].state \in {"open", "failed"} \/ \E t \in Txs : h \in closings[t]

LeakInv == CallOK /\ \A c \in lent : Accounted(c)

(* Whatever is known of a transaction, it has begun.                         *)
Begun ==
  \A t \in Txs : status[t] = "none" =>
    /\ transactionMemory[t] = NoConn
    /\ \A c \in Conns : connectionMemory[c] # t
    /\ \A h \in Handles : handle[h].tx # t
    /\ \A th \in Threads : assoc[th] # t /\ frame[th].tx # t /\ frame[th].seen # t

(* A transaction has one thread, and a getConnection call works for the thread's *)
(* own transaction.                                                           *)
Solo ==
  /\ \A th, other \in Threads : assoc[th] = assoc[other] /\ assoc[th] # NoTx => th = other
  /\ \A th \in Threads : pc[th] \in Opening /\ frame[th].tx # NoTx => assoc[th] = frame[th].tx

(* What transactionMemory holds for the transaction of a getConnection call.  *)
RememberedAt(th) ==
  LET t == frame[th].tx IN
  t # NoTx /\ IsActive(t) =>
    /\ pc[th] \in Searching \cup {"enter", "recheck", "putTx"} => transactionMemory[t] = NoConn
    /\ pc[th] \in {"putConn", "enlist", "hook", "wrap"} => transactionMemory[t] = frame[th].conn
    /\ pc[th] \in {"hook", "wrap"} /\ status[t] = "active" => frame[th].conn \in asked[t]

(* An entry about to be evicted belongs to a transaction that is over.        *)
EvictsOverAt(th) == pc[th] = "evictTx" => status[frame[th].seen] \in {"completing", "done"}

(* The connection remembered for a transaction is asked, or about to be.    *)
RememberedIsAsked ==
  \A t \in Txs : status[t] = "active" /\ transactionMemory[t] # NoConn =>
    \/ transactionMemory[t] \in asked[t]
    \/ \E th \in Threads : frame[th].tx = t /\ pc[th] \in {"putConn", "enlist"}

(* And so for what its client has open, ...                                    *)
OpenIsAsked ==
  \A h \in Handles, t \in Txs : OpenIn(h, t) /\ status[t] = "active" => handle[h].conn \in asked[t]

(* ... which is the connection remembered.                                     *)
OpenIsRemembered ==
  \A h \in Handles, t \in Txs : OpenIn(h, t) /\ IsActive(t) => handle[h].conn = transactionMemory[t]

(* A transaction enlists what it was asked to enlist, and while it is active that *)
(* can only be the connection remembered for it.                              *)
AskedInv ==
  \A t \in Txs :
    /\ enlisted[t] \subseteq asked[t]
    /\ status[t] = "none" => asked[t] = {}
    /\ status[t] = "active" => asked[t] \subseteq {transactionMemory[t]}

SoloInv ==
  /\ Begun /\ Solo /\ RememberedIsAsked /\ OpenIsRemembered /\ OpenIsAsked
  /\ \A th \in Threads : RememberedAt(th) /\ EvictsOverAt(th)

-----------------------------------------------------------------------------
(* Typing *)

LEMMA LabelType == ASSUME TypeOK, NEW th \in Threads, NEW label \in Labels, Goto(th, label)
                   PROVE  pc' \in [Threads -> Labels]
BY DEF TypeOK, Goto

LEMMA FrameType == ASSUME TypeOK, NEW th \in Threads, NEW r \in Frame, SetFrame(th, r)
                   PROVE  frame' \in [Threads -> Frame]
BY DEF TypeOK, SetFrame

LEMMA HandleType == ASSUME TypeOK, NEW h \in Handles, NEW r \in Handle, SetHandle(h, r)
                    PROVE  handle' \in [Handles -> Handle]
BY DEF TypeOK, SetHandle

LEMMA LeaveType == ASSUME TypeOK, NEW th \in Threads, Leave(th)
                   PROVE  pc' \in [Threads -> Labels] /\ frame' \in [Threads -> Frame]
<1>1. "idle" \in Labels
  BY DEF Labels
<1>2. Blank \in Frame
  BY DEF Blank, Frame
<1>3. QED
  BY <1>1, <1>2, LabelType, FrameType DEF Leave

\* The local variables and the handles that the actions write.
LEMMA FrameRecords ==
  ASSUME NEW r \in Frame, NEW c \in Conns, NEW t \in Txs \cup {NoTx}
  PROVE  /\ [r EXCEPT !.conn = c] \in Frame
         /\ [r EXCEPT !.next = c] \in Frame
         /\ [r EXCEPT !.seen = t] \in Frame
         /\ [r EXCEPT !.conn = c, !.next = NoConn, !.seen = NoTx] \in Frame
BY DEF Frame

LEMMA CallRecords ==
  ASSUME NEW h \in Handles, NEW auth \in BOOLEAN, NEW t \in Txs \cup {NoTx}, NEW c \in Conns
  PROVE  /\ [Blank EXCEPT !.h = h, !.auth = auth, !.tx = t] \in Frame
         /\ [Blank EXCEPT !.h = h, !.conn = c] \in Frame
BY DEF Blank, Frame

LEMMA HandleRecords ==
  ASSUME NEW r \in Handle, NEW s \in HandleStates
  PROVE  /\ [r EXCEPT !.state = s] \in Handle
         /\ [r EXCEPT !.closed = TRUE, !.state = s] \in Handle
BY DEF Handle

LEMMA MonitorType == ASSUME TypeOK, NEW th \in Threads, LeaveMonitor(th)
                     PROVE  monitor' \in [Txs -> Threads \cup {NoThread}]
BY DEF TypeOK, LeaveMonitor

LEMMA RaiseType ==
  ASSUME TypeOK, NEW th \in Threads, NEW c \in Conns, frame[th].h \in Handles, Raise(th, c)
  PROVE  /\ pc' \in [Threads -> Labels] /\ frame' \in [Threads -> Frame]
         /\ handle' \in [Handles -> Handle] /\ monitor' \in [Txs -> Threads \cup {NoThread}]
<1>1. handle[frame[th].h] \in Handle /\ "failed" \in HandleStates
  BY DEF TypeOK, HandleStates
<1>2. [handle[frame[th].h] EXCEPT !.state = "failed", !.conn = c] \in Handle
  BY <1>1 DEF Handle
<1>3. QED
  BY <1>2, HandleType, LeaveType, MonitorType DEF Raise

LEMMA DeliverType ==
  ASSUME TypeOK, NEW th \in Threads, NEW c \in Conns, NEW t \in Txs \cup {NoTx},
         frame[th].h \in Handles, Deliver(th, c, t)
  PROVE  /\ pc' \in [Threads -> Labels] /\ frame' \in [Threads -> Frame]
         /\ handle' \in [Handles -> Handle]
<1>1. handle[frame[th].h] \in Handle /\ "open" \in HandleStates
  BY DEF TypeOK, HandleStates
<1>2. [handle[frame[th].h] EXCEPT !.state = "open", !.conn = c, !.tx = t] \in Handle
  BY <1>1 DEF Handle
<1>3. QED
  BY <1>2, HandleType, LeaveType DEF Deliver

LEMMA LendType == ASSUME TypeOK, NEW c \in Conns, Lend(c)
                  PROVE  lent' \subseteq Conns /\ unused' \subseteq Conns
BY DEF TypeOK, Lend

LEMMA ReturnType == ASSUME TypeOK, NEW c, Return(c)
                    PROVE  lent' \subseteq Conns /\ unused' \subseteq Conns
BY DEF TypeOK, Return


LEMMA TypeStep == ASSUME TypeInv, [Next]_vars PROVE TypeOK'
<1> USE DEF TypeInv
<1>1. ASSUME NEW th \in Threads, Lookup(th) PROVE TypeOK'
  BY <1>1, LeaveType, LabelType, DeliverType DEF Lookup, At, FrameOK, LocalOK, HandleOK, Ended, TypeOK, Labels, Opening, Searching, Registering, Closing, Demarcating, Statuses, HandleStates, tmVars, poolVars, memVars
<1>2. ASSUME NEW th \in Threads, Enter(th) PROVE TypeOK'
  BY <1>2, LabelType DEF Enter, At, FrameOK, LocalOK, HandleOK, Ended, TypeOK, Labels, Opening, Searching, Registering, Closing, Demarcating, Statuses, HandleStates, tmVars, poolVars, memVars
<1>3. ASSUME NEW th \in Threads, Borrow(th) PROVE TypeOK'
  BY <1>3, LabelType, LendType, FrameType, FrameRecords DEF Borrow, At, FrameOK, LocalOK, HandleOK, Ended, TypeOK, Labels, Opening, Searching, Registering, Closing, Demarcating, Statuses, HandleStates, tmVars, poolVars, memVars
<1>4. ASSUME NEW th \in Threads, Probe(th) PROVE TypeOK'
  BY <1>4, LabelType DEF Probe, At, FrameOK, LocalOK, HandleOK, Ended, TypeOK, Labels, Opening, Searching, Registering, Closing, Demarcating, Statuses, HandleStates, tmVars, poolVars, memVars
<1>5. ASSUME NEW th \in Threads, Inspect(th) PROVE TypeOK'
  BY <1>5, LabelType, RaiseType, FrameType, FrameRecords DEF Inspect, At, FrameOK, LocalOK, HandleOK, Ended, TypeOK, Labels, Opening, Searching, Registering, Closing, Demarcating, Statuses, HandleStates, tmVars, poolVars, memVars
<1>6. ASSUME NEW th \in Threads, Judge(th) PROVE TypeOK'
  BY <1>6, LabelType DEF Judge, At, FrameOK, LocalOK, HandleOK, Ended, TypeOK, Labels, Opening, Searching, Registering, Closing, Demarcating, Statuses, HandleStates, tmVars, poolVars, memVars
<1>7. ASSUME NEW th \in Threads, EvictTx(th) PROVE TypeOK'
  BY <1>7, LabelType DEF EvictTx, At, FrameOK, LocalOK, HandleOK, Ended, TypeOK, Labels, Opening, Searching, Registering, Closing, Demarcating, Statuses, HandleStates, tmVars, poolVars, memVars
<1>8. ASSUME NEW th \in Threads, EvictConn(th) PROVE TypeOK'
  BY <1>8, LabelType DEF EvictConn, At, FrameOK, LocalOK, HandleOK, Ended, TypeOK, Labels, Opening, Searching, Registering, Closing, Demarcating, Statuses, HandleStates, tmVars, poolVars, memVars
<1>9. ASSUME NEW th \in Threads, Swap(th) PROVE TypeOK'
  BY <1>9, LabelType, LendType, FrameType, FrameRecords DEF Swap, At, FrameOK, LocalOK, HandleOK, Ended, TypeOK, Labels, Opening, Searching, Registering, Closing, Demarcating, Statuses, HandleStates, tmVars, poolVars, memVars
<1>10. ASSUME NEW th \in Threads, Release(th) PROVE TypeOK'
  BY <1>10, LabelType, ReturnType, FrameType, FrameRecords DEF Release, At, FrameOK, LocalOK, HandleOK, Ended, TypeOK, Labels, Opening, Searching, Registering, Closing, Demarcating, Statuses, HandleStates, tmVars, poolVars, memVars
<1>11. ASSUME NEW th \in Threads, Found(th) PROVE TypeOK'
  BY <1>11, LabelType, DeliverType DEF Found, At, FrameOK, LocalOK, HandleOK, Ended, TypeOK, Labels, Opening, Searching, Registering, Closing, Demarcating, Statuses, HandleStates, tmVars, poolVars, memVars
<1>12. ASSUME NEW th \in Threads, Recheck(th) PROVE TypeOK'
  BY <1>12, LabelType DEF Recheck, At, FrameOK, LocalOK, HandleOK, Ended, TypeOK, Labels, Opening, Searching, Registering, Closing, Demarcating, Statuses, HandleStates, tmVars, poolVars, memVars
<1>13. ASSUME NEW th \in Threads, PutTx(th) PROVE TypeOK'
  BY <1>13, LabelType DEF PutTx, At, FrameOK, LocalOK, HandleOK, Ended, TypeOK, Labels, Opening, Searching, Registering, Closing, Demarcating, Statuses, HandleStates, tmVars, poolVars, memVars
<1>14. ASSUME NEW th \in Threads, PutConn(th) PROVE TypeOK'
  BY <1>14, LabelType DEF PutConn, At, FrameOK, LocalOK, HandleOK, Ended, TypeOK, Labels, Opening, Searching, Registering, Closing, Demarcating, Statuses, HandleStates, tmVars, poolVars, memVars
<1>15. ASSUME NEW th \in Threads, Enlist(th) PROVE TypeOK'
  <2>1. frame[th].h \in Handles /\ frame[th].tx \in Txs /\ frame[th].conn \in Conns
    BY <1>15 DEF Enlist, FrameOK, LocalOK, At, Opening, Registering
  <2>2. asked' \in [Txs -> SUBSET Conns] /\ enlisted' \in [Txs -> SUBSET Conns]
    BY <1>15, <2>1 DEF Enlist, TypeOK
  <2>3. pc' \in [Threads -> Labels] /\ frame' \in [Threads -> Frame]
        /\ handle' \in [Handles -> Handle] /\ monitor' \in [Txs -> Threads \cup {NoThread}]
    BY <1>15, <2>1, LabelType, RaiseType DEF Enlist, TypeOK, Labels, Opening, Registering
  <2>4. QED
    BY <1>15, <2>2, <2>3 DEF Enlist, TypeOK, poolVars, memVars
<1>16. ASSUME NEW th \in Threads, Hook(th) PROVE TypeOK'
  <2>1. frame[th].h \in Handles /\ frame[th].tx \in Txs /\ frame[th].conn \in Conns
    BY <1>16 DEF Hook, FrameOK, LocalOK, At, Opening, Registering
  <2>2. terminations' \in [Txs -> SUBSET Conns]
    BY <1>16, <2>1 DEF Hook, TypeOK
  <2>3. pc' \in [Threads -> Labels] /\ frame' \in [Threads -> Frame]
        /\ handle' \in [Handles -> Handle] /\ monitor' \in [Txs -> Threads \cup {NoThread}]
    BY <1>16, <2>1, LabelType, RaiseType DEF Hook, TypeOK, Labels, Opening, Registering
  <2>4. QED
    BY <1>16, <2>2, <2>3 DEF Hook, TypeOK, poolVars, memVars
<1>17. ASSUME NEW th \in Threads, Wrap(th) PROVE TypeOK'
  BY <1>17, DeliverType, MonitorType DEF Wrap, At, FrameOK, LocalOK, HandleOK, Ended, TypeOK, Labels, Opening, Searching, Registering, Closing, Demarcating, Statuses, HandleStates, tmVars, poolVars, memVars
<1>18. ASSUME NEW th \in Threads, CloseLookup(th) PROVE TypeOK'
  BY <1>18, LabelType, RaiseType, FrameType, FrameRecords DEF CloseLookup, At, FrameOK, LocalOK, HandleOK, Ended, TypeOK, Labels, Opening, Searching, Registering, Closing, Demarcating, Statuses, HandleStates, tmVars, poolVars, memVars
<1>19. ASSUME NEW th \in Threads, CloseCheck(th) PROVE TypeOK'
  BY <1>19, LabelType, LeaveType, ReturnType, HandleType, HandleRecords DEF CloseCheck, At, FrameOK, LocalOK, HandleOK, Ended, TypeOK, Labels, Opening, Searching, Registering, Closing, Demarcating, Statuses, HandleStates, tmVars, poolVars, memVars
<1>20. ASSUME NEW th \in Threads, CloseContext(th) PROVE TypeOK'
  BY <1>20, LabelType, RaiseType, FrameType, FrameRecords DEF CloseContext, At, FrameOK, LocalOK, HandleOK, Ended, TypeOK, Labels, Opening, Searching, Registering, Closing, Demarcating, Statuses, HandleStates, tmVars, poolVars, memVars
<1>21. ASSUME NEW th \in Threads, CloseDefer(th) PROVE TypeOK'
  <2>1. frame[th].h \in Handles /\ frame[th].seen \in Txs
    BY <1>21 DEF CloseDefer, FrameOK, LocalOK, At, Closing
  <2>2. pc' \in [Threads -> Labels] /\ frame' \in [Threads -> Frame]
    BY <1>21, LeaveType DEF CloseDefer
  <2>3. handle' \in [Handles -> Handle]
    BY <1>21, <2>1, HandleType, HandleRecords DEF CloseDefer, TypeOK, HandleStates
  <2>4. closings' \in [Txs -> SUBSET Handles]
    BY <1>21, <2>1 DEF CloseDefer, TypeOK
  <2>5. QED
    BY <1>21, <2>2, <2>3, <2>4 DEF CloseDefer, TypeOK, poolVars, memVars
<1>22. ASSUME NEW th \in Threads, DemLookup(th) PROVE TypeOK'
  BY <1>22, LabelType, LeaveType, FrameType, FrameRecords DEF DemLookup, At, FrameOK, LocalOK, HandleOK, Ended, TypeOK, Labels, Opening, Searching, Registering, Closing, Demarcating, Statuses, HandleStates, tmVars, poolVars, memVars
<1>23. ASSUME NEW th \in Threads, DemCheck(th) PROVE TypeOK'
  BY <1>23, LabelType, LeaveType DEF DemCheck, At, FrameOK, LocalOK, HandleOK, Ended, TypeOK, Labels, Opening, Searching, Registering, Closing, Demarcating, Statuses, HandleStates, tmVars, poolVars, memVars
<1>24. ASSUME NEW th \in Threads, DemDelegate(th) PROVE TypeOK'
  BY <1>24, LeaveType DEF DemDelegate, At, FrameOK, LocalOK, HandleOK, Ended, TypeOK, Labels, Opening, Searching, Registering, Closing, Demarcating, Statuses, HandleStates, tmVars, poolVars, memVars
<1>25. ASSUME NEW th \in Threads, Completed(th) PROVE TypeOK'
  BY <1>25, LabelType DEF Completed, At, FrameOK, LocalOK, HandleOK, Ended, TypeOK, Labels, Opening, Searching, Registering, Closing, Demarcating, Statuses, HandleStates, tmVars, poolVars, memVars
<1>26. ASSUME NEW th \in Threads, Suspend(th) PROVE TypeOK'
  BY <1>26 DEF Suspend, At, FrameOK, LocalOK, HandleOK, Ended, TypeOK, Labels, Opening, Searching, Registering, Closing, Demarcating, Statuses, HandleStates, tmVars, poolVars, memVars
<1>27. ASSUME NEW th \in Threads, Complete(th) PROVE TypeOK'
  BY <1>27, LabelType DEF Complete, At, FrameOK, LocalOK, HandleOK, Ended, TypeOK, Labels, Opening, Searching, Registering, Closing, Demarcating, Statuses, HandleStates, tmVars, poolVars, memVars
<1>28. ASSUME NEW th \in Threads, NEW h \in Handles, NEW auth \in BOOLEAN, GetConnection(th, h, auth) PROVE TypeOK'
  <2> DEFINE t == IF IsActive(assoc[th]) THEN assoc[th] ELSE NoTx
  <2>1. t \in Txs \cup {NoTx} /\ handle[h] \in Handle /\ "opening" \in HandleStates
    BY DEF TypeOK, HandleStates, IsActive
  <2>2. [Blank EXCEPT !.h = h, !.auth = auth, !.tx = t] \in Frame
    BY <2>1 DEF Blank, Frame
  <2>3. [handle[h] EXCEPT !.state = "opening", !.owner = th] \in Handle
    BY <2>1 DEF Handle
  <2>4. frame' \in [Threads -> Frame]
    BY <1>28, <2>2, FrameType DEF GetConnection
  <2>5. handle' \in [Handles -> Handle]
    BY <1>28, <2>3, HandleType DEF GetConnection
  <2>6. pc' \in [Threads -> Labels]
    BY <1>28, LabelType DEF GetConnection, Labels, Opening, Searching
  <2>7. QED
    BY <1>28, <2>4, <2>5, <2>6 DEF GetConnection, TypeOK, tmVars, poolVars, memVars
<1>29. ASSUME NEW th \in Threads, NEW h \in Handles, Close(th, h) PROVE TypeOK'
  BY <1>29, LabelType, ReturnType, HandleType, HandleRecords, CallRecords, FrameType DEF Close, At, FrameOK, LocalOK, HandleOK, Ended, TypeOK, Labels, Opening, Searching, Registering, Closing, Demarcating, Statuses, HandleStates, tmVars, poolVars, memVars
<1>30. ASSUME NEW th \in Threads, NEW h \in Handles, Demarcate(th, h) PROVE TypeOK'
  BY <1>30, LabelType, CallRecords, FrameType DEF Demarcate, At, FrameOK, LocalOK, HandleOK, Ended, TypeOK, Labels, Opening, Searching, Registering, Closing, Demarcating, Statuses, HandleStates, tmVars, poolVars, memVars
<1>31. ASSUME NEW th \in Threads, NEW t \in Txs, Begin(th, t) PROVE TypeOK'
  BY <1>31 DEF Begin, At, FrameOK, LocalOK, HandleOK, Ended, TypeOK, Labels, Opening, Searching, Registering, Closing, Demarcating, Statuses, HandleStates, tmVars, poolVars, memVars
<1>32. ASSUME NEW th \in Threads, NEW t \in Txs, Resume(th, t) PROVE TypeOK'
  BY <1>32 DEF Resume, At, FrameOK, LocalOK, HandleOK, Ended, TypeOK, Labels, Opening, Searching, Registering, Closing, Demarcating, Statuses, HandleStates, tmVars, poolVars, memVars
<1>33. ASSUME NEW t \in Txs, MarkRollback(t) PROVE TypeOK'
  BY <1>33 DEF MarkRollback, At, FrameOK, LocalOK, HandleOK, Ended, TypeOK, Labels, Opening, Searching, Registering, Closing, Demarcating, Statuses, HandleStates, tmVars, poolVars, memVars
<1>34. ASSUME NEW t \in Txs, TimeOut(t) PROVE TypeOK'
  BY <1>34 DEF TimeOut, At, FrameOK, LocalOK, HandleOK, Ended, TypeOK, Labels, Opening, Searching, Registering, Closing, Demarcating, Statuses, HandleStates, tmVars, poolVars, memVars
<1>35. ASSUME NEW t \in Txs, Resolve(t) PROVE TypeOK'
  BY <1>35 DEF Resolve, At, FrameOK, LocalOK, HandleOK, Ended, TypeOK, Labels, Opening, Searching, Registering, Closing, Demarcating, Statuses, HandleStates, tmVars, poolVars, memVars
<1>36. ASSUME NEW t \in Txs, ForgetConn(t) PROVE TypeOK'
  BY <1>36 DEF ForgetConn, At, FrameOK, LocalOK, HandleOK, Ended, TypeOK, Labels, Opening, Searching, Registering, Closing, Demarcating, Statuses, HandleStates, tmVars, poolVars, memVars
<1>37. ASSUME NEW t \in Txs, NEW c \in Conns, RunTermination(t, c) PROVE TypeOK'
  BY <1>37 DEF RunTermination, At, FrameOK, LocalOK, HandleOK, Ended, TypeOK, Labels, Opening, Searching, Registering, Closing, Demarcating, Statuses, HandleStates, tmVars, poolVars, memVars
<1>38. ASSUME NEW t \in Txs, NEW h \in Handles, RunClosing(t, h) PROVE TypeOK'
  BY <1>38, ReturnType DEF RunClosing, At, FrameOK, LocalOK, HandleOK, Ended, TypeOK, Labels, Opening, Searching, Registering, Closing, Demarcating, Statuses, HandleStates, tmVars, poolVars, memVars
<1>39. CASE UNCHANGED vars
  BY <1>39 DEF TypeOK, vars, tmVars, poolVars, memVars
<1>40. ASSUME NEW th \in Threads, SwapRaises(th) PROVE TypeOK'
  BY <1>40, RaiseType DEF SwapRaises, At, FrameOK, LocalOK, TypeOK, Opening, Searching, tmVars, poolVars, memVars
<1>41. QED
  BY <1>40, <1>1, <1>2, <1>3, <1>4, <1>5, <1>6, <1>7, <1>8, <1>9, <1>10, <1>11, <1>12, <1>13, <1>14, <1>15, <1>16, <1>17, <1>18, <1>19, <1>20, <1>21, <1>22, <1>23, <1>24, <1>25, <1>26, <1>27, <1>28, <1>29, <1>30, <1>31, <1>32, <1>33, <1>34, <1>35, <1>36, <1>37, <1>38, <1>39, EnvironmentAssumption
     DEF Next, ClientCall, OpenStep, Advance, UseStep, CompletionStep, OneOf

-----------------------------------------------------------------------------
(* A step inside a call touches its own thread and its own handle.           *)

LEMMA CallHandle ==
  ASSUME TypeInv, NEW th \in Threads, OpenStep(th) \/ UseStep(th)
  PROVE  frame[th].h \in Handles
<1>1. pc[th] \in Opening \cup Closing \cup Demarcating
  BY DEF OpenStep, UseStep, At, Opening, Searching, Registering, Closing, Demarcating,
         Lookup, Enter, Borrow, Probe, Inspect, Judge, EvictTx, EvictConn, Swap, Release, Found,
         Recheck, PutTx, PutConn, Enlist, Hook, Wrap, Advance, SwapRaises, CloseLookup, CloseCheck, CloseContext,
         CloseDefer, DemLookup, DemCheck, DemDelegate
<1>2. QED
  BY <1>1 DEF TypeInv, FrameOK, LocalOK

LEMMA Locality ==
  ASSUME TypeInv, NEW th \in Threads, OpenStep(th) \/ UseStep(th)
  PROVE  /\ assoc' = assoc
         /\ \A o \in Threads \ {th} : pc'[o] = pc[o] /\ frame'[o] = frame[o]
         /\ \A h \in Handles : h # frame[th].h => handle'[h] = handle[h]
<1> USE DEF TypeInv, TypeOK
<1>1. CASE Lookup(th)
  BY <1>1 DEF Lookup, At, Goto, SetFrame, SetHandle, Leave, Raise, Deliver, tmVars, poolVars, memVars
<1>2. CASE Enter(th)
  BY <1>2 DEF Enter, At, Goto, SetFrame, SetHandle, Leave, Raise, Deliver, tmVars, poolVars, memVars
<1>3. CASE Borrow(th)
  BY <1>3 DEF Borrow, At, Goto, SetFrame, SetHandle, Leave, Raise, Deliver, tmVars, poolVars, memVars
<1>4. CASE Probe(th)
  BY <1>4 DEF Probe, At, Goto, SetFrame, SetHandle, Leave, Raise, Deliver, tmVars, poolVars, memVars
<1>5. CASE Inspect(th)
  BY <1>5 DEF Inspect, At, Goto, SetFrame, SetHandle, Leave, Raise, Deliver, tmVars, poolVars, memVars
<1>6. CASE Judge(th)
  BY <1>6 DEF Judge, At, Goto, SetFrame, SetHandle, Leave, Raise, Deliver, tmVars, poolVars, memVars
<1>7. CASE EvictTx(th)
  BY <1>7 DEF EvictTx, At, Goto, SetFrame, SetHandle, Leave, Raise, Deliver, tmVars, poolVars, memVars
<1>8. CASE EvictConn(th)
  BY <1>8 DEF EvictConn, At, Goto, SetFrame, SetHandle, Leave, Raise, Deliver, tmVars, poolVars, memVars
<1>9. CASE Swap(th)
  BY <1>9 DEF Swap, At, Goto, SetFrame, SetHandle, Leave, Raise, Deliver, tmVars, poolVars, memVars
<1>10. CASE Release(th)
  BY <1>10 DEF Release, At, Goto, SetFrame, SetHandle, Leave, Raise, Deliver, tmVars, poolVars, memVars
<1>11. CASE Found(th)
  BY <1>11 DEF Found, At, Goto, SetFrame, SetHandle, Leave, Raise, Deliver, tmVars, poolVars, memVars
<1>12. CASE Recheck(th)
  BY <1>12 DEF Recheck, At, Goto, SetFrame, SetHandle, Leave, Raise, Deliver, tmVars, poolVars, memVars
<1>13. CASE PutTx(th)
  BY <1>13 DEF PutTx, At, Goto, SetFrame, SetHandle, Leave, Raise, Deliver, tmVars, poolVars, memVars
<1>14. CASE PutConn(th)
  BY <1>14 DEF PutConn, At, Goto, SetFrame, SetHandle, Leave, Raise, Deliver, tmVars, poolVars, memVars
<1>15. CASE Enlist(th)
  BY <1>15 DEF Enlist, At, Goto, SetFrame, SetHandle, Leave, Raise, Deliver, tmVars, poolVars, memVars
<1>16. CASE Hook(th)
  BY <1>16 DEF Hook, At, Goto, SetFrame, SetHandle, Leave, Raise, Deliver, tmVars, poolVars, memVars
<1>17. CASE Wrap(th)
  BY <1>17 DEF Wrap, At, Goto, SetFrame, SetHandle, Leave, Raise, Deliver, tmVars, poolVars, memVars
<1>18. CASE CloseLookup(th)
  BY <1>18 DEF CloseLookup, At, Goto, SetFrame, SetHandle, Leave, Raise, Deliver, tmVars, poolVars, memVars
<1>19. CASE CloseCheck(th)
  BY <1>19 DEF CloseCheck, At, Goto, SetFrame, SetHandle, Leave, Raise, Deliver, tmVars, poolVars, memVars
<1>20. CASE CloseContext(th)
  BY <1>20 DEF CloseContext, At, Goto, SetFrame, SetHandle, Leave, Raise, Deliver, tmVars, poolVars, memVars
<1>21. CASE CloseDefer(th)
  BY <1>21 DEF CloseDefer, At, Goto, SetFrame, SetHandle, Leave, Raise, Deliver, tmVars, poolVars, memVars
<1>22. CASE DemLookup(th)
  BY <1>22 DEF DemLookup, At, Goto, SetFrame, SetHandle, Leave, Raise, Deliver, tmVars, poolVars, memVars
<1>23. CASE DemCheck(th)
  BY <1>23 DEF DemCheck, At, Goto, SetFrame, SetHandle, Leave, Raise, Deliver, tmVars, poolVars, memVars
<1>24. CASE DemDelegate(th)
  BY <1>24 DEF DemDelegate, At, Goto, SetFrame, SetHandle, Leave, Raise, Deliver, tmVars, poolVars, memVars
<1>25. CASE SwapRaises(th)
  BY <1>25 DEF SwapRaises, At, Goto, SetFrame, SetHandle, Leave, Raise, tmVars, poolVars, memVars
<1>26. QED
  BY <1>25, <1>1, <1>2, <1>3, <1>4, <1>5, <1>6, <1>7, <1>8, <1>9, <1>10, <1>11, <1>12, <1>13, <1>14, <1>15, <1>16, <1>17, <1>18, <1>19, <1>20, <1>21, <1>22, <1>23, <1>24 DEF OpenStep, Advance, UseStep

LEMMA LeaveEffect ==
  ASSUME TypeInv, NEW th \in Threads, Leave(th)
  PROVE  pc'[th] = "idle" /\ frame'[th] = Blank /\ LocalOK(th)'
<1>1. pc'[th] = "idle" /\ frame'[th] = Blank
  BY DEF TypeInv, TypeOK, Leave, Goto, SetFrame
<1>2. QED
  BY <1>1 DEF LocalOK, Opening, Searching, Registering, Closing, Demarcating

LEMMA CloseEffect ==
  ASSUME TypeInv, NEW h \in Handles, NEW s,
         \/ SetHandle(h, [handle[h] EXCEPT !.state = s])
         \/ SetHandle(h, [handle[h] EXCEPT !.closed = TRUE, !.state = s])
  PROVE  handle'[h].state = s /\ handle'[h].conn = handle[h].conn /\ handle'[h].tx = handle[h].tx
<1>1. handle[h] \in Handle /\ handle \in [Handles -> Handle]
  BY DEF TypeInv, TypeOK
<1>2. CASE SetHandle(h, [handle[h] EXCEPT !.state = s])
  BY <1>1, <1>2 DEF SetHandle, Handle
<1>3. CASE SetHandle(h, [handle[h] EXCEPT !.closed = TRUE, !.state = s])
  BY <1>1, <1>3 DEF SetHandle, Handle
<1>4. QED
  BY <1>2, <1>3

LEMMA RaiseEffect ==
  ASSUME TypeInv, NEW th \in Threads, NEW c, Raise(th, c), frame[th].h \in Handles
  PROVE  /\ pc'[th] = "idle" /\ frame'[th] = Blank /\ LocalOK(th)'
         /\ handle'[frame[th].h].state = "failed" /\ handle'[frame[th].h].conn = c
         /\ handle'[frame[th].h].tx = handle[frame[th].h].tx
<1>1. Leave(th) /\ SetHandle(frame[th].h, [handle[frame[th].h] EXCEPT !.state = "failed", !.conn = c])
  BY DEF Raise
<1>2. handle[frame[th].h] \in Handle /\ handle \in [Handles -> Handle]
  BY DEF TypeInv, TypeOK
<1>3. handle'[frame[th].h] = [handle[frame[th].h] EXCEPT !.state = "failed", !.conn = c]
  BY <1>1, <1>2 DEF SetHandle
<1>4. QED
  BY <1>1, <1>2, <1>3, LeaveEffect DEF Handle

LEMMA DeliverEffect ==
  ASSUME TypeInv, NEW th \in Threads, NEW c, NEW t, Deliver(th, c, t), frame[th].h \in Handles
  PROVE  /\ pc'[th] = "idle" /\ frame'[th] = Blank /\ LocalOK(th)'
         /\ handle'[frame[th].h].state = "open" /\ handle'[frame[th].h].conn = c
         /\ handle'[frame[th].h].tx = t
<1>1. /\ Leave(th)
      /\ SetHandle(frame[th].h, [handle[frame[th].h] EXCEPT !.state = "open", !.conn = c, !.tx = t])
  BY DEF Deliver
<1>2. handle[frame[th].h] \in Handle /\ handle \in [Handles -> Handle]
  BY DEF TypeInv, TypeOK
<1>3. handle'[frame[th].h] = [handle[frame[th].h] EXCEPT !.state = "open", !.conn = c, !.tx = t]
  BY <1>1, <1>2 DEF SetHandle
<1>4. QED
  BY <1>1, <1>2, <1>3, LeaveEffect DEF Handle

LEMMA LocalStep ==
  ASSUME TypeInv, NEW th \in Threads, OpenStep(th) \/ UseStep(th),
         NEW h \in Handles, h = frame[th].h
  PROVE  /\ LocalOK(th)'
         /\ handle'[h].conn \in Conns \/ handle'[h] = handle[h]
         /\ Ended(h) => Ended(h)'
<1>1. /\ LocalOK(th) /\ frame[th] \in Frame /\ pc[th] \in Labels
      /\ \A g \in Handles : handle[g] \in Handle
      /\ \A g \in Handles : Ended(g) => handle[g].conn \in Conns
      /\ pc[th] \in Closing \cup Demarcating => Ended(frame[th].h)
      /\ \A t \in Txs : transactionMemory[t] \in Conns \cup {NoConn}
      /\ \A c \in Conns : connectionMemory[c] \in Txs \cup {NoTx}
  BY DEF TypeInv, TypeOK, FrameOK, HandleOK
<1>2. pc \in [Threads -> Labels] /\ frame \in [Threads -> Frame] /\ handle \in [Handles -> Handle]
  BY DEF TypeInv, TypeOK
<1> USE <1>1, <1>2, NullsAssumption DEF Frame, Handle, Ended
<1>3. CASE Lookup(th)
  <2>1. frame[th].h \in Handles
    BY <1>3 DEF Lookup, At, LocalOK, Labels, Opening, Searching, Registering, Closing, Demarcating
  <2>2. CASE transactionMemory[frame[th].tx] # NoConn
    BY <1>3, <2>1, <2>2, DeliverEffect DEF Lookup, At, LocalOK, Labels, Opening, Searching, Registering, Closing, Demarcating
  <2>3. CASE ~(transactionMemory[frame[th].tx] # NoConn)
    BY <1>3, <2>1, <2>3 DEF Lookup, At, Goto, SetFrame, SetHandle, tmVars, poolVars, memVars, LocalOK, Labels, Opening, Searching, Registering, Closing, Demarcating
  <2>4. QED
    BY <2>2, <2>3
<1>4. CASE Enter(th)
  BY <1>4 DEF Enter, At, Goto, SetFrame, SetHandle, tmVars, poolVars, memVars, LocalOK, Labels, Opening, Searching, Registering, Closing, Demarcating
<1>5. CASE Borrow(th)
  BY <1>5 DEF Borrow, At, Goto, SetFrame, SetHandle, tmVars, poolVars, memVars, LocalOK, Labels, Opening, Searching, Registering, Closing, Demarcating
<1>6. CASE Probe(th)
  BY <1>6 DEF Probe, At, Goto, SetFrame, SetHandle, tmVars, poolVars, memVars, LocalOK, Labels, Opening, Searching, Registering, Closing, Demarcating
<1>7. CASE Inspect(th)
  <2>1. frame[th].h \in Handles
    BY <1>7 DEF Inspect, At, LocalOK, Labels, Opening, Searching, Registering, Closing, Demarcating
  <2>2. CASE connectionMemory[frame[th].conn] = NoTx
    BY <1>7, <2>1, <2>2, RaiseEffect DEF Inspect, At, LocalOK, Labels, Opening, Searching, Registering, Closing, Demarcating
  <2>3. CASE ~(connectionMemory[frame[th].conn] = NoTx)
    BY <1>7, <2>1, <2>3 DEF Inspect, At, Goto, SetFrame, SetHandle, tmVars, poolVars, memVars, LocalOK, Labels, Opening, Searching, Registering, Closing, Demarcating
  <2>4. QED
    BY <2>2, <2>3
<1>8. CASE Judge(th)
  BY <1>8 DEF Judge, At, Goto, SetFrame, SetHandle, tmVars, poolVars, memVars, LocalOK, Labels, Opening, Searching, Registering, Closing, Demarcating
<1>9. CASE EvictTx(th)
  BY <1>9 DEF EvictTx, At, Goto, SetFrame, SetHandle, tmVars, poolVars, memVars, LocalOK, Labels, Opening, Searching, Registering, Closing, Demarcating
<1>10. CASE EvictConn(th)
  BY <1>10 DEF EvictConn, At, Goto, SetFrame, SetHandle, tmVars, poolVars, memVars, LocalOK, Labels, Opening, Searching, Registering, Closing, Demarcating
<1>11. CASE Swap(th)
  BY <1>11 DEF Swap, At, Goto, SetFrame, SetHandle, tmVars, poolVars, memVars, LocalOK, Labels, Opening, Searching, Registering, Closing, Demarcating
<1>12. CASE Release(th)
  BY <1>12 DEF Release, At, Goto, SetFrame, SetHandle, tmVars, poolVars, memVars, LocalOK, Labels, Opening, Searching, Registering, Closing, Demarcating
<1>13. CASE Found(th)
  <2>1. frame[th].h \in Handles
    BY <1>13 DEF Found, At, LocalOK, Labels, Opening, Searching, Registering, Closing, Demarcating
  <2>2. CASE frame[th].tx = NoTx
    BY <1>13, <2>1, <2>2, DeliverEffect DEF Found, At, LocalOK, Labels, Opening, Searching, Registering, Closing, Demarcating
  <2>3. CASE ~(frame[th].tx = NoTx)
    BY <1>13, <2>1, <2>3 DEF Found, At, Goto, SetFrame, SetHandle, tmVars, poolVars, memVars, LocalOK, Labels, Opening, Searching, Registering, Closing, Demarcating
  <2>4. QED
    BY <2>2, <2>3
<1>14. CASE Recheck(th)
  BY <1>14 DEF Recheck, At, Goto, SetFrame, SetHandle, tmVars, poolVars, memVars, LocalOK, Labels, Opening, Searching, Registering, Closing, Demarcating
<1>15. CASE PutTx(th)
  BY <1>15 DEF PutTx, At, Goto, SetFrame, SetHandle, tmVars, poolVars, memVars, LocalOK, Labels, Opening, Searching, Registering, Closing, Demarcating
<1>16. CASE PutConn(th)
  BY <1>16 DEF PutConn, At, Goto, SetFrame, SetHandle, tmVars, poolVars, memVars, LocalOK, Labels, Opening, Searching, Registering, Closing, Demarcating
<1>17. CASE Enlist(th)
  <2>1. frame[th].h \in Handles
    BY <1>17 DEF Enlist, At, LocalOK, Labels, Opening, Searching, Registering, Closing, Demarcating
  <2>2. CASE Raise(th, frame[th].conn)
    BY <1>17, <2>1, <2>2, RaiseEffect DEF Enlist, At, LocalOK, Labels, Opening, Searching, Registering, Closing, Demarcating
  <2>3. CASE ~Raise(th, frame[th].conn)
    BY <1>17, <2>1, <2>3 DEF Enlist, At, Goto, SetFrame, SetHandle, tmVars, poolVars, memVars, LocalOK, Labels, Opening, Searching, Registering, Closing, Demarcating
  <2>4. QED
    BY <2>2, <2>3
<1>18. CASE Hook(th)
  <2>1. frame[th].h \in Handles
    BY <1>18 DEF Hook, At, LocalOK, Labels, Opening, Searching, Registering, Closing, Demarcating
  <2>2. CASE Raise(th, frame[th].conn)
    BY <1>18, <2>1, <2>2, RaiseEffect DEF Hook, At, LocalOK, Labels, Opening, Searching, Registering, Closing, Demarcating
  <2>3. CASE ~Raise(th, frame[th].conn)
    BY <1>18, <2>1, <2>3 DEF Hook, At, Goto, SetFrame, SetHandle, tmVars, poolVars, memVars, LocalOK, Labels, Opening, Searching, Registering, Closing, Demarcating
  <2>4. QED
    BY <2>2, <2>3
<1>19. CASE Wrap(th)
  <2>1. frame[th].h \in Handles
    BY <1>19 DEF Wrap, At, LocalOK, Labels, Opening, Searching, Registering, Closing, Demarcating
  <2>2. CASE Wrap(th)
    BY <1>19, <2>1, <2>2, DeliverEffect DEF Wrap, At, LocalOK, Labels, Opening, Searching, Registering, Closing, Demarcating
  <2>3. QED
    BY <1>19, <2>2 DEF Wrap
<1>20. CASE CloseLookup(th)
  <2>1. frame[th].h \in Handles
    BY <1>20 DEF CloseLookup, At, LocalOK, Labels, Opening, Searching, Registering, Closing, Demarcating
  <2>2. CASE connectionMemory[frame[th].conn] = NoTx
    BY <1>20, <2>1, <2>2, RaiseEffect DEF CloseLookup, At, LocalOK, Labels, Opening, Searching, Registering, Closing, Demarcating
  <2>3. CASE ~(connectionMemory[frame[th].conn] = NoTx)
    BY <1>20, <2>1, <2>3 DEF CloseLookup, At, Goto, SetFrame, SetHandle, tmVars, poolVars, memVars, LocalOK, Labels, Opening, Searching, Registering, Closing, Demarcating
  <2>4. QED
    BY <2>2, <2>3
<1>21. CASE CloseCheck(th)
  <2>1. frame[th].h \in Handles
    BY <1>21 DEF CloseCheck, At, LocalOK, Closing
  <2>2. CASE ~IsActive(frame[th].seen)
    <3>1. Leave(th) /\ SetHandle(frame[th].h, [handle[frame[th].h] EXCEPT !.state = "closed"])
      BY <1>21, <2>2 DEF CloseCheck
    <3>2. handle'[h].conn = handle[h].conn /\ handle'[h].state = "closed"
      BY <2>1, <3>1, CloseEffect
    <3>3. handle[h].conn \in Conns
      BY <1>21, <2>1 DEF CloseCheck, At, Closing
    <3>4. QED
      BY <2>1, <3>1, <3>2, <3>3, LeaveEffect
  <2>3. CASE IsActive(frame[th].seen)
    BY <1>21, <2>1, <2>3 DEF CloseCheck, At, Goto, poolVars, LocalOK, Labels, Opening, Searching, Registering, Closing, Demarcating
  <2>4. QED
    BY <2>2, <2>3
<1>22. CASE CloseContext(th)
  <2>1. frame[th].h \in Handles
    BY <1>22 DEF CloseContext, At, LocalOK, Labels, Opening, Searching, Registering, Closing, Demarcating
  <2>2. CASE connectionMemory[frame[th].conn] = NoTx
    BY <1>22, <2>1, <2>2, RaiseEffect DEF CloseContext, At, LocalOK, Labels, Opening, Searching, Registering, Closing, Demarcating
  <2>3. CASE ~(connectionMemory[frame[th].conn] = NoTx)
    BY <1>22, <2>1, <2>3 DEF CloseContext, At, Goto, SetFrame, SetHandle, tmVars, poolVars, memVars, LocalOK, Labels, Opening, Searching, Registering, Closing, Demarcating
  <2>4. QED
    BY <2>2, <2>3
<1>23. CASE CloseDefer(th)
  <2>1. h \in Handles /\ LocalOK(th)'
    BY <1>23, LeaveEffect DEF CloseDefer, At, LocalOK, Closing
  <2>2. CASE handle[h].closed
    BY <1>23, <2>1, <2>2 DEF CloseDefer
  <2>3. ASSUME NEW end \in {"closed", "failed"},
               SetHandle(h, [handle[h] EXCEPT !.closed = TRUE, !.state = end])
        PROVE  handle'[h].conn \in Conns /\ (Ended(h) => Ended(h)')
    <3>1. handle'[h].conn = handle[h].conn /\ handle'[h].state = end
      BY <2>1, <2>3, CloseEffect
    <3>2. handle[h].conn \in Conns
      BY <1>23, <2>1 DEF CloseDefer, At, Closing
    <3>3. QED
      BY <2>1, <2>3, <3>1, <3>2
  <2>4. CASE ~handle[h].closed
    BY <1>23, <2>1, <2>3, <2>4 DEF CloseDefer
  <2>5. QED
    BY <2>2, <2>4
<1>24. CASE DemLookup(th)
  <2>1. frame[th].h \in Handles
    BY <1>24 DEF DemLookup, At, LocalOK, Labels, Opening, Searching, Registering, Closing, Demarcating
  <2>2. CASE connectionMemory[frame[th].conn] = NoTx
    BY <1>24, <2>1, <2>2, LeaveEffect DEF DemLookup, At, LocalOK, Labels, Opening, Searching, Registering, Closing, Demarcating
  <2>3. CASE ~(connectionMemory[frame[th].conn] = NoTx)
    BY <1>24, <2>1, <2>3 DEF DemLookup, At, Goto, SetFrame, SetHandle, tmVars, poolVars, memVars, LocalOK, Labels, Opening, Searching, Registering, Closing, Demarcating
  <2>4. QED
    BY <2>2, <2>3
<1>25. CASE DemCheck(th)
  <2>1. frame[th].h \in Handles
    BY <1>25 DEF DemCheck, At, LocalOK, Labels, Opening, Searching, Registering, Closing, Demarcating
  <2>2. CASE IsActive(frame[th].seen)
    BY <1>25, <2>1, <2>2, LeaveEffect DEF DemCheck, At, LocalOK, Labels, Opening, Searching, Registering, Closing, Demarcating
  <2>3. CASE ~(IsActive(frame[th].seen))
    BY <1>25, <2>1, <2>3 DEF DemCheck, At, Goto, SetFrame, SetHandle, tmVars, poolVars, memVars, LocalOK, Labels, Opening, Searching, Registering, Closing, Demarcating
  <2>4. QED
    BY <2>2, <2>3
<1>26. CASE DemDelegate(th)
  <2>1. frame[th].h \in Handles
    BY <1>26 DEF DemDelegate, At, LocalOK, Labels, Opening, Searching, Registering, Closing, Demarcating
  <2>2. CASE DemDelegate(th)
    BY <1>26, <2>1, <2>2, LeaveEffect DEF DemDelegate, At, LocalOK, Labels, Opening, Searching, Registering, Closing, Demarcating
  <2>3. QED
    BY <1>26, <2>2 DEF DemDelegate
<1>27. CASE SwapRaises(th)
  BY <1>27, RaiseEffect DEF SwapRaises, At, LocalOK, Opening, Searching
<1>28. QED
  BY <1>27, <1>3, <1>4, <1>5, <1>6, <1>7, <1>8, <1>9, <1>10, <1>11, <1>12, <1>13, <1>14, <1>15, <1>16, <1>17, <1>18, <1>19, <1>20, <1>21, <1>22, <1>23, <1>24, <1>25, <1>26 DEF OpenStep, Advance, UseStep

LEMMA ShapeStep == ASSUME TypeInv, [Next]_vars PROVE TypeInv'
<1> USE DEF TypeInv
<1>1. TypeOK'
  BY TypeStep
<1>2. ASSUME NEW th \in Threads, OpenStep(th) \/ UseStep(th) PROVE FrameOK' /\ HandleOK'
  <2> DEFINE h == frame[th].h
  <2>1. /\ h \in Handles /\ assoc' = assoc
        /\ \A o \in Threads \ {th} : pc'[o] = pc[o] /\ frame'[o] = frame[o]
        /\ \A g \in Handles : g # h => handle'[g] = handle[g]
    BY <1>2, CallHandle, Locality
  <2>2. /\ LocalOK(th)'
        /\ handle'[h].conn \in Conns \/ handle'[h] = handle[h]
        /\ handle[h].state \notin {"unused", "opening"}
             => handle'[h].state \notin {"unused", "opening"}
    BY <1>2, <2>1, LocalStep DEF Ended
  <2>3. FrameOK'
    BY <2>1, <2>2 DEF FrameOK, LocalOK
  <2>4. \A g \in Handles : handle'[g].state \notin {"unused", "opening"} => handle'[g].conn \in Conns
    BY <2>1, <2>2 DEF HandleOK, Ended
  <2>5. ASSUME NEW o \in Threads, pc'[o] \in Closing \cup Demarcating
        PROVE  handle'[frame'[o].h].state \notin {"unused", "opening"}
    <3>1. o # th => handle[frame[o].h].state \notin {"unused", "opening"} /\ frame'[o] = frame[o]
      BY <2>1, <2>5 DEF HandleOK, Ended
    <3>2. o # th => frame[o].h \in Handles
      BY <2>1, <2>5 DEF FrameOK, LocalOK
    <3>3. CASE o # th
      BY <2>1, <2>2, <3>1, <3>2, <3>3
    <3>4. CASE o = th
      <4>1. UseStep(th) /\ frame'[th].h = h
        BY <1>2, <2>5, <3>4 DEF OpenStep, UseStep, At, Goto, TypeOK, SetFrame, Frame, Leave, Raise, Deliver,
           Searching, Registering, Closing, Demarcating,
           Lookup, Enter, Borrow, Probe, Inspect, Judge, EvictTx, EvictConn, Swap, Release, Found,
           Recheck, PutTx, PutConn, Enlist, Hook, Wrap, Advance, SwapRaises, CloseLookup, CloseCheck, CloseContext,
           CloseDefer, DemLookup, DemCheck, DemDelegate
      <4>2. pc[th] \in Closing \cup Demarcating
        BY <4>1 DEF UseStep, At, Closing, Demarcating, CloseLookup, CloseCheck, CloseContext,
           CloseDefer, DemLookup, DemCheck, DemDelegate
      <4>3. QED
        BY <2>2, <3>4, <4>1, <4>2 DEF HandleOK, Ended
    <3>5. QED
      BY <3>3, <3>4
  <2>6. QED
    BY <2>3, <2>4, <2>5 DEF HandleOK, Ended
<1>3. ASSUME NEW th \in Threads, NEW h \in Handles, NEW auth \in BOOLEAN, GetConnection(th, h, auth)
      PROVE  FrameOK' /\ HandleOK'
  <2> DEFINE t == IF IsActive(assoc[th]) THEN assoc[th] ELSE NoTx
  <2>1. /\ pc[th] = "idle" /\ handle[h].state = "unused" /\ assoc' = assoc
        /\ pc' = [pc EXCEPT ![th] = IF t = NoTx THEN "borrow" ELSE "lookup"]
        /\ frame' = [frame EXCEPT ![th] = [Blank EXCEPT !.h = h, !.auth = auth, !.tx = t]]
        /\ handle' = [handle EXCEPT ![h] = [handle[h] EXCEPT !.state = "opening", !.owner = th]]
    BY <1>3 DEF GetConnection, At, Goto, SetFrame, SetHandle, tmVars
  <2>2. t \in Txs \cup {NoTx}
    BY DEF TypeOK, IsActive
  <2>3. pc'[th] \in {"borrow", "lookup"} /\ frame'[th].h = h /\ frame'[th].tx = t /\ (pc'[th] = "lookup" => t # NoTx)
    BY <2>1 DEF TypeOK, Blank
  <2>4. \A o \in Threads \ {th} : pc'[o] = pc[o] /\ frame'[o] = frame[o]
    BY <2>1 DEF TypeOK
  <2>5. handle'[h].state = "opening" /\ \A g \in Handles \ {h} : handle'[g] = handle[g]
    BY <2>1 DEF TypeOK, Handle
  <2>6. LocalOK(th)'
    BY <2>2, <2>3 DEF LocalOK, Opening, Searching, Registering, Closing, Demarcating
  <2>7. FrameOK'
    BY <2>1, <2>4, <2>6 DEF FrameOK, LocalOK
  <2>8. HandleOK'
    BY <2>1, <2>3, <2>4, <2>5 DEF HandleOK, Ended, Closing, Demarcating
  <2>9. QED
    BY <2>7, <2>8
<1>4. ASSUME NEW th \in Threads, NEW h \in Handles, Close(th, h) \/ Demarcate(th, h)
      PROVE  FrameOK' /\ HandleOK'
  <2>1. CASE handle[h].tx = NoTx /\ Close(th, h)
    <3>1. /\ SetHandle(h, [handle[h] EXCEPT !.state = "closed"])
          /\ pc' = pc /\ frame' = frame /\ assoc' = assoc /\ handle[h].state = "open"
      BY <2>1 DEF Close, tmVars
    <3>2. handle'[h].state = "closed" /\ handle'[h].conn = handle[h].conn
      BY <3>1, CloseEffect
    <3>3. \A g \in Handles \ {h} : handle'[g] = handle[g]
      BY <3>1 DEF SetHandle, TypeOK
    <3>4. FrameOK'
      BY <3>1 DEF FrameOK, LocalOK
    <3>5. HandleOK'
      BY <3>1, <3>2, <3>3 DEF HandleOK, Ended, FrameOK, LocalOK
    <3>6. QED
      BY <3>4, <3>5
  <2>2. CASE ~(handle[h].tx = NoTx /\ Close(th, h))
    <3>1. /\ handle[h].state \in {"open", "closed"} /\ handle' = handle /\ assoc' = assoc
          /\ \/ pc' = [pc EXCEPT ![th] = "closeLookup"]
             \/ pc' = [pc EXCEPT ![th] = "demLookup"]
          /\ frame' = [frame EXCEPT ![th] = [Blank EXCEPT !.h = h, !.conn = handle[h].conn]]
      BY <1>4, <2>2 DEF Close, Demarcate, Goto, SetFrame, tmVars
    <3>2. pc'[th] \in {"closeLookup", "demLookup"} /\ frame'[th].h = h /\ frame'[th].conn = handle[h].conn
      BY <3>1 DEF TypeOK, Blank
    <3>3. \A o \in Threads \ {th} : pc'[o] = pc[o] /\ frame'[o] = frame[o]
      BY <3>1 DEF TypeOK
    <3>4. handle[h].conn \in Conns
      BY <3>1 DEF HandleOK, Ended
    <3>5. LocalOK(th)'
      BY <3>2, <3>4 DEF LocalOK, Opening, Searching, Registering, Closing, Demarcating
    <3>6. FrameOK'
      BY <3>1, <3>3, <3>5 DEF FrameOK, LocalOK
    <3>7. HandleOK'
      BY <3>1, <3>2, <3>3 DEF HandleOK, Ended
    <3>8. QED
      BY <3>6, <3>7
  <2>3. QED
    BY <2>1, <2>2
<1>5. ASSUME NEW th \in Threads, NEW t \in Txs, Begin(th, t) \/ Resume(th, t)
      PROVE  FrameOK' /\ HandleOK'
  <2>1. pc[th] = "idle" /\ pc' = pc /\ frame' = frame /\ handle' = handle
        /\ \A o \in Threads \ {th} : assoc'[o] = assoc[o]
    BY <1>5 DEF Begin, Resume, At, TypeOK
  <2>2. QED
    BY <2>1 DEF FrameOK, LocalOK, HandleOK, Ended
<1>6. ASSUME NEW th \in Threads, Suspend(th) \/ Complete(th) \/ Completed(th)
      PROVE  FrameOK' /\ HandleOK'
  <2>1. /\ frame' = frame /\ handle' = handle
        /\ \/ pc'[th] = "idle"
           \/ pc'[th] = "completing" /\ assoc'[th] \in Txs
        /\ \A o \in Threads \ {th} : pc'[o] = pc[o] /\ assoc'[o] = assoc[o]
    BY <1>6 DEF Suspend, At, Complete, Completed, Goto, TypeOK, IsActive
  <2>2. FrameOK'
    BY <2>1 DEF FrameOK, LocalOK, Opening, Searching, Registering, Closing, Demarcating
  <2>3. HandleOK'
    BY <2>1 DEF HandleOK, Ended, Closing, Demarcating
  <2>4. QED
    BY <2>2, <2>3
<1>7. ASSUME NEW t \in Txs, MarkRollback(t) \/ TimeOut(t) \/ CompletionStep(t)
      PROVE  FrameOK' /\ HandleOK'
  <2>1. pc' = pc /\ frame' = frame /\ handle' = handle /\ assoc' = assoc
    BY <1>7 DEF MarkRollback, TimeOut, CompletionStep, Resolve, ForgetConn, RunTermination, RunClosing
  <2>2. QED
    BY <2>1 DEF FrameOK, LocalOK, HandleOK, Ended
<1>8. ASSUME UNCHANGED vars PROVE FrameOK' /\ HandleOK'
  <2>1. pc' = pc /\ frame' = frame /\ handle' = handle /\ assoc' = assoc
    BY <1>8 DEF vars, tmVars
  <2>2. QED
    BY <2>1 DEF FrameOK, LocalOK, HandleOK, Ended
<1>9. FrameOK' /\ HandleOK'
  BY <1>2, <1>3, <1>4, <1>5, <1>6, <1>7, <1>8, EnvironmentAssumption DEF Next, ClientCall, OneOf
<1>10. QED
  BY <1>1, <1>9

LEMMA InitTypeInv == Init => TypeInv
BY NullsAssumption DEF Init, TypeInv, TypeOK, FrameOK, LocalOK, HandleOK, Ended, NewHandle, Blank, Handle, Frame,
   Statuses, HandleStates, Labels, Opening, Searching, Registering, Closing, Demarcating

\* Every variable keeps its type, in every environment.
THEOREM TypeCorrect == Spec => []TypeOK
<1>1. TypeInv => TypeOK
  BY DEF TypeInv
<1>2. QED
  BY <1>1, InitTypeInv, ShapeStep, PTL DEF Spec
-----------------------------------------------------------------------------
(* No connection is lost without a word *)

\* What a step of getConnection does with the connections in hand: it keeps them,
\* or it ends the call and leaves them to its handle.
Keeps(th, h) ==
  /\ pc'[th] \in Opening /\ frame'[th].h = h /\ handle' = handle /\ CallLocal(th)'
  /\ lent' \subseteq lent \cup {frame'[th].conn, frame'[th].next}
  /\ \A c \in lent' : c \in {frame[th].conn, frame[th].next} => c \in {frame'[th].conn, frame'[th].next}

Ends(th, h) ==
  /\ pc'[th] = "idle" /\ handle'[h].state \in {"open", "failed"} /\ lent' = lent
  /\ \A c \in Conns : c \in {frame[th].conn, frame[th].next} => handle'[h].conn = c

LEMMA OpenEffect ==
  ASSUME TypeInv, CallOK, NEW th \in Threads, OpenStep(th), NEW h \in Handles, h = frame[th].h
  PROVE  closings' = closings /\ (Keeps(th, h) \/ Ends(th, h))
<1>1. /\ LocalOK(th) /\ CallLocal(th) /\ frame[th] \in Frame
      /\ pc \in [Threads -> Labels] /\ frame \in [Threads -> Frame] /\ lent \subseteq Conns
  BY DEF TypeInv, TypeOK, FrameOK, CallOK
<1> USE <1>1, NullsAssumption DEF CallLocal
<1>2. CASE Lookup(th)
  <2>1. CASE transactionMemory[frame[th].tx] # NoConn
    BY <1>2, <2>1, DeliverEffect DEF Lookup, Ends, At, tmVars, poolVars, LocalOK, Opening, Searching, Registering
  <2>2. CASE ~(transactionMemory[frame[th].tx] # NoConn)
    BY <1>2, <2>2 DEF Lookup, Keeps, At, Goto, SetFrame, tmVars, poolVars, memVars, Frame, LocalOK, Opening, Searching, Registering
  <2>3. QED
    BY <2>1, <2>2
<1>3. CASE Enter(th)
  BY <1>3 DEF Enter, Keeps, At, Goto, SetFrame, tmVars, poolVars, memVars, Frame, LocalOK, Opening, Searching, Registering
<1>4. CASE Borrow(th)
  BY <1>4 DEF Borrow, Keeps, At, Goto, SetFrame, tmVars, poolVars, memVars, Frame, LocalOK, Opening, Searching, Registering, Lend
<1>5. CASE Probe(th)
  BY <1>5 DEF Probe, Keeps, At, Goto, SetFrame, tmVars, poolVars, memVars, Frame, LocalOK, Opening, Searching, Registering
<1>6. CASE Inspect(th)
  <2>1. CASE connectionMemory[frame[th].conn] = NoTx
    BY <1>6, <2>1, RaiseEffect DEF Inspect, Ends, At, tmVars, poolVars, LocalOK, Opening, Searching, Registering
  <2>2. CASE ~(connectionMemory[frame[th].conn] = NoTx)
    BY <1>6, <2>2 DEF Inspect, Keeps, At, Goto, SetFrame, tmVars, poolVars, memVars, Frame, LocalOK, Opening, Searching, Registering
  <2>3. QED
    BY <2>1, <2>2
<1>7. CASE Judge(th)
  BY <1>7 DEF Judge, Keeps, At, Goto, SetFrame, tmVars, poolVars, memVars, Frame, LocalOK, Opening, Searching, Registering
<1>8. CASE EvictTx(th)
  BY <1>8 DEF EvictTx, Keeps, At, Goto, SetFrame, tmVars, poolVars, memVars, Frame, LocalOK, Opening, Searching, Registering
<1>9. CASE EvictConn(th)
  BY <1>9 DEF EvictConn, Keeps, At, Goto, SetFrame, tmVars, poolVars, memVars, Frame, LocalOK, Opening, Searching, Registering
<1>10. CASE Swap(th)
  BY <1>10 DEF Swap, Keeps, At, Goto, SetFrame, tmVars, poolVars, memVars, Frame, LocalOK, Opening, Searching, Registering, Lend
<1>11. CASE Release(th)
  BY <1>11 DEF Release, Keeps, At, Goto, SetFrame, tmVars, poolVars, memVars, Frame, LocalOK, Opening, Searching, Registering, Return
<1>12. CASE Found(th)
  <2>1. CASE frame[th].tx = NoTx
    BY <1>12, <2>1, DeliverEffect DEF Found, Ends, At, tmVars, poolVars, LocalOK, Opening, Searching, Registering
  <2>2. CASE ~(frame[th].tx = NoTx)
    BY <1>12, <2>2 DEF Found, Keeps, At, Goto, SetFrame, tmVars, poolVars, memVars, Frame, LocalOK, Opening, Searching, Registering
  <2>3. QED
    BY <2>1, <2>2
<1>13. CASE Recheck(th)
  BY <1>13 DEF Recheck, Keeps, At, Goto, SetFrame, tmVars, poolVars, memVars, Frame, LocalOK, Opening, Searching, Registering
<1>14. CASE PutTx(th)
  BY <1>14 DEF PutTx, Keeps, At, Goto, SetFrame, tmVars, poolVars, memVars, Frame, LocalOK, Opening, Searching, Registering
<1>15. CASE PutConn(th)
  BY <1>15 DEF PutConn, Keeps, At, Goto, SetFrame, tmVars, poolVars, memVars, Frame, LocalOK, Opening, Searching, Registering
<1>16. CASE Enlist(th)
  <2>1. CASE Raise(th, frame[th].conn)
    BY <1>16, <2>1, RaiseEffect DEF Enlist, Ends, At, tmVars, poolVars, LocalOK, Opening, Searching, Registering
  <2>2. CASE ~Raise(th, frame[th].conn)
    BY <1>16, <2>2 DEF Enlist, Keeps, At, Goto, SetFrame, tmVars, poolVars, memVars, Frame, LocalOK, Opening, Searching, Registering
  <2>3. QED
    BY <2>1, <2>2
<1>17. CASE Hook(th)
  <2>1. CASE Raise(th, frame[th].conn)
    BY <1>17, <2>1, RaiseEffect DEF Hook, Ends, At, tmVars, poolVars, LocalOK, Opening, Searching, Registering
  <2>2. CASE ~Raise(th, frame[th].conn)
    BY <1>17, <2>2 DEF Hook, Keeps, At, Goto, SetFrame, tmVars, poolVars, memVars, Frame, LocalOK, Opening, Searching, Registering
  <2>3. QED
    BY <2>1, <2>2
<1>18. CASE Wrap(th)
  <2>1. CASE Wrap(th)
    BY <1>18, <2>1, DeliverEffect DEF Wrap, Ends, At, tmVars, poolVars, LocalOK, Opening, Searching, Registering
  <2>2. QED
    BY <1>18, <2>1
<1>19. CASE SwapRaises(th)
  BY <1>19, RaiseEffect DEF SwapRaises, Ends, At, tmVars, poolVars, LocalOK, Opening, Searching
<1>20. QED
  BY <1>19, <1>2, <1>3, <1>4, <1>5, <1>6, <1>7, <1>8, <1>9, <1>10, <1>11, <1>12, <1>13, <1>14, <1>15, <1>16, <1>17, <1>18 DEF OpenStep, Advance
\* What a step on an open connection does to it: nothing, it marks the call
\* failed, it closes the connection, or it leaves the closing to a callback.
UseOutcome(th, h) ==
  /\ handle'[h].conn = handle[h].conn /\ Ended(h)'
  /\ \A t \in Txs : closings[t] \subseteq closings'[t]
  /\ lent' \subseteq lent
  /\ \/ handle'[h].state = handle[h].state
     \/ handle'[h].state = "failed"
     \/ handle[h].conn \notin lent'
     \/ \E t \in Txs : h \in closings'[t]

LEMMA UseEffect ==
  ASSUME TypeInv, CallOK, NEW th \in Threads, UseStep(th), NEW h \in Handles, h = frame[th].h
  PROVE  /\ UseOutcome(th, h)
         /\ \/ pc'[th] = "idle"
            \/ pc'[th] \in Closing /\ frame'[th].h = h /\ frame'[th].conn = handle[h].conn
            \/ pc'[th] \in Demarcating
<1>1. /\ pc[th] \in Closing \cup Demarcating /\ Ended(h)
      /\ pc \in [Threads -> Labels] /\ frame \in [Threads -> Frame] /\ frame[th] \in Frame
      /\ lent \subseteq Conns /\ closings \in [Txs -> SUBSET Handles]
      /\ handle \in [Handles -> Handle]
  BY DEF TypeInv, TypeOK, HandleOK, UseStep, CloseLookup, CloseCheck, CloseContext, CloseDefer,
         DemLookup, DemCheck, DemDelegate, At, Closing, Demarcating
<1>2. pc[th] \in Closing => handle[h].conn = frame[th].conn
  BY DEF CallOK
<1>3. LocalOK(th)
  BY DEF TypeInv, FrameOK
<1>4. ASSUME CloseLookup(th) \/ CloseContext(th),
             connectionMemory[frame[th].conn] = NoTx
      PROVE  UseOutcome(th, h) /\ pc'[th] = "idle"
  <2>2. Raise(th, frame[th].conn) /\ lent' = lent /\ closings' = closings /\ pc[th] \in Closing
    BY <1>4 DEF CloseLookup, CloseContext, poolVars, tmVars, At, Closing
  <2>3. pc'[th] = "idle" /\ handle'[h].state = "failed" /\ handle'[h].conn = frame[th].conn
    BY <2>2, RaiseEffect
  <2>4. QED
    BY <1>2, <2>2, <2>3 DEF UseOutcome, Ended
<1>5. ASSUME CloseLookup(th) \/ CloseContext(th),
             connectionMemory[frame[th].conn] # NoTx
      PROVE  UseOutcome(th, h) /\ pc'[th] \in Closing /\ frame'[th].h = h /\ frame'[th].conn = handle[h].conn
  <2>1. /\ lent' = lent /\ closings' = closings /\ handle' = handle /\ pc[th] \in Closing
        /\ pc' = [pc EXCEPT ![th] = pc'[th]] /\ pc'[th] \in Closing
        /\ frame' = [frame EXCEPT ![th] = [frame[th] EXCEPT !.seen = connectionMemory[frame[th].conn]]]
    BY <1>1, <1>5 DEF CloseLookup, CloseContext, poolVars, tmVars, At, Closing, Goto, SetFrame
  <2>2. frame'[th].h = h /\ frame'[th].conn = frame[th].conn
    BY <1>1, <2>1 DEF Frame
  <2>3. QED
    BY <1>1, <1>2, <2>1, <2>2 DEF UseOutcome, Ended
<1>6. ASSUME CloseCheck(th) PROVE UseOutcome(th, h) /\ (pc'[th] = "idle" \/ (pc'[th] \in Closing /\ frame'[th].h = h /\ frame'[th].conn = handle[h].conn))
  <2>1. closings' = closings /\ pc[th] \in Closing
    BY <1>6 DEF CloseCheck, tmVars, At, Closing
  <2>2. CASE IsActive(frame[th].seen)
    <3>1. /\ pc' = [pc EXCEPT ![th] = "closeContext"] /\ frame' = frame /\ handle' = handle /\ lent' = lent
      BY <1>6, <2>2 DEF CloseCheck, Goto, poolVars
    <3>2. QED
      BY <1>1, <1>2, <2>1, <3>1 DEF UseOutcome, Ended, Closing
  <2>3. CASE ~IsActive(frame[th].seen)
    <3>1. Leave(th) /\ SetHandle(h, [handle[h] EXCEPT !.state = "closed"]) /\ lent' = lent \ {frame[th].conn}
      BY <1>6, <2>3 DEF CloseCheck, Return
    <3>2. handle'[h].state = "closed" /\ handle'[h].conn = handle[h].conn
      BY <3>1, CloseEffect
    <3>3. QED
      BY <1>2, <2>1, <3>1, <3>2, LeaveEffect DEF UseOutcome, Ended
  <2>4. QED
    BY <2>2, <2>3
<1>7. ASSUME CloseDefer(th) PROVE UseOutcome(th, h) /\ pc'[th] = "idle"
  <2> DEFINE t == frame[th].seen
  <2>1. t \in Txs /\ lent' = lent /\ Leave(th)
    BY <1>3, <1>7 DEF CloseDefer, LocalOK, At, poolVars
  <2>2. CASE handle[h].closed
    <3>1. handle' = handle /\ closings' = closings
      BY <1>7, <2>2 DEF CloseDefer
    <3>2. QED
      BY <1>1, <2>1, <3>1, LeaveEffect DEF UseOutcome, Ended
  <2>3. CASE /\ SetHandle(h, [handle[h] EXCEPT !.closed = TRUE, !.state = "closed"])
             /\ closings' = [closings EXCEPT ![t] = @ \cup {h}]
    <3>1. handle'[h].state = "closed" /\ handle'[h].conn = handle[h].conn
      BY <2>3, CloseEffect
    <3>2. h \in closings'[t] /\ \A u \in Txs : closings[u] \subseteq closings'[u]
      BY <1>1, <2>1, <2>3
    <3>3. QED
      BY <2>1, <3>1, <3>2, LeaveEffect DEF UseOutcome, Ended
  <2>4. CASE /\ SetHandle(h, [handle[h] EXCEPT !.closed = TRUE, !.state = "failed"])
             /\ closings' = closings
    <3>1. handle'[h].state = "failed" /\ handle'[h].conn = handle[h].conn
      BY <2>4, CloseEffect
    <3>2. QED
      BY <2>1, <2>4, <3>1, LeaveEffect DEF UseOutcome, Ended
  <2>5. QED
    BY <1>7, <2>2, <2>3, <2>4 DEF CloseDefer
<1>8. ASSUME DemLookup(th) \/ DemCheck(th) \/ DemDelegate(th)
      PROVE  UseOutcome(th, h) /\ (pc'[th] = "idle" \/ pc'[th] \in Demarcating)
  <2>1. lent' = lent /\ closings' = closings /\ handle' = handle
    BY <1>8 DEF DemLookup, DemCheck, DemDelegate, poolVars, tmVars
  <2>2. pc'[th] = "idle" \/ pc'[th] \in Demarcating
    BY <1>1, <1>8, LeaveEffect DEF DemLookup, DemCheck, DemDelegate, Goto, Demarcating
  <2>3. QED
    BY <1>1, <2>1, <2>2 DEF UseOutcome, Ended
<1>9. QED
  BY <1>4, <1>5, <1>6, <1>7, <1>8 DEF UseStep
LEMMA LeakStep == ASSUME TypeInv, LeakInv, [Next]_vars PROVE LeakInv'
<1> USE DEF LeakInv
<1>1. TypeInv' /\ TypeOK /\ lent \subseteq Conns /\ CallOK
  BY ShapeStep DEF TypeInv, TypeOK
<1>2. ASSUME NEW th \in Threads, OpenStep(th) PROVE CallOK' /\ \A c \in lent' : Accounted(c)'
  <2>1. PICK h \in Handles : h = frame[th].h
    BY <1>2, CallHandle
  <2>2. /\ \A o \in Threads \ {th} : pc'[o] = pc[o] /\ frame'[o] = frame[o]
        /\ \A g \in Handles : g # h => handle'[g] = handle[g]
    BY <1>2, <2>1, Locality
  <2>3. closings' = closings /\ (Keeps(th, h) \/ Ends(th, h))
    BY <1>1, <1>2, <2>1, OpenEffect
  <2>4. pc[th] \in Opening /\ handle[h].state = "opening" /\ handle[h].conn = NoConn
    BY <1>1, <1>2, <2>1 DEF CallOK, Ended, OpenStep, At, Opening, Searching, Registering,
       Lookup, Enter, Borrow, Probe, Inspect, Judge, EvictTx, EvictConn, Swap, Release, Found,
       Recheck, PutTx, PutConn, Enlist, Hook, Wrap, Advance, SwapRaises
  <2>5. \A o \in Threads \ {th} : pc[o] \in Opening => frame[o].h # h
    BY <1>1, <2>1, <2>4 DEF CallOK
  <2>6. \A o \in Threads : pc[o] \in Closing \cup Demarcating => frame[o].h \in Handles /\ frame[o].h # h
    BY <1>1, <2>4 DEF TypeInv, FrameOK, LocalOK, HandleOK, Ended
  <2>7. CASE Keeps(th, h)
    <3>1. CallOK'
      BY <1>1, <2>1, <2>2, <2>4, <2>5, <2>7 DEF CallOK, CallLocal, Keeps, Ended, Opening, Closing, Searching, Registering
    <3>2. ASSUME NEW c \in lent' PROVE Accounted(c)'
      <4>1. CASE c \in {frame'[th].conn, frame'[th].next}
        BY <2>7, <4>1 DEF Accounted, Keeps
      <4>2. CASE c \notin {frame'[th].conn, frame'[th].next}
        <5>1. c \in lent /\ c \notin {frame[th].conn, frame[th].next}
          BY <2>7, <4>2 DEF Keeps
        <5>2. Accounted(c)
          BY <5>1
        <5>3. QED
          BY <2>2, <2>3, <2>7, <5>1, <5>2 DEF Accounted, Keeps
      <4>3. QED
        BY <4>1, <4>2
    <3>3. QED
      BY <3>1, <3>2
  <2>8. CASE Ends(th, h)
    <3>1. CallOK'
      <4>1. pc'[th] \notin Opening \cup Closing /\ CallLocal(th)'
        BY <2>8 DEF Ends, CallLocal, Opening, Searching, Registering, Closing
      <4>2. \A g \in Handles : ~(handle'[g].state \notin {"unused", "opening"}) => handle'[g].conn = NoConn
        BY <1>1, <2>2, <2>8 DEF CallOK, Ends, Ended
      <4>3. \A o \in Threads : pc'[o] \in Opening => handle'[frame'[o].h].state = "opening"
        <5>1. \A o \in Threads : pc[o] \in Opening => frame[o].h \in Handles
          BY DEF TypeInv, FrameOK, LocalOK
        <5>2. QED
          BY <1>1, <2>2, <2>5, <4>1, <5>1 DEF CallOK
      <4>4. \A o \in Threads : pc'[o] \in Closing => handle'[frame'[o].h].conn = frame'[o].conn
        BY <1>1, <2>2, <2>6, <4>1 DEF CallOK
      <4>5. \A o \in Threads : CallLocal(o)'
        BY <1>1, <2>2, <4>1 DEF CallOK, CallLocal
      <4>6. \A o, p \in Threads :
              pc'[o] \in Opening /\ pc'[p] \in Opening /\ frame'[o].h = frame'[p].h => o = p
        BY <1>1, <2>2, <4>1 DEF CallOK
      <4>7. QED
        BY <4>2, <4>3, <4>4, <4>5, <4>6 DEF CallOK, Ended
    <3>2. ASSUME NEW c \in lent' PROVE Accounted(c)'
      <4>1. c \in lent /\ c \in Conns /\ Accounted(c)
        BY <1>1, <2>8 DEF Ends
      <4>2. CASE c \in {frame[th].conn, frame[th].next}
        BY <2>8, <4>1, <4>2 DEF Accounted, Ends
      <4>3. CASE c \notin {frame[th].conn, frame[th].next}
        <5>1. handle[h].conn # c
          BY <2>4, <4>1, NullsAssumption
        <5>2. QED
          BY <2>2, <2>3, <4>1, <4>3, <5>1 DEF Accounted
      <4>4. QED
        BY <4>2, <4>3
    <3>3. QED
      BY <3>1, <3>2
  <2>9. QED
    BY <2>3, <2>7, <2>8
<1>3. ASSUME NEW th \in Threads, UseStep(th) PROVE CallOK' /\ \A c \in lent' : Accounted(c)'
  <2>1. PICK h \in Handles : h = frame[th].h
    BY <1>3, CallHandle
  <2>2. /\ \A o \in Threads \ {th} : pc'[o] = pc[o] /\ frame'[o] = frame[o]
        /\ \A g \in Handles : g # h => handle'[g] = handle[g]
    BY <1>3, <2>1, Locality
  <2>3. /\ UseOutcome(th, h)
        /\ \/ pc'[th] = "idle"
           \/ pc'[th] \in Closing /\ frame'[th].h = h /\ frame'[th].conn = handle[h].conn
           \/ pc'[th] \in Demarcating
    BY <1>1, <1>3, <2>1, UseEffect
  <2>4. pc[th] \in Closing \cup Demarcating /\ Ended(h)
    BY <1>3, <2>1 DEF TypeInv, HandleOK, UseStep, CloseLookup, CloseCheck, CloseContext, CloseDefer,
       DemLookup, DemCheck, DemDelegate, At, Closing, Demarcating
  <2>5. pc[th] \notin Opening /\ pc'[th] \notin Opening
    BY <2>3, <2>4 DEF Opening, Searching, Registering, Closing, Demarcating
  <2>6. \A o \in Threads : pc[o] \in Opening => frame[o].h \in Handles /\ frame[o].h # h
    BY <1>1, <2>4 DEF TypeInv, FrameOK, LocalOK, CallOK, Ended
  <2>7. \A o \in Threads : pc[o] \in Closing => frame[o].h \in Handles
    BY DEF TypeInv, FrameOK, LocalOK
  <2>8. CallLocal(th)'
    BY <2>5 DEF CallLocal, Opening, Searching, Registering
  <2>9. CallOK'
    <3>1. \A g \in Handles : ~(handle'[g].state \notin {"unused", "opening"}) => handle'[g].conn = NoConn
      BY <1>1, <2>2, <2>3 DEF CallOK, UseOutcome, Ended
    <3>2. \A o \in Threads : pc'[o] \in Opening => handle'[frame'[o].h].state = "opening"
      BY <1>1, <2>2, <2>5, <2>6 DEF CallOK
    <3>3. \A o \in Threads : pc'[o] \in Closing => handle'[frame'[o].h].conn = frame'[o].conn
      BY <1>1, <2>2, <2>3, <2>7 DEF CallOK, UseOutcome, Closing, Demarcating
    <3>4. \A o \in Threads : CallLocal(o)'
      BY <1>1, <2>2, <2>8 DEF CallOK, CallLocal
    <3>5. \A o, p \in Threads :
            pc'[o] \in Opening /\ pc'[p] \in Opening /\ frame'[o].h = frame'[p].h => o = p
      BY <1>1, <2>2, <2>5 DEF CallOK
    <3>6. QED
      BY <3>1, <3>2, <3>3, <3>4, <3>5 DEF CallOK, Ended
  <2>10. ASSUME NEW c \in lent' PROVE Accounted(c)'
    <3>1. c \in lent /\ Accounted(c)
      BY <2>3 DEF UseOutcome
    <3>2. CASE \E o \in Threads : pc[o] \in Opening /\ c \in {frame[o].conn, frame[o].next}
      BY <2>2, <2>5, <3>2 DEF Accounted
    <3>3. ASSUME NEW g \in Handles, handle[g].conn = c,
                 handle[g].state \in {"open", "failed"} \/ \E t \in Txs : g \in closings[t]
          PROVE  Accounted(c)'
      <4>1. handle'[g].conn = c
        BY <2>2, <2>3, <3>3 DEF UseOutcome
      <4>2. handle'[g].state \in {"open", "failed"} \/ \E t \in Txs : g \in closings'[t]
        BY <2>2, <2>3, <3>3 DEF UseOutcome
      <4>3. QED
        BY <4>1, <4>2 DEF Accounted
    <3>4. QED
      BY <3>1, <3>2, <3>3 DEF Accounted
  <2>11. QED
    BY <2>9, <2>10
<1>4. ASSUME NEW th \in Threads, NEW h \in Handles, NEW auth \in BOOLEAN, GetConnection(th, h, auth)
      PROVE  CallOK' /\ \A c \in lent' : Accounted(c)'
  <2> DEFINE t == IF IsActive(assoc[th]) THEN assoc[th] ELSE NoTx
  <2>1. /\ pc[th] = "idle" /\ handle[h].state = "unused" /\ lent' = lent /\ closings' = closings
        /\ pc' = [pc EXCEPT ![th] = IF t = NoTx THEN "borrow" ELSE "lookup"]
        /\ frame' = [frame EXCEPT ![th] = [Blank EXCEPT !.h = h, !.auth = auth, !.tx = t]]
        /\ handle' = [handle EXCEPT ![h] = [handle[h] EXCEPT !.state = "opening", !.owner = th]]
    BY <1>4 DEF GetConnection, At, Goto, SetFrame, SetHandle, tmVars, poolVars
  <2>2. /\ pc'[th] \in {"borrow", "lookup"} /\ frame'[th].h = h
        /\ frame'[th].conn = NoConn /\ frame'[th].next = NoConn
    BY <1>1, <2>1 DEF TypeOK, Blank
  <2>3. \A o \in Threads \ {th} : pc'[o] = pc[o] /\ frame'[o] = frame[o]
    BY <1>1, <2>1 DEF TypeOK
  <2>4. /\ handle'[h].state = "opening" /\ handle'[h].conn = handle[h].conn
        /\ \A g \in Handles \ {h} : handle'[g] = handle[g]
    BY <1>1, <2>1 DEF TypeOK, Handle
  <2>5. pc[th] \notin Opening /\ pc'[th] \in Opening /\ pc'[th] \notin Closing /\ handle[h].conn = NoConn
    BY <1>1, <2>1, <2>2 DEF CallOK, Ended, Opening, Searching, Registering, Closing
  <2>6. \A o \in Threads : pc[o] \in Opening => frame[o].h \in Handles /\ frame[o].h # h
    BY <1>1, <2>1 DEF TypeInv, FrameOK, LocalOK, CallOK
  <2>7. \A o \in Threads : pc[o] \in Closing => frame[o].h \in Handles /\ frame[o].h # h
    BY <2>1 DEF TypeInv, FrameOK, LocalOK, HandleOK, Ended
  <2>8. CallLocal(th)'
    BY <2>2 DEF CallLocal
  <2>9. CallOK'
    <3>1. \A g \in Handles : ~(handle'[g].state \notin {"unused", "opening"}) => handle'[g].conn = NoConn
      BY <1>1, <2>4, <2>5 DEF CallOK, Ended
    <3>2. \A o \in Threads : pc'[o] \in Opening => handle'[frame'[o].h].state = "opening"
      BY <1>1, <2>2, <2>3, <2>4, <2>6 DEF CallOK
    <3>3. \A o \in Threads : pc'[o] \in Closing => handle'[frame'[o].h].conn = frame'[o].conn
      BY <1>1, <2>3, <2>4, <2>5, <2>7 DEF CallOK
    <3>4. \A o \in Threads : CallLocal(o)'
      BY <1>1, <2>3, <2>8 DEF CallOK, CallLocal
    <3>5. \A o, p \in Threads :
            pc'[o] \in Opening /\ pc'[p] \in Opening /\ frame'[o].h = frame'[p].h => o = p
      BY <1>1, <2>2, <2>3, <2>6 DEF CallOK
    <3>6. QED
      BY <3>1, <3>2, <3>3, <3>4, <3>5 DEF CallOK, Ended
  <2>10. ASSUME NEW c \in lent' PROVE Accounted(c)'
    <3>1. c \in Conns /\ Accounted(c) /\ c # NoConn
      BY <1>1, <2>1, <2>10, NullsAssumption
    <3>2. QED
      BY <2>1, <2>3, <2>4, <2>5, <3>1 DEF Accounted
  <2>11. QED
    BY <2>9, <2>10
<1>5. ASSUME NEW th \in Threads, NEW h \in Handles, Close(th, h) \/ Demarcate(th, h)
      PROVE  CallOK' /\ \A c \in lent' : Accounted(c)'
  <2>1. CASE handle[h].tx = NoTx /\ Close(th, h)
    <3>1. /\ SetHandle(h, [handle[h] EXCEPT !.state = "closed"]) /\ handle[h].state = "open"
          /\ pc' = pc /\ frame' = frame /\ closings' = closings /\ lent' = lent \ {handle[h].conn}
      BY <2>1 DEF Close, Return, tmVars
    <3>2. handle'[h].state = "closed" /\ handle'[h].conn = handle[h].conn
      BY <3>1, CloseEffect
    <3>3. \A g \in Handles \ {h} : handle'[g] = handle[g]
      BY <1>1, <3>1 DEF SetHandle, TypeOK
    <3>4. \A o \in Threads : pc[o] \in Opening \cup Closing => frame[o].h \in Handles
      BY DEF TypeInv, FrameOK, LocalOK
    <3>5. CallOK'
      BY <1>1, <3>1, <3>2, <3>3, <3>4 DEF CallOK, CallLocal, Ended
    <3>6. ASSUME NEW c \in lent' PROVE Accounted(c)'
      BY <3>1, <3>3, <3>6 DEF Accounted
    <3>7. QED
      BY <3>5, <3>6
  <2>2. CASE ~(handle[h].tx = NoTx /\ Close(th, h))
    <3>1. /\ pc[th] = "idle" /\ handle' = handle /\ lent' = lent /\ closings' = closings
          /\ \/ pc' = [pc EXCEPT ![th] = "closeLookup"]
             \/ pc' = [pc EXCEPT ![th] = "demLookup"]
          /\ frame' = [frame EXCEPT ![th] = [Blank EXCEPT !.h = h, !.conn = handle[h].conn]]
      BY <1>5, <2>2 DEF Close, Demarcate, At, Goto, SetFrame, tmVars, poolVars
    <3>2. pc'[th] \in {"closeLookup", "demLookup"} /\ frame'[th].h = h /\ frame'[th].conn = handle[h].conn
      BY <1>1, <3>1 DEF TypeOK, Blank
    <3>3. \A o \in Threads \ {th} : pc'[o] = pc[o] /\ frame'[o] = frame[o]
      BY <1>1, <3>1 DEF TypeOK
    <3>4. pc[th] \notin Opening /\ pc'[th] \notin Opening /\ CallLocal(th)'
      BY <3>1, <3>2 DEF CallLocal, Opening, Searching, Registering
    <3>5. CallOK'
      BY <1>1, <3>1, <3>2, <3>3, <3>4 DEF CallOK, CallLocal, Ended
    <3>6. ASSUME NEW c \in lent' PROVE Accounted(c)'
      BY <3>1, <3>3, <3>4, <3>6 DEF Accounted
    <3>7. QED
      BY <3>5, <3>6
  <2>3. QED
    BY <2>1, <2>2
<1>6. ASSUME NEW th \in Threads, Suspend(th) \/ Complete(th) \/ Completed(th)
      PROVE  CallOK' /\ \A c \in lent' : Accounted(c)'
  <2>1. /\ frame' = frame /\ handle' = handle /\ lent' = lent /\ closings' = closings
        /\ pc[th] \in {"idle", "completing"} /\ pc'[th] \in {"idle", "completing"}
        /\ \A o \in Threads \ {th} : pc'[o] = pc[o]
    BY <1>1, <1>6 DEF Suspend, Complete, Completed, At, Goto, TypeOK, poolVars
  <2>2. pc[th] \notin Opening \cup Closing /\ pc'[th] \notin Opening \cup Closing /\ CallLocal(th)'
    BY <2>1 DEF CallLocal, Opening, Searching, Registering, Closing
  <2>3. CallOK'
    BY <1>1, <2>1, <2>2 DEF CallOK, CallLocal, Ended
  <2>4. ASSUME NEW c \in lent' PROVE Accounted(c)'
    BY <2>1, <2>2, <2>4 DEF Accounted
  <2>5. QED
    BY <2>3, <2>4
<1>7. ASSUME NEW t \in Txs, NEW h \in Handles, RunClosing(t, h)
      PROVE  CallOK' /\ \A c \in lent' : Accounted(c)'
  <2>1. /\ frame' = frame /\ handle' = handle /\ pc' = pc /\ lent' = lent \ {handle[h].conn}
        /\ closings' = [closings EXCEPT ![t] = @ \ {h}]
    BY <1>7 DEF RunClosing, Return
  <2>2. CallOK'
    BY <1>1, <2>1 DEF CallOK, CallLocal, Ended
  <2>3. \A u \in Txs, g \in Handles : g # h /\ g \in closings[u] => g \in closings'[u]
    BY <1>1, <2>1 DEF TypeOK
  <2>4. ASSUME NEW c \in lent' PROVE Accounted(c)'
    BY <2>1, <2>3, <2>4 DEF Accounted
  <2>5. QED
    BY <2>2, <2>4
<1>8. ASSUME UNCHANGED <<lent, closings, handle, pc, frame>>
      PROVE  CallOK' /\ \A c \in lent' : Accounted(c)'
  <2>1. CallOK'
    BY <1>1, <1>8 DEF CallOK, CallLocal, Ended
  <2>2. ASSUME NEW c \in lent' PROVE Accounted(c)'
    BY <1>8, <2>2 DEF Accounted
  <2>3. QED
    BY <2>1, <2>2
<1>9. ASSUME NEW th \in Threads, ClientCall(th) \/ Completed(th)
      PROVE  CallOK' /\ \A c \in lent' : Accounted(c)'
  <2>1. ASSUME NEW t \in Txs, Begin(th, t) \/ Resume(th, t) PROVE UNCHANGED <<lent, closings, handle, pc, frame>>
    BY <2>1 DEF Begin, Resume, poolVars
  <2>2. QED
    BY <1>4, <1>5, <1>6, <1>8, <1>9, <2>1, EnvironmentAssumption DEF ClientCall, OneOf
<1>10. ASSUME NEW t \in Txs, MarkRollback(t) \/ TimeOut(t) \/ CompletionStep(t)
       PROVE  CallOK' /\ \A c \in lent' : Accounted(c)'
  <2>1. CASE \E h \in Handles : RunClosing(t, h)
    BY <1>7, <2>1
  <2>2. CASE ~ \E h \in Handles : RunClosing(t, h)
    <3>1. UNCHANGED <<lent, closings, handle, pc, frame>>
      BY <1>10, <2>2 DEF MarkRollback, TimeOut, CompletionStep, Resolve, ForgetConn, RunTermination, poolVars
    <3>2. QED
      BY <1>8, <3>1
  <2>3. QED
    BY <2>1, <2>2
<1>11. ASSUME UNCHANGED vars PROVE CallOK' /\ \A c \in lent' : Accounted(c)'
  BY <1>8, <1>11 DEF vars, tmVars, poolVars
<1>12. QED
  BY <1>2, <1>3, <1>9, <1>10, <1>11 DEF Next

LEMMA InitLeakInv == Init => LeakInv
BY DEF Init, LeakInv, CallOK, CallLocal, Ended, NewHandle, Blank, Opening, Searching, Registering, Closing

\* Every connection out of the pool has somebody who answers for it, whatever the
\* environment: transactions shared between threads or rolled back by a timer,
\* handles recycled, callbacks run in any order.
THEOREM NoSilentLeakHolds == Spec => []NoSilentLeak
<1>1. LeakInv => NoSilentLeak
  BY DEF LeakInv, Accounted, NoSilentLeak
<1>2. Spec => [](TypeInv /\ LeakInv)
  <2>1. Init => TypeInv /\ LeakInv
    BY InitTypeInv, InitLeakInv
  <2>2. TypeInv /\ LeakInv /\ [Next]_vars => TypeInv' /\ LeakInv'
    BY ShapeStep, LeakStep
  <2>3. QED
    BY <2>1, <2>2, PTL DEF Spec
<1>3. QED
  BY <1>1, <1>2, PTL
-----------------------------------------------------------------------------
(* With one thread to a transaction: one connection, which it was asked to enlist *)

\* What a step of getConnection does to the two maps and to the manager.
LEMMA MemoryEffect ==
  ASSUME TypeInv, SoloInv, NEW th \in Threads, OpenStep(th)
  PROVE  /\ status' = status /\ assoc' = assoc
         /\ \A u \in Txs : asked[u] \subseteq asked'[u]
         /\ \A u \in Txs : (IsActive(u) \/ status[u] = "none") /\ transactionMemory'[u] # transactionMemory[u]
              => /\ u = frame[th].tx /\ transactionMemory[u] = NoConn
                 /\ pc[th] = "putTx" /\ IsActive(u)
         /\ \A c \in Conns : connectionMemory'[c] \in {connectionMemory[c], NoTx, frame[th].tx}
<1>1. /\ LocalOK(th) /\ RememberedAt(th) /\ EvictsOverAt(th) /\ frame[th] \in Frame
      /\ transactionMemory \in [Txs -> Conns \cup {NoConn}]
      /\ connectionMemory \in [Conns -> Txs \cup {NoTx}]
      /\ asked \in [Txs -> SUBSET Conns]
      /\ frame[th].tx \in Txs => status[frame[th].tx] # "none"
  BY DEF TypeInv, TypeOK, FrameOK, SoloInv, Begun
<1> USE <1>1
<1>2. CASE Lookup(th)
  BY <1>2 DEF Lookup, tmVars, memVars
<1>3. CASE Enter(th)
  BY <1>3 DEF Enter, tmVars, memVars
<1>4. CASE Borrow(th)
  BY <1>4 DEF Borrow, tmVars, memVars
<1>5. CASE Probe(th)
  BY <1>5 DEF Probe, tmVars, memVars
<1>6. CASE Inspect(th)
  BY <1>6 DEF Inspect, tmVars, memVars
<1>7. CASE Judge(th)
  BY <1>7 DEF Judge, tmVars, memVars
<1>8. CASE EvictTx(th)
  BY <1>8 DEF EvictTx, EvictsOverAt, LocalOK, IsActive, At, tmVars, memVars
<1>9. CASE EvictConn(th)
  BY <1>9 DEF EvictConn, LocalOK, At, Searching, tmVars, memVars
<1>10. CASE Swap(th)
  BY <1>10 DEF Swap, tmVars, memVars
<1>11. CASE Release(th)
  BY <1>11 DEF Release, tmVars, memVars
<1>12. CASE Found(th)
  BY <1>12 DEF Found, tmVars, memVars
<1>13. CASE Recheck(th)
  BY <1>13 DEF Recheck, tmVars, memVars
<1>14. CASE PutTx(th)
  BY <1>14, NullsAssumption DEF PutTx, RememberedAt, LocalOK, IsActive, At, Registering, tmVars, memVars
<1>15. CASE PutConn(th)
  BY <1>15 DEF PutConn, LocalOK, At, Registering, tmVars, memVars
<1>16. CASE Enlist(th)
  BY <1>16 DEF Enlist, LocalOK, At, Registering, tmVars, memVars
<1>17. CASE Hook(th)
  BY <1>17 DEF Hook, tmVars, memVars
<1>18. CASE Wrap(th)
  BY <1>18 DEF Wrap, tmVars, memVars
<1>19. CASE SwapRaises(th)
  BY <1>19 DEF SwapRaises, tmVars, memVars
<1>20. QED
  BY <1>19, <1>2, <1>3, <1>4, <1>5, <1>6, <1>7, <1>8, <1>9, <1>10, <1>11, <1>12, <1>13, <1>14, <1>15, <1>16, <1>17, <1>18 DEF OpenStep, Advance

\* A step of getConnection goes on in the same transaction, ...
Continues(th) ==
  /\ pc'[th] \in Opening /\ handle' = handle /\ frame'[th].tx = frame[th].tx
  /\ frame'[th].seen \in {frame[th].seen, NoTx} \/ \E c \in Conns : frame'[th].seen = connectionMemory[c]
  /\ RememberedAt(th)' /\ EvictsOverAt(th)'
  /\ pc[th] = "putTx" => pc'[th] = "putConn"
  /\ pc[th] \in {"putConn", "enlist"} =>
       pc'[th] \in {"putConn", "enlist"} \/ frame[th].conn \in asked'[frame[th].tx]

\* ... or ends the call: in an exception, or with a connection that is the one
\* remembered for the transaction, and that it was asked to enlist.
Finishes(th, h) ==
  /\ pc'[th] = "idle" /\ frame'[th] = Blank
  /\ handle'[h].tx \in {handle[h].tx, frame[th].tx}
  /\ pc[th] # "putTx"
  /\ pc[th] \in {"putConn", "enlist"} /\ status[frame[th].tx] = "active"
       => frame[th].conn \in asked'[frame[th].tx]
  /\ \A t \in Txs : handle'[h].state = "open" /\ handle'[h].tx = t =>
       /\ IsActive(t) => handle'[h].conn = transactionMemory[t]
       /\ status[t] = "active" => handle'[h].conn \in asked[t]

LEMMA CallEffect ==
  ASSUME TypeInv, SoloInv, NEW th \in Threads, OpenStep(th), NEW h \in Handles, h = frame[th].h
  PROVE  Continues(th) \/ Finishes(th, h)
<1>1. /\ LocalOK(th) /\ RememberedAt(th) /\ EvictsOverAt(th) /\ frame[th] \in Frame
      /\ pc \in [Threads -> Labels] /\ frame \in [Threads -> Frame]
      /\ status \in [Txs -> Statuses]
      /\ transactionMemory \in [Txs -> Conns \cup {NoConn}]
      /\ connectionMemory \in [Conns -> Txs \cup {NoTx}]
      /\ asked \in [Txs -> SUBSET Conns]
      /\ frame[th].seen \in Txs => status[frame[th].seen] # "none"
  BY DEF TypeInv, TypeOK, FrameOK, SoloInv, Begun
<1> USE <1>1, NullsAssumption
<1>2. CASE Lookup(th)
  <2>1. CASE transactionMemory[frame[th].tx] # NoConn
    <3>1. frame[th].tx \in Txs /\ pc[th] = "lookup" /\ Deliver(th, transactionMemory[frame[th].tx], frame[th].tx)
      BY <1>2, <2>1 DEF Lookup, LocalOK, At
    <3>2. ASSUME status[frame[th].tx] = "active"
          PROVE  transactionMemory[frame[th].tx] \in asked[frame[th].tx]
      <4>1. \A o \in Threads : frame[o].tx = frame[th].tx /\ pc[o] \in {"putConn", "enlist"} => o = th
        BY <3>1 DEF SoloInv, Solo, Opening, Registering
      <4>2. QED
        BY <2>1, <3>1, <3>2, <4>1 DEF SoloInv, RememberedIsAsked
    <3>3. QED
      BY <3>1, <3>2, DeliverEffect DEF Finishes
  <2>2. CASE ~(transactionMemory[frame[th].tx] # NoConn)
    BY <1>2, <2>2 DEF Lookup, Continues, At, Goto, SetFrame, tmVars, poolVars, memVars, LocalOK, RememberedAt, EvictsOverAt, IsActive, Frame, Opening, Searching, Registering
  <2>3. QED
    BY <2>1, <2>2
<1>3. CASE Enter(th)
  BY <1>3 DEF Enter, Continues, At, Goto, SetFrame, tmVars, poolVars, memVars, LocalOK, RememberedAt, EvictsOverAt, IsActive, Frame, Opening, Searching, Registering
<1>4. CASE Borrow(th)
  BY <1>4 DEF Borrow, Continues, At, Goto, SetFrame, tmVars, poolVars, memVars, LocalOK, RememberedAt, EvictsOverAt, IsActive, Frame, Opening, Searching, Registering, Lend
<1>5. CASE Probe(th)
  BY <1>5 DEF Probe, Continues, At, Goto, SetFrame, tmVars, poolVars, memVars, LocalOK, RememberedAt, EvictsOverAt, IsActive, Frame, Opening, Searching, Registering
<1>6. CASE Inspect(th)
  <2>1. CASE connectionMemory[frame[th].conn] = NoTx
    <3>1. Raise(th, frame[th].conn) /\ pc[th] = "inspect"
      BY <1>6, <2>1 DEF Inspect, At
    <3>2. QED
      BY <2>1, <3>1, RaiseEffect DEF Finishes
  <2>2. CASE ~(connectionMemory[frame[th].conn] = NoTx)
    BY <1>6, <2>2 DEF Inspect, Continues, At, Goto, SetFrame, tmVars, poolVars, memVars, LocalOK, RememberedAt, EvictsOverAt, IsActive, Frame, Opening, Searching, Registering
  <2>3. QED
    BY <2>1, <2>2
<1>7. CASE Judge(th)
  BY <1>7 DEF Judge, Continues, At, Goto, SetFrame, tmVars, poolVars, memVars, LocalOK, RememberedAt, EvictsOverAt, IsActive, Frame, Opening, Searching, Registering, Statuses
<1>8. CASE EvictTx(th)
  BY <1>8 DEF EvictTx, Continues, At, Goto, SetFrame, tmVars, poolVars, memVars, LocalOK, RememberedAt, EvictsOverAt, IsActive, Frame, Opening, Searching, Registering
<1>9. CASE EvictConn(th)
  BY <1>9 DEF EvictConn, Continues, At, Goto, SetFrame, tmVars, poolVars, memVars, LocalOK, RememberedAt, EvictsOverAt, IsActive, Frame, Opening, Searching, Registering
<1>10. CASE Swap(th)
  BY <1>10 DEF Swap, Continues, At, Goto, SetFrame, tmVars, poolVars, memVars, LocalOK, RememberedAt, EvictsOverAt, IsActive, Frame, Opening, Searching, Registering, Lend
<1>11. CASE Release(th)
  BY <1>11 DEF Release, Continues, At, Goto, SetFrame, tmVars, poolVars, memVars, LocalOK, RememberedAt, EvictsOverAt, IsActive, Frame, Opening, Searching, Registering
<1>12. CASE Found(th)
  <2>1. CASE frame[th].tx = NoTx
    <3>1. Deliver(th, frame[th].conn, NoTx) /\ pc[th] = "found"
      BY <1>12, <2>1 DEF Found, At
    <3>2. QED
      BY <2>1, <3>1, DeliverEffect DEF Finishes
  <2>2. CASE ~(frame[th].tx = NoTx)
    BY <1>12, <2>2 DEF Found, Continues, At, Goto, SetFrame, tmVars, poolVars, memVars, LocalOK, RememberedAt, EvictsOverAt, IsActive, Frame, Opening, Searching, Registering
  <2>3. QED
    BY <2>1, <2>2
<1>13. CASE Recheck(th)
  BY <1>13 DEF Recheck, Continues, At, Goto, SetFrame, tmVars, poolVars, memVars, LocalOK, RememberedAt, EvictsOverAt, IsActive, Frame, Opening, Searching, Registering
<1>14. CASE PutTx(th)
  BY <1>14 DEF PutTx, Continues, At, Goto, SetFrame, tmVars, poolVars, memVars, LocalOK, RememberedAt, EvictsOverAt, IsActive, Frame, Opening, Searching, Registering
<1>15. CASE PutConn(th)
  BY <1>15 DEF PutConn, Continues, At, Goto, SetFrame, tmVars, poolVars, memVars, LocalOK, RememberedAt, EvictsOverAt, IsActive, Frame, Opening, Searching, Registering
<1>16. CASE Enlist(th)
  <2>1. CASE Raise(th, frame[th].conn)
    <3>1. /\ Raise(th, frame[th].conn) /\ pc[th] = "enlist"
          /\ status[frame[th].tx] = "active" => frame[th].conn \in asked'[frame[th].tx]
      BY <1>16, <2>1 DEF Enlist, At, LocalOK, Registering
    <3>2. QED
      BY <2>1, <3>1, RaiseEffect DEF Finishes
  <2>2. CASE ~Raise(th, frame[th].conn)
    BY <1>16, <2>2 DEF Enlist, Continues, At, Goto, SetFrame, tmVars, poolVars, memVars, LocalOK, RememberedAt, EvictsOverAt, IsActive, Frame, Opening, Searching, Registering
  <2>3. QED
    BY <2>1, <2>2
<1>17. CASE Hook(th)
  <2>1. CASE Raise(th, frame[th].conn)
    <3>1. Raise(th, frame[th].conn) /\ pc[th] = "hook"
      BY <1>17, <2>1 DEF Hook, At
    <3>2. QED
      BY <2>1, <3>1, RaiseEffect DEF Finishes
  <2>2. CASE ~Raise(th, frame[th].conn)
    BY <1>17, <2>2 DEF Hook, Continues, At, Goto, SetFrame, tmVars, poolVars, memVars, LocalOK, RememberedAt, EvictsOverAt, IsActive, Frame, Opening, Searching, Registering
  <2>3. QED
    BY <2>1, <2>2
<1>18. CASE Wrap(th)
  <2>1. Deliver(th, frame[th].conn, frame[th].tx) /\ pc[th] = "wrap"
    BY <1>18 DEF Wrap, At
  <2>2. QED
    BY <2>1, DeliverEffect DEF Finishes, RememberedAt, IsActive
<1>19. CASE SwapRaises(th)
  <2>1. Raise(th, frame[th].conn) /\ pc[th] = "swap"
    BY <1>19 DEF SwapRaises, At
  <2>2. QED
    BY <2>1, RaiseEffect DEF Finishes
<1>20. QED
  BY <1>19, <1>2, <1>3, <1>4, <1>5, <1>6, <1>7, <1>8, <1>9, <1>10, <1>11, <1>12, <1>13, <1>14, <1>15, <1>16, <1>17, <1>18 DEF OpenStep, Advance

\* Closing, or calling something else on, a connection disturbs none of it.
LEMMA UseLeavesMemory ==
  ASSUME TypeInv, NEW th \in Threads, UseStep(th), NEW h \in Handles, h = frame[th].h
  PROVE  /\ UNCHANGED <<status, assoc, asked, memVars>>
         /\ pc'[th] \notin Opening /\ frame'[th].tx \in {frame[th].tx, NoTx}
         /\ frame'[th].seen \in {frame[th].seen, NoTx} \/ \E c \in Conns : frame'[th].seen = connectionMemory[c]
         /\ handle'[h].tx = handle[h].tx
         /\ handle'[h].state = "open" => handle'[h] = handle[h]
         /\ pc'[th] # "evictTx" /\ pc[th] \notin {"putConn", "enlist"}
<1>1. /\ LocalOK(th) /\ frame[th] \in Frame /\ handle[h] \in Handle
      /\ pc \in [Threads -> Labels] /\ frame \in [Threads -> Frame] /\ handle \in [Handles -> Handle]
  BY DEF TypeInv, TypeOK, FrameOK
<1> USE <1>1
<1>2. ASSUME CloseLookup(th) \/ CloseContext(th)
      PROVE  /\ UNCHANGED <<status, assoc, asked, memVars>> /\ pc[th] \in Closing /\ frame[th].conn \in Conns
             /\ IF connectionMemory[frame[th].conn] = NoTx
                THEN Raise(th, frame[th].conn)
                ELSE /\ frame' = [frame EXCEPT ![th] = [frame[th] EXCEPT !.seen = connectionMemory[frame[th].conn]]]
                     /\ handle' = handle
                     /\ pc' \in {[pc EXCEPT ![th] = "closeCheck"], [pc EXCEPT ![th] = "closeDefer"]}
  BY <1>2 DEF CloseLookup, CloseContext, At, Goto, SetFrame, tmVars, LocalOK, Closing
<1>3. CASE CloseLookup(th) \/ CloseContext(th)
  <2>1. CASE connectionMemory[frame[th].conn] = NoTx
    BY <1>2, <1>3, <2>1, RaiseEffect DEF Blank, Opening, Searching, Registering, Closing
  <2>2. CASE connectionMemory[frame[th].conn] # NoTx
    BY <1>2, <1>3, <2>2 DEF Frame, Opening, Searching, Registering, Closing
  <2>3. QED
    BY <2>1, <2>2
<1>4. CASE CloseCheck(th)
  <2>1. UNCHANGED <<status, assoc, asked, memVars>> /\ pc[th] = "closeCheck"
    BY <1>4 DEF CloseCheck, At, tmVars
  <2>2. CASE IsActive(frame[th].seen)
    BY <1>4, <2>1, <2>2 DEF CloseCheck, Goto, Opening, Searching, Registering
  <2>3. CASE ~IsActive(frame[th].seen)
    <3>1. Leave(th) /\ SetHandle(h, [handle[h] EXCEPT !.state = "closed"])
      BY <1>4, <2>3 DEF CloseCheck
    <3>2. handle'[h].state = "closed" /\ handle'[h].tx = handle[h].tx
      BY <3>1 DEF SetHandle, Handle
    <3>3. QED
      BY <2>1, <3>1, <3>2, LeaveEffect DEF Blank, Opening, Searching, Registering
  <2>4. QED
    BY <2>2, <2>3
<1>5. CASE CloseDefer(th)
  <2>1. /\ UNCHANGED <<status, assoc, asked, memVars>> /\ pc[th] = "closeDefer" /\ Leave(th)
        /\ \/ handle' = handle
           \/ SetHandle(h, [handle[h] EXCEPT !.closed = TRUE, !.state = "closed"])
           \/ SetHandle(h, [handle[h] EXCEPT !.closed = TRUE, !.state = "failed"])
    BY <1>5 DEF CloseDefer, At
  <2>2. \/ handle' = handle
        \/ handle'[h].state \in {"closed", "failed"} /\ handle'[h].tx = handle[h].tx
    <3>1. ASSUME NEW s \in HandleStates, SetHandle(h, [handle[h] EXCEPT !.closed = TRUE, !.state = s])
          PROVE  handle'[h].state = s /\ handle'[h].tx = handle[h].tx
      BY <3>1 DEF SetHandle, Handle
    <3>2. QED
      BY <2>1, <3>1 DEF HandleStates
  <2>3. QED
    BY <2>1, <2>2, LeaveEffect DEF Blank, Opening, Searching, Registering
<1>6. CASE DemLookup(th) \/ DemCheck(th) \/ DemDelegate(th)
  <2>1. /\ UNCHANGED <<status, assoc, asked, memVars>> /\ handle' = handle
        /\ pc[th] \in Demarcating /\ frame[th].conn \in Conns
        /\ \/ Leave(th)
           \/ /\ pc' \in {[pc EXCEPT ![th] = "demCheck"], [pc EXCEPT ![th] = "demDelegate"]}
              /\ frame' \in {frame, [frame EXCEPT ![th] = [frame[th] EXCEPT !.seen = connectionMemory[frame[th].conn]]]}
    BY <1>6 DEF DemLookup, DemCheck, DemDelegate, At, Goto, SetFrame, tmVars, LocalOK, Demarcating
  <2>2. CASE Leave(th)
    BY <2>1, <2>2, LeaveEffect DEF Blank, Opening, Searching, Registering, Demarcating
  <2>3. CASE ~Leave(th)
    BY <2>1, <2>3 DEF Frame, Opening, Searching, Registering, Demarcating
  <2>4. QED
    BY <2>2, <2>3
<1>7. QED
  BY <1>3, <1>4, <1>5, <1>6 DEF UseStep

\* A step of getConnection keeps what is claimed of transactions with one thread.
LEMMA SoloOpen ==
  ASSUME TypeInv, CallOK, SoloInv, NEW th \in Threads, OpenStep(th)
  PROVE  SoloInv'
<1>1. PICK h \in Handles : h = frame[th].h
  BY CallHandle
<1>2. /\ \A o \in Threads \ {th} : pc'[o] = pc[o] /\ frame'[o] = frame[o]
      /\ \A g \in Handles : g # h => handle'[g] = handle[g]
  BY <1>1, Locality
<1>3. /\ status' = status /\ assoc' = assoc
      /\ \A u \in Txs : asked[u] \subseteq asked'[u]
      /\ \A u \in Txs : (IsActive(u) \/ status[u] = "none") /\ transactionMemory'[u] # transactionMemory[u]
           => /\ u = frame[th].tx /\ transactionMemory[u] = NoConn
              /\ pc[th] = "putTx" /\ IsActive(u)
      /\ \A c \in Conns : connectionMemory'[c] \in {connectionMemory[c], NoTx, frame[th].tx}
  BY MemoryEffect
<1>4. Continues(th) \/ Finishes(th, h)
  BY <1>1, CallEffect
<1>5. pc[th] \in Opening /\ handle[h].state = "opening"
  BY <1>1 DEF CallOK, OpenStep, At, Opening, Searching, Registering, Lookup, Enter, Borrow, Probe,
       Inspect, Judge, EvictTx, EvictConn, Swap, Release, Found, Recheck, PutTx, PutConn, Enlist, Hook, Wrap, Advance, SwapRaises
<1>6. \A u \in Txs : IsActive(u)' = IsActive(u)
  BY <1>3 DEF IsActive
<1>7. /\ frame'[th].tx \in {frame[th].tx, NoTx}
      /\ pc'[th] \in Opening => frame'[th].tx = frame[th].tx
      /\ frame'[th].seen \in {frame[th].seen, NoTx} \/ \E c \in Conns : frame'[th].seen = connectionMemory[c]
      /\ handle'[h].tx \in {handle[h].tx, frame[th].tx}
  BY <1>4 DEF Continues, Finishes, Blank, Opening, Searching, Registering
<1>8. Begun'
  <2>1. SUFFICES ASSUME NEW t \in Txs, status[t] = "none"
                 PROVE  /\ transactionMemory'[t] = NoConn
                        /\ \A c \in Conns : connectionMemory'[c] # t
                        /\ \A g \in Handles : handle'[g].tx # t
                        /\ \A o \in Threads : assoc'[o] # t /\ frame'[o].tx # t /\ frame'[o].seen # t
    BY <1>3 DEF Begun
  <2>2. /\ transactionMemory[t] = NoConn /\ t # NoTx
        /\ \A c \in Conns : connectionMemory[c] # t
        /\ \A g \in Handles : handle[g].tx # t
        /\ \A o \in Threads : assoc[o] # t /\ frame[o].tx # t /\ frame[o].seen # t
    BY <2>1, NullsAssumption DEF SoloInv, Begun
  <2>3. QED
    BY <1>2, <1>3, <1>7, <2>1, <2>2
<1>9. Solo'
  BY <1>2, <1>3, <1>5, <1>7 DEF SoloInv, Solo
<1>10. RememberedIsAsked'
  <2>1. SUFFICES ASSUME NEW t \in Txs, status[t] = "active", transactionMemory'[t] # NoConn
                 PROVE  \/ transactionMemory'[t] \in asked'[t]
                        \/ \E o \in Threads : frame'[o].tx = t /\ pc'[o] \in {"putConn", "enlist"}
    BY <1>3 DEF RememberedIsAsked
  <2>2. IsActive(t)
    BY <2>1, NullsAssumption DEF IsActive
  <2>3. CASE transactionMemory'[t] # transactionMemory[t]
    BY <1>3, <1>4, <2>2, <2>3 DEF Continues, Finishes
  <2>4. CASE transactionMemory'[t] = transactionMemory[t]
    <3>1. CASE transactionMemory[t] \in asked[t]
      BY <1>3, <2>4, <3>1
    <3>2. ASSUME NEW o \in Threads, frame[o].tx = t, pc[o] \in {"putConn", "enlist"}
          PROVE  \/ transactionMemory'[t] \in asked'[t]
                 \/ \E p \in Threads : frame'[p].tx = t /\ pc'[p] \in {"putConn", "enlist"}
      <4>1. CASE o # th
        BY <1>2, <3>2, <4>1
      <4>2. CASE o = th
        <5>1. transactionMemory[t] = frame[th].conn
          BY <2>2, <3>2, <4>2, NullsAssumption DEF SoloInv, RememberedAt
        <5>2. QED
          BY <1>4, <2>1, <2>4, <3>2, <4>2, <5>1 DEF Continues, Finishes
      <4>3. QED
        BY <4>1, <4>2
    <3>3. QED
      BY <2>1, <2>4, <3>1, <3>2 DEF SoloInv, RememberedIsAsked
  <2>5. QED
    BY <2>3, <2>4
<1>11. ASSUME NEW g \in Handles, NEW t \in Txs, OpenIn(g, t)', IsActive(t)
       PROVE  /\ handle'[g].conn = transactionMemory'[t]
              /\ status[t] = "active" => handle'[g].conn \in asked'[t]
  <2>1. handle'[g].state = "open" /\ handle'[g].tx = t
    BY <1>11 DEF OpenIn
  <2>2. CASE handle'[g] = handle[g]
    <3>1. OpenIn(g, t) /\ handle[g].conn \in Conns
      BY <2>1, <2>2, NullsAssumption DEF OpenIn, TypeInv, HandleOK, Ended
    <3>2. handle[g].conn = transactionMemory[t] /\ (status[t] = "active" => handle[g].conn \in asked[t])
      BY <1>11, <3>1 DEF SoloInv, OpenIsRemembered, OpenIsAsked
    <3>3. transactionMemory'[t] = transactionMemory[t]
      BY <1>3, <1>11, <3>1, <3>2, NullsAssumption
    <3>4. QED
      BY <1>3, <2>2, <3>2, <3>3
  <2>3. CASE handle'[g] # handle[g]
    <3>1. g = h /\ Finishes(th, h)
      BY <1>2, <1>4, <2>3 DEF Continues
    <3>2. transactionMemory'[t] = transactionMemory[t]
      BY <1>3, <1>11, <3>1 DEF Finishes
    <3>3. QED
      BY <1>3, <1>11, <2>1, <3>1, <3>2 DEF Finishes
  <2>4. QED
    BY <2>2, <2>3
<1>12. OpenIsRemembered' /\ OpenIsAsked'
  <2>1. \A t \in Txs : status[t] = "active" => IsActive(t)
    BY NullsAssumption DEF IsActive
  <2>2. OpenIsRemembered'
    BY <1>6, <1>11 DEF OpenIsRemembered
  <2>3. OpenIsAsked'
    BY <1>3, <1>11, <2>1 DEF OpenIsAsked
  <2>4. QED
    BY <2>2, <2>3
<1>13. ASSUME NEW o \in Threads PROVE RememberedAt(o)' /\ EvictsOverAt(o)'
  <2>1. CASE o = th
    <3>1. CASE Continues(th)
      BY <2>1, <3>1 DEF Continues
    <3>2. CASE Finishes(th, h)
      BY <2>1, <3>2 DEF Finishes, RememberedAt, EvictsOverAt, Searching
    <3>3. QED
      BY <1>4, <3>1, <3>2
  <2>2. CASE o # th
    <3>1. pc'[o] = pc[o] /\ frame'[o] = frame[o] /\ RememberedAt(o) /\ EvictsOverAt(o)
      BY <1>2, <2>2 DEF SoloInv
    <3>2. EvictsOverAt(o)'
      BY <1>3, <3>1 DEF EvictsOverAt
    <3>3. ASSUME frame[o].tx \in Txs, IsActive(frame[o].tx), pc[o] \in Opening
          PROVE  /\ transactionMemory'[frame[o].tx] = transactionMemory[frame[o].tx]
                 /\ asked[frame[o].tx] \subseteq asked'[frame[o].tx]
      BY <1>3, <1>5, <2>2, <3>3, NullsAssumption DEF SoloInv, Solo
    <3>4. frame[o].tx # NoTx => frame[o].tx \in Txs
      BY DEF TypeInv, TypeOK, Frame
    <3>5. RememberedAt(o)'
      BY <1>3, <1>6, <3>1, <3>3, <3>4 DEF RememberedAt, IsActive, Opening, Searching, Registering
    <3>6. QED
      BY <3>2, <3>5
  <2>3. QED
    BY <2>1, <2>2
<1>14. QED
  BY <1>8, <1>9, <1>10, <1>12, <1>13 DEF SoloInv

\* So does everything else: what the manager does to a transaction that is over,
\* what clients do with their connections, and a thread taking up a transaction.
LEMMA SoloRest ==
  ASSUME TypeInv, SoloInv, ~SharedTx,
         \/ \E th \in Threads : ClientCall(th) \/ UseStep(th) \/ Completed(th)
         \/ \E t \in Txs : MarkRollback(t) \/ TimeOut(t) \/ CompletionStep(t)
  PROVE  SoloInv'
<1>1. TypeOK /\ Begun /\ Solo /\ RememberedIsAsked /\ OpenIsRemembered /\ OpenIsAsked
      /\ \A th \in Threads : RememberedAt(th) /\ EvictsOverAt(th)
  BY DEF TypeInv, SoloInv
<1>2. ASSUME NEW th \in Threads, UseStep(th) PROVE SoloInv'
  <2>1. PICK h \in Handles : h = frame[th].h
    BY <1>2, CallHandle
  <2>2. /\ \A o \in Threads \ {th} : pc'[o] = pc[o] /\ frame'[o] = frame[o]
        /\ \A g \in Handles : g # h => handle'[g] = handle[g]
    BY <1>2, <2>1, Locality
  <2>3. /\ UNCHANGED <<status, assoc, asked, memVars>>
        /\ pc'[th] \notin Opening /\ frame'[th].tx \in {frame[th].tx, NoTx}
        /\ frame'[th].seen \in {frame[th].seen, NoTx} \/ \E c \in Conns : frame'[th].seen = connectionMemory[c]
        /\ handle'[h].tx = handle[h].tx
        /\ handle'[h].state = "open" => handle'[h] = handle[h]
        /\ pc'[th] # "evictTx" /\ pc[th] \notin {"putConn", "enlist"}
    BY <1>2, <2>1, UseLeavesMemory
  <2>4. \A g \in Handles : handle'[g].tx = handle[g].tx /\ (handle'[g].state = "open" => handle'[g] = handle[g])
    BY <2>2, <2>3
  <2>5. Begun'
    BY <1>1, <2>2, <2>3, <2>4, NullsAssumption DEF Begun, memVars
  <2>6. Solo'
    BY <1>1, <2>2, <2>3 DEF Solo
  <2>7. RememberedIsAsked'
    BY <1>1, <2>2, <2>3 DEF RememberedIsAsked, memVars
  <2>8. OpenIsRemembered' /\ OpenIsAsked'
    BY <1>1, <2>3, <2>4 DEF OpenIsRemembered, OpenIsAsked, OpenIn, IsActive, memVars
  <2>9. \A o \in Threads : RememberedAt(o)' /\ EvictsOverAt(o)'
    BY <1>1, <2>2, <2>3 DEF RememberedAt, EvictsOverAt, IsActive, memVars, Opening, Searching, Registering
  <2>10. QED
    BY <2>5, <2>6, <2>7, <2>8, <2>9 DEF SoloInv
<1>3. ASSUME NEW th \in Threads, NEW h \in Handles, NEW auth \in BOOLEAN, GetConnection(th, h, auth)
      PROVE  SoloInv'
  <2> DEFINE t == IF IsActive(assoc[th]) THEN assoc[th] ELSE NoTx
  <2>1. /\ UNCHANGED <<status, assoc, asked, memVars>> /\ pc[th] = "idle" /\ handle[h].state = "unused"
        /\ pc' = [pc EXCEPT ![th] = IF t = NoTx THEN "borrow" ELSE "lookup"]
        /\ frame' = [frame EXCEPT ![th] = [Blank EXCEPT !.h = h, !.auth = auth, !.tx = t]]
        /\ handle' = [handle EXCEPT ![h] = [handle[h] EXCEPT !.state = "opening", !.owner = th]]
    BY <1>3 DEF GetConnection, At, Goto, SetFrame, SetHandle, tmVars
  <2>2. /\ pc'[th] = (IF t = NoTx THEN "borrow" ELSE "lookup")
        /\ frame'[th].tx = t /\ frame'[th].seen = NoTx
        /\ \A o \in Threads \ {th} : pc'[o] = pc[o] /\ frame'[o] = frame[o]
    <3>1. [Blank EXCEPT !.h = h, !.auth = auth, !.tx = t].tx = t
      BY DEF Blank
    <3>2. [Blank EXCEPT !.h = h, !.auth = auth, !.tx = t].seen = NoTx
      BY DEF Blank
    <3>3. /\ frame'[th] = [Blank EXCEPT !.h = h, !.auth = auth, !.tx = t]
          /\ pc'[th] = (IF t = NoTx THEN "borrow" ELSE "lookup")
          /\ \A o \in Threads \ {th} : pc'[o] = pc[o] /\ frame'[o] = frame[o]
      BY <1>1, <2>1 DEF TypeOK
    <3>4. QED
      BY <3>1, <3>2, <3>3
  <2>3. \A g \in Handles : handle'[g].tx = handle[g].tx /\ (handle'[g].state = "open" => handle'[g] = handle[g])
    BY <1>1, <2>1 DEF TypeOK, Handle
  <2>4. t # NoTx => t = assoc[th]
    OBVIOUS
  <2> HIDE DEF t
  <2>5. Begun'
    BY <1>1, <2>1, <2>2, <2>3, <2>4, NullsAssumption DEF Begun, memVars
  <2>6. Solo'
    BY <1>1, <2>1, <2>2, <2>4 DEF Solo
  <2>7. RememberedIsAsked'
    BY <1>1, <2>1, <2>2 DEF RememberedIsAsked, memVars
  <2>8. OpenIsRemembered' /\ OpenIsAsked'
    BY <1>1, <2>1, <2>3 DEF OpenIsRemembered, OpenIsAsked, OpenIn, IsActive, memVars
  <2>9. \A o \in Threads : RememberedAt(o)' /\ EvictsOverAt(o)'
    BY <1>1, <2>1, <2>2 DEF RememberedAt, EvictsOverAt, IsActive, memVars, Searching
  <2>10. QED
    BY <2>5, <2>6, <2>7, <2>8, <2>9 DEF SoloInv
<1>4. ASSUME NEW th \in Threads, NEW h \in Handles, Close(th, h) \/ Demarcate(th, h) PROVE SoloInv'
  <2>1. /\ UNCHANGED <<status, assoc, asked, memVars>> /\ pc[th] = "idle"
        /\ \/ pc' = pc /\ frame' = frame
           \/ /\ pc' \in {[pc EXCEPT ![th] = "closeLookup"], [pc EXCEPT ![th] = "demLookup"]}
              /\ frame' = [frame EXCEPT ![th] = [Blank EXCEPT !.h = h, !.conn = handle[h].conn]]
        /\ handle' = handle \/ handle' = [handle EXCEPT ![h] = [handle[h] EXCEPT !.state = "closed"]]
    BY <1>4 DEF Close, Demarcate, At, Goto, SetFrame, SetHandle, tmVars
  <2>2. /\ pc'[th] \in {"idle", "closeLookup", "demLookup"}
        /\ frame'[th].tx \in {frame[th].tx, NoTx} /\ frame'[th].seen \in {frame[th].seen, NoTx}
        /\ \A o \in Threads \ {th} : pc'[o] = pc[o] /\ frame'[o] = frame[o]
    <3>1. [Blank EXCEPT !.h = h, !.conn = handle[h].conn].tx = NoTx
      BY DEF Blank
    <3>2. [Blank EXCEPT !.h = h, !.conn = handle[h].conn].seen = NoTx
      BY DEF Blank
    <3>3. /\ frame'[th] \in {frame[th], [Blank EXCEPT !.h = h, !.conn = handle[h].conn]}
          /\ pc'[th] \in {"idle", "closeLookup", "demLookup"}
          /\ \A o \in Threads \ {th} : pc'[o] = pc[o] /\ frame'[o] = frame[o]
      BY <1>1, <2>1 DEF TypeOK
    <3>4. QED
      BY <3>1, <3>2, <3>3
  <2>3. \A g \in Handles : handle'[g].tx = handle[g].tx /\ (handle'[g].state = "open" => handle'[g] = handle[g])
    BY <1>1, <2>1 DEF TypeOK, Handle
  <2>4. Begun'
    BY <1>1, <2>1, <2>2, <2>3, NullsAssumption DEF Begun, memVars
  <2>5. Solo'
    BY <1>1, <2>1, <2>2 DEF Solo, Opening, Searching, Registering
  <2>6. RememberedIsAsked'
    BY <1>1, <2>1, <2>2 DEF RememberedIsAsked, memVars
  <2>7. OpenIsRemembered' /\ OpenIsAsked'
    BY <1>1, <2>1, <2>3 DEF OpenIsRemembered, OpenIsAsked, OpenIn, IsActive, memVars
  <2>8. \A o \in Threads : RememberedAt(o)' /\ EvictsOverAt(o)'
    BY <1>1, <2>1, <2>2 DEF RememberedAt, EvictsOverAt, IsActive, memVars, Searching
  <2>9. QED
    BY <2>4, <2>5, <2>6, <2>7, <2>8 DEF SoloInv
<1>5. ASSUME NEW th \in Threads, NEW t \in Txs, Begin(th, t) PROVE SoloInv'
  <2>1. /\ UNCHANGED <<asked, memVars, handle, pc, frame>> /\ pc[th] = "idle" /\ status[t] = "none"
        /\ status' = [status EXCEPT ![t] = "active"] /\ assoc' = [assoc EXCEPT ![th] = t]
    BY <1>5 DEF Begin, At
  <2>2. /\ transactionMemory[t] = NoConn /\ t # NoTx
        /\ \A g \in Handles : handle[g].tx # t
        /\ \A o \in Threads : assoc[o] # t /\ frame[o].tx # t /\ frame[o].seen # t
    BY <1>1, <2>1, NullsAssumption DEF Begun
  <2>3. /\ \A u \in Txs \ {t} : status'[u] = status[u] /\ IsActive(u)' = IsActive(u)
        /\ status'[t] = "active" /\ assoc'[th] = t
        /\ \A o \in Threads \ {th} : assoc'[o] = assoc[o]
    BY <1>1, <2>1 DEF TypeOK, IsActive
  <2>4. Begun'
    BY <1>1, <2>1, <2>2, <2>3 DEF Begun, memVars
  <2>5. Solo'
    BY <1>1, <2>1, <2>2, <2>3 DEF Solo, Opening, Searching, Registering
  <2>6. RememberedIsAsked'
    BY <1>1, <2>1, <2>2, <2>3 DEF RememberedIsAsked, memVars
  <2>7. OpenIsRemembered' /\ OpenIsAsked'
    BY <1>1, <2>1, <2>2, <2>3 DEF OpenIsRemembered, OpenIsAsked, OpenIn, memVars
  <2>8. ASSUME NEW o \in Threads PROVE RememberedAt(o)' /\ EvictsOverAt(o)'
    <3>1. RememberedAt(o) /\ EvictsOverAt(o) /\ frame[o].tx \in Txs \cup {NoTx} /\ frame[o].seen \in Txs \cup {NoTx}
      BY <1>1 DEF TypeOK, Frame
    <3>2. RememberedAt(o)'
      BY <2>1, <2>2, <2>3, <3>1 DEF RememberedAt, memVars
    <3>3. pc[o] = "evictTx" => frame[o].seen \in Txs
      BY DEF TypeInv, FrameOK, LocalOK
    <3>4. EvictsOverAt(o)'
      BY <2>1, <2>2, <2>3, <3>1, <3>3 DEF EvictsOverAt
    <3>5. QED
      BY <3>2, <3>4
  <2>9. QED
    BY <2>4, <2>5, <2>6, <2>7, <2>8 DEF SoloInv
<1>6. ASSUME NEW th \in Threads, NEW u \in Txs \cup {NoTx}, pc[th] \in {"idle", "completing"},
             assoc' = [assoc EXCEPT ![th] = u], status[u] # "none" \/ u = NoTx,
             u # NoTx => \A o \in Threads : assoc[o] # u,
             UNCHANGED <<status, asked, memVars, handle, frame>>,
             pc' \in {pc, [pc EXCEPT ![th] = "idle"]}
      PROVE  SoloInv'
  <2>1. /\ assoc'[th] = u /\ \A o \in Threads \ {th} : assoc'[o] = assoc[o]
        /\ pc'[th] \in {"idle", "completing"} /\ \A o \in Threads \ {th} : pc'[o] = pc[o]
    BY <1>1, <1>6 DEF TypeOK
  <2>2. Begun'
    BY <1>1, <1>6, <2>1, NullsAssumption DEF Begun, memVars
  <2>3. Solo'
    BY <1>1, <1>6, <2>1 DEF Solo, Opening, Searching, Registering
  <2>4. RememberedIsAsked' /\ OpenIsRemembered' /\ OpenIsAsked'
    BY <1>1, <1>6, <2>1 DEF RememberedIsAsked, OpenIsRemembered, OpenIsAsked, OpenIn, IsActive, memVars
  <2>5. \A o \in Threads : RememberedAt(o)' /\ EvictsOverAt(o)'
    BY <1>1, <1>6, <2>1 DEF RememberedAt, EvictsOverAt, IsActive, memVars, Searching
  <2>6. QED
    BY <2>2, <2>3, <2>4, <2>5 DEF SoloInv
<1>7. ASSUME NEW th \in Threads, Suspend(th) \/ Completed(th) PROVE SoloInv'
  BY <1>6, <1>7 DEF Suspend, Completed, At, Goto
<1>8. ASSUME NEW th \in Threads, NEW t \in Txs, Resume(th, t) PROVE SoloInv'
  BY <1>6, <1>8 DEF Resume, At, IsActive
<1>9. ASSUME NEW t \in Txs, NEW s \in {"marked", "completing", "done"}, status[t] # "none",
             status' = [status EXCEPT ![t] = s], s = "marked" => status[t] = "active",
             status[t] = "done" => s = "done", status[t] = "completing" => s \in {"completing", "done"},
             UNCHANGED <<assoc, asked, memVars, handle, frame>>,
             pc' = pc \/ \E th \in Threads : pc[th] = "idle" /\ pc' = [pc EXCEPT ![th] = "completing"]
      PROVE  SoloInv'
  <2>1. /\ \A u \in Txs : status'[u] = "active" => status[u] = "active"
        /\ \A u \in Txs : IsActive(u)' => IsActive(u)
        /\ \A u \in Txs : status'[u] = "none" => status[u] = "none"
        /\ \A u \in Txs : status[u] \in {"completing", "done"} => status'[u] \in {"completing", "done"}
    BY <1>1, <1>9 DEF TypeOK, IsActive
  <2>2. \A o \in Threads : pc'[o] = pc[o] \/ (pc[o] = "idle" /\ pc'[o] = "completing")
    BY <1>1, <1>9 DEF TypeOK
  <2>3. Begun'
    BY <1>1, <1>9, <2>1 DEF Begun, memVars
  <2>4. Solo'
    BY <1>1, <1>9, <2>2 DEF Solo, Opening, Searching, Registering
  <2>5. RememberedIsAsked'
    BY <1>1, <1>9, <2>1, <2>2 DEF RememberedIsAsked, memVars
  <2>6. OpenIsRemembered' /\ OpenIsAsked'
    BY <1>1, <1>9, <2>1 DEF OpenIsRemembered, OpenIsAsked, OpenIn, memVars
  <2>7. ASSUME NEW o \in Threads PROVE RememberedAt(o)' /\ EvictsOverAt(o)'
    <3>1. RememberedAt(o) /\ EvictsOverAt(o) /\ frame[o].tx \in Txs \cup {NoTx}
      BY <1>1 DEF TypeOK, Frame
    <3>2. RememberedAt(o)'
      BY <1>9, <2>1, <2>2, <3>1 DEF RememberedAt, memVars, Searching
    <3>3. pc[o] = "evictTx" => frame[o].seen \in Txs
      BY DEF TypeInv, FrameOK, LocalOK
    <3>4. EvictsOverAt(o)'
      BY <1>9, <2>1, <2>2, <3>1, <3>3 DEF EvictsOverAt
    <3>5. QED
      BY <3>2, <3>4
  <2>8. QED
    BY <2>3, <2>4, <2>5, <2>6, <2>7 DEF SoloInv
<1>10. ASSUME NEW th \in Threads, Complete(th) PROVE SoloInv'
  <2>1. assoc[th] \in Txs /\ status[assoc[th]] \in {"active", "marked"}
    BY <1>1, <1>10 DEF Complete, IsActive, TypeOK
  <2>2. QED
    BY <1>9, <1>10, <2>1 DEF Complete, At, Goto
<1>11. ASSUME NEW t \in Txs, MarkRollback(t) \/ TimeOut(t) \/ Resolve(t) PROVE SoloInv'
  BY <1>9, <1>11 DEF MarkRollback, TimeOut, Resolve, IsActive
<1>12. ASSUME UNCHANGED <<status, assoc, asked, handle, pc, frame>>,
              \A u \in Txs : status[u] # "done" => transactionMemory'[u] = transactionMemory[u],
              \A c \in Conns : connectionMemory'[c] \in {connectionMemory[c], NoTx}
       PROVE  SoloInv'
  <2>1. /\ \A u \in Txs : IsActive(u) => transactionMemory'[u] = transactionMemory[u]
        /\ \A u \in Txs : IsActive(u)' = IsActive(u)
        /\ \A u \in Txs : status[u] = "active" => IsActive(u)
    BY <1>12, NullsAssumption DEF IsActive
  <2>2. Begun'
    BY <1>1, <1>12, NullsAssumption DEF Begun
  <2>3. Solo'
    BY <1>1, <1>12 DEF Solo
  <2>4. RememberedIsAsked' /\ OpenIsRemembered' /\ OpenIsAsked'
    BY <1>1, <1>12, <2>1 DEF RememberedIsAsked, OpenIsRemembered, OpenIsAsked, OpenIn
  <2>5. ASSUME NEW o \in Threads PROVE RememberedAt(o)' /\ EvictsOverAt(o)'
    <3>1. RememberedAt(o) /\ EvictsOverAt(o) /\ frame[o].tx \in Txs \cup {NoTx}
      BY <1>1 DEF TypeOK, Frame
    <3>2. QED
      BY <1>12, <2>1, <3>1 DEF RememberedAt, EvictsOverAt
  <2>6. QED
    BY <2>2, <2>3, <2>4, <2>5 DEF SoloInv
<1>13. ASSUME NEW t \in Txs, ForgetConn(t) \/ (\E c \in Conns : RunTermination(t, c)) \/ (\E h \in Handles : RunClosing(t, h))
       PROVE SoloInv'
  <2>1. UNCHANGED <<status, assoc, asked, handle, pc, frame>>
    BY <1>13 DEF ForgetConn, RunTermination, RunClosing
  <2>2. \A u \in Txs : status[u] # "done" => transactionMemory'[u] = transactionMemory[u]
    BY <1>1, <1>13 DEF ForgetConn, RunTermination, RunClosing, memVars, TypeOK
  <2>3. \A c \in Conns : connectionMemory'[c] \in {connectionMemory[c], NoTx}
    BY <1>1, <1>13 DEF ForgetConn, RunTermination, RunClosing, memVars, TypeOK
  <2>4. QED
    BY <1>12, <2>1, <2>2, <2>3
<1>14. ASSUME NEW t \in Txs, CompletionStep(t) PROVE SoloInv'
  BY <1>11, <1>13, <1>14 DEF CompletionStep
<1>15. ASSUME NEW th \in Threads, ClientCall(th) PROVE SoloInv'
  BY <1>3, <1>4, <1>5, <1>7, <1>8, <1>10, <1>15, EnvironmentAssumption DEF ClientCall, OneOf
<1>16. QED
  BY <1>2, <1>7, <1>11, <1>14, <1>15

LEMMA InitSoloInv == Init => SoloInv
BY NullsAssumption DEF Init, SoloInv, Begun, Solo, RememberedIsAsked, OpenIsRemembered, OpenIsAsked,
   RememberedAt, EvictsOverAt, OpenIn, IsActive, NewHandle, Blank, Opening, Searching, Registering

LEMMA SoloStep == ASSUME TypeInv, LeakInv, SoloInv, ~SharedTx, [Next]_vars PROVE SoloInv'
<1>1. ASSUME NEW th \in Threads, OpenStep(th) PROVE SoloInv'
  BY <1>1, SoloOpen DEF LeakInv
<1>2. CASE \/ \E th \in Threads : ClientCall(th) \/ UseStep(th) \/ Completed(th)
          \/ \E t \in Txs : MarkRollback(t) \/ TimeOut(t) \/ CompletionStep(t)
  BY <1>2, SoloRest
<1>3. CASE UNCHANGED vars
  BY <1>3 DEF vars, tmVars, memVars, SoloInv, Begun, Solo, RememberedIsAsked, OpenIsRemembered,
     OpenIsAsked, RememberedAt, EvictsOverAt, OpenIn, IsActive
<1>4. QED
  BY <1>1, <1>2, <1>3 DEF Next

LEMMA SoloAlways == ASSUME ~SharedTx PROVE Spec => [](TypeInv /\ LeakInv /\ SoloInv)
<1>1. Init => TypeInv /\ LeakInv /\ SoloInv
  BY InitTypeInv, InitLeakInv, InitSoloInv
<1>2. TypeInv /\ LeakInv /\ SoloInv /\ [Next]_vars => TypeInv' /\ LeakInv' /\ SoloInv'
  <2>1. ASSUME TypeInv, LeakInv, SoloInv, [Next]_vars PROVE TypeInv' /\ LeakInv'
    BY <2>1, ShapeStep, LeakStep
  <2>2. ASSUME TypeInv, LeakInv, SoloInv, [Next]_vars PROVE SoloInv'
    BY <2>2, SoloStep
  <2>3. QED
    BY <2>1, <2>2
<1>3. QED
  BY <1>1, <1>2, PTL DEF Spec

\* Only a step of getConnection can disturb that, ...
LEMMA AskedOpen ==
  ASSUME TypeInv, SoloInv, AskedInv, NEW th \in Threads, OpenStep(th)
  PROVE  AskedInv'
<1>1. /\ status' = status
      /\ \A u \in Txs : status[u] = "active" /\ transactionMemory'[u] # transactionMemory[u]
           => transactionMemory[u] = NoConn
  BY MemoryEffect, NullsAssumption DEF IsActive
<1>2. /\ asked \in [Txs -> SUBSET Conns] /\ enlisted \in [Txs -> SUBSET Conns]
      /\ transactionMemory \in [Txs -> Conns \cup {NoConn}]
      /\ LocalOK(th) /\ RememberedAt(th)
  BY DEF TypeInv, TypeOK, FrameOK, SoloInv
<1>3. CASE Enlist(th)
  <2> DEFINE t == frame[th].tx
             c == frame[th].conn
  <2>1. t \in Txs /\ c \in Conns /\ transactionMemory' = transactionMemory
        /\ asked' = [asked EXCEPT ![t] = IF status[t] = "active" THEN @ \cup {c} ELSE @]
        /\ \/ enlisted' = enlisted
           \/ status[t] = "active" /\ enlisted' = [enlisted EXCEPT ![t] = @ \cup {c}]
    BY <1>2, <1>3 DEF Enlist, LocalOK, At, Registering, memVars
  <2>2. status[t] = "active" => transactionMemory[t] = c
    BY <1>2, <1>3, <2>1, NullsAssumption DEF Enlist, RememberedAt, IsActive, At
  <2>3. ASSUME NEW u \in Txs
        PROVE  /\ enlisted'[u] \subseteq asked'[u]
               /\ status[u] = "none" => asked'[u] = {}
               /\ status[u] = "active" => asked'[u] \subseteq {transactionMemory[u]}
    BY <1>2, <2>1, <2>2 DEF AskedInv
  <2>4. QED
    BY <1>1, <2>1, <2>3 DEF AskedInv
<1>4. CASE ~Enlist(th)
  <2>1. asked' = asked /\ enlisted' = enlisted
    BY <1>4 DEF OpenStep, Advance, SwapRaises, Lookup, Enter, Borrow, Probe, Inspect, Judge, EvictTx,
       EvictConn, Swap, Release, Found, Recheck, PutTx, PutConn, Hook, Wrap, tmVars
  <2>2. QED
    BY <1>1, <1>2, <2>1, NullsAssumption DEF AskedInv
<1>5. QED
  BY <1>3, <1>4

\* ... and it does not.
LEMMA AskedStep == ASSUME TypeInv, SoloInv, AskedInv, [Next]_vars PROVE AskedInv'
<1> USE DEF AskedInv
<1>1. /\ status \in [Txs -> Statuses] /\ asked \in [Txs -> SUBSET Conns]
      /\ transactionMemory \in [Txs -> Conns \cup {NoConn}]
  BY DEF TypeInv, TypeOK
<1>2. ASSUME NEW th \in Threads, OpenStep(th) PROVE AskedInv'
  BY <1>2, AskedOpen
<1>3. ASSUME UNCHANGED <<asked, enlisted>>,
             \A t \in Txs : status'[t] = "none" => status[t] = "none",
             \A t \in Txs : status'[t] = "active" => status[t] = "none" \/
               (status[t] = "active" /\ transactionMemory'[t] = transactionMemory[t])
      PROVE  AskedInv'
  BY <1>3
<1>4. ASSUME NEW th \in Threads, UseStep(th) PROVE AskedInv'
  <2>1. UNCHANGED <<status, asked, enlisted, memVars>>
    BY <1>4 DEF UseStep, CloseLookup, CloseCheck, CloseContext, CloseDefer, DemLookup, DemCheck,
       DemDelegate, tmVars, memVars
  <2>2. QED
    BY <1>3, <2>1 DEF memVars
<1>5. ASSUME NEW th \in Threads, Completed(th) \/ ClientCall(th) PROVE AskedInv'
  <2>1. UNCHANGED <<asked, enlisted, memVars>>
    <3>1. ASSUME NEW h, NEW auth, GetConnection(th, h, auth) \/ Close(th, h) \/ Demarcate(th, h)
          PROVE  UNCHANGED <<asked, enlisted, memVars>>
      BY <3>1 DEF GetConnection, Close, Demarcate, tmVars
    <3>2. ASSUME NEW t, Begin(th, t) \/ Resume(th, t) PROVE UNCHANGED <<asked, enlisted, memVars>>
      BY <3>2 DEF Begin, Resume
    <3>3. Suspend(th) \/ Complete(th) \/ Completed(th) => UNCHANGED <<asked, enlisted, memVars>>
      BY DEF Suspend, Complete, Completed
    <3>4. QED
      BY <1>5, <3>1, <3>2, <3>3 DEF ClientCall
  <2>2. /\ \A t \in Txs : status'[t] = "none" => status[t] = "none"
        /\ \A t \in Txs : status'[t] = "active" => status[t] \in {"none", "active"}
    BY <1>1, <1>5 DEF Completed, ClientCall, GetConnection, Close, Demarcate, Begin, Resume, Suspend,
       Complete, tmVars, OneOf, IsActive
  <2>3. QED
    BY <1>3, <2>1, <2>2 DEF memVars
<1>6. ASSUME NEW t \in Txs, MarkRollback(t) \/ TimeOut(t) \/ CompletionStep(t) PROVE AskedInv'
  <2>1. /\ UNCHANGED <<asked, enlisted>>
        /\ \A u \in Txs : status'[u] = "none" => status[u] = "none"
        /\ \A u \in Txs : status'[u] = "active" => status[u] = "active"
    BY <1>1, <1>6 DEF MarkRollback, TimeOut, CompletionStep, Resolve, ForgetConn, RunTermination, RunClosing
  <2>2. \A u \in Txs : status[u] = "active" => transactionMemory'[u] = transactionMemory[u]
    BY <1>1, <1>6 DEF MarkRollback, TimeOut, CompletionStep, Resolve, ForgetConn, RunTermination, RunClosing,
       memVars
  <2>3. QED
    BY <1>3, <2>1, <2>2
<1>7. CASE UNCHANGED vars
  BY <1>3, <1>7 DEF vars, tmVars, memVars
<1>8. QED
  BY <1>2, <1>4, <1>5, <1>6, <1>7 DEF Next

LEMMA AskedAlways == ASSUME ~SharedTx PROVE Spec => [](SoloInv /\ AskedInv)
<1>1. Init => AskedInv
  BY DEF Init, AskedInv
<1>2. TypeInv /\ SoloInv /\ AskedInv /\ [Next]_vars => AskedInv'
  BY AskedStep
<1>3. QED
  BY <1>1, <1>2, SoloAlways, PTL DEF Spec

\* As long as a transaction is used by one thread at a time, all the wrappers its
\* getConnection calls returned are of the same connection, whether the manager
\* times transactions out, recycled handles carry stale registrations, or
\* callbacks run in any order.
THEOREM SameConnectionHolds == ASSUME ~SharedTx PROVE Spec => []SameConnection
<1>1. SoloInv => SameConnection
  BY DEF SoloInv, OpenIsRemembered, SameConnection
<1>2. QED
  BY <1>1, SoloAlways, PTL

\* Under the same condition, registerConnection has asked the transaction to enlist
\* that connection before any wrapper of it is returned, and if the transaction has
\* enlisted any connection at all it is that one: work outside an active transaction
\* comes from an enlistment that failed, never from the order of the calls.
THEOREM EnlistedUseHolds == ASSUME ~SharedTx PROVE Spec => []EnlistedUse
<1>1. ASSUME SoloInv, AskedInv PROVE EnlistedUse
  <2>1. ASSUME NEW h \in Handles, NEW t \in Txs, OpenIn(h, t), status[t] = "active"
        PROVE  handle[h].conn \in asked[t] /\ handle[h].conn = transactionMemory[t]
    BY <1>1, <2>1, NullsAssumption DEF SoloInv, OpenIsAsked, OpenIsRemembered, IsActive, OpenIn
  <2>2. QED
    BY <1>1, <2>1 DEF EnlistedUse, AskedInv
<1>2. QED
  BY <1>1, AskedAlways, PTL

\* And it stays the transaction's connection while the transaction is active.
THEOREM KeepsConnectionHolds == ASSUME ~SharedTx PROVE Spec => KeepsConnection
<1> DEFINE Kept == \A t \in Txs : IsActive(t) /\ transactionMemory[t] # NoConn
                     => transactionMemory'[t] = transactionMemory[t]
<1>1. ASSUME TypeInv, SoloInv, [Next]_vars PROVE Kept
  <2>1. ASSUME NEW th \in Threads, OpenStep(th) PROVE Kept
    BY <1>1, <2>1, MemoryEffect
  <2>2. ASSUME NEW th \in Threads, UseStep(th) PROVE Kept
    <3>1. frame[th].h \in Handles
      BY <1>1, <2>2, CallHandle
    <3>2. QED
      BY <1>1, <2>2, <3>1, UseLeavesMemory DEF memVars
  <2>3. ASSUME NEW th \in Threads, ClientCall(th) \/ Completed(th) PROVE Kept
    <3>1. ASSUME NEW h, NEW auth, GetConnection(th, h, auth) \/ Close(th, h) \/ Demarcate(th, h)
          PROVE  UNCHANGED memVars
      BY <3>1 DEF GetConnection, Close, Demarcate
    <3>2. ASSUME NEW t, Begin(th, t) \/ Resume(th, t) PROVE UNCHANGED memVars
      BY <3>2 DEF Begin, Resume
    <3>3. Suspend(th) \/ Complete(th) \/ Completed(th) => UNCHANGED memVars
      BY DEF Suspend, Complete, Completed
    <3>4. UNCHANGED memVars
      BY <2>3, <3>1, <3>2, <3>3 DEF ClientCall
    <3>5. QED
      BY <3>4 DEF memVars
  <2>4. ASSUME NEW t \in Txs, MarkRollback(t) \/ TimeOut(t) \/ CompletionStep(t) PROVE Kept
    BY <1>1, <2>4 DEF TypeInv, TypeOK, IsActive, MarkRollback, TimeOut, CompletionStep, Resolve, ForgetConn,
         RunTermination, RunClosing, memVars
  <2>5. CASE UNCHANGED vars
    BY <2>5 DEF vars, memVars
  <2>6. QED
    BY <1>1, <2>1, <2>2, <2>3, <2>4, <2>5 DEF Next
<1>2. TypeInv /\ SoloInv /\ [Next]_vars => [Kept]_vars
  BY <1>1
<1>3. QED
  BY <1>2, SoloAlways, PTL DEF Spec, KeepsConnection

=============================================================================
