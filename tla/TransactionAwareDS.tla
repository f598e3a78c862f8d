------------------------- MODULE TransactionAwareDS -------------------------
(***************************************************************************)
(* The transaction-aware data source of dynamy.services: a BoneCP pool     *)
(* that hands out, to a thread with a JTA transaction, a wrapper of the    *)
(* connection that transaction uses, and that gives connections back when  *)
(* the transaction completes.                                              *)
(*                                                                         *)
(* Two maps tie the pool to the transaction manager: transactionMemory     *)
(* (transaction -> connection) and connectionMemory (connection ->         *)
(* transaction).  They are concurrent maps, so every get, put, containsKey *)
(* and remove is one atomic step of the calling thread and everything      *)
(* between two of them may interleave.                                     *)
(*                                                                         *)
(* A getConnection call and the connection it yields share one identity, a *)
(* member of Handles; Handles bounds the number of calls.  The pool and    *)
(* the transaction manager are external and are modelled from the way      *)
(* this code uses them.                                                    *)
(***************************************************************************)
EXTENDS Naturals, FiniteSets

CONSTANTS
  Threads,       \* application threads
  Txs,           \* JTA transactions
  Conns,         \* ConnectionHandle objects of the pool
  Handles,       \* getConnection calls; with each, the connection it returns
  NoTx, NoConn, NoThread, NoHandle,   \* the nulls
  Capacity,      \* how many connections the pool lends at a time
  Variants,      \* which getConnection: TRUE the authenticated one, FALSE the other
  SharedTx,      \* may a transaction be associated with several threads?
  InOrder,       \* does the manager call synchronizations back as registered?
  Recycles,      \* does the pool lend a returned ConnectionHandle object again?
  AsyncTimeout   \* may the manager roll back in a thread of its own?

ASSUME NullsAssumption ==
  NoTx \notin Txs /\ NoConn \notin Conns /\ NoThread \notin Threads /\ NoHandle \notin Handles

ASSUME EnvironmentAssumption ==
  /\ Capacity \in Nat \ {0}
  /\ Variants \subseteq BOOLEAN
  /\ {SharedTx, InOrder, Recycles, AsyncTimeout} \subseteq BOOLEAN
  /\ InOrder => ~SharedTx /\ ~Recycles

VARIABLES
  status,            \* transaction -> its JTA status
  assoc,             \* thread -> the transaction associated with it
  asked,             \* transaction -> connections it was to enlist while active
  enlisted,          \* transaction -> those of them whose XAResource it did enlist
  terminations,      \* transaction -> connections to forget after completion
  closings,          \* transaction -> wrappers to close after completion
  forgetting,        \* transaction -> connection whose terminate is half done
  lent,              \* connections the pool has handed out
  unused,            \* ConnectionHandle objects never handed out
  transactionMemory, \* transaction -> its connection
  connectionMemory,  \* connection -> its transaction
  monitor,           \* transaction -> thread inside transaction.synchronized
  handle,            \* what became of each getConnection call
  pc,                \* thread -> where it is in the code
  frame              \* thread -> the local variables of the call it is in

tmVars   == <<status, assoc, asked, enlisted, terminations, closings, forgetting>>
poolVars == <<lent, unused>>
memVars  == <<transactionMemory, connectionMemory>>
vars == <<tmVars, poolVars, memVars, monitor, handle, pc, frame>>

Statuses == {"none", "active", "marked", "completing", "done"}

HandleStates == {"unused", "opening", "open", "closed", "failed"}

\* A thread in getConnection, by the statement it executes next.
Searching   == {"borrow", "probe", "inspect", "judge", "evictTx", "evictConn",
                "swap", "release", "found"}
Registering == {"putTx", "putConn", "enlist", "hook"}
Opening     == {"lookup", "enter", "recheck", "wrap"} \cup Searching \cup Registering
Closing     == {"closeLookup", "closeCheck", "closeContext", "closeDefer"}
Demarcating == {"demLookup", "demCheck", "demDelegate"}
Labels      == {"idle", "completing"} \cup Opening \cup Closing \cup Demarcating

Handle == [state : HandleStates, owner : Threads \cup {NoThread},
           conn : Conns \cup {NoConn}, tx : Txs \cup {NoTx}, closed : BOOLEAN]

\* auth tells getConnection(username, password) from getConnection(); conn and
\* next are conn1 and conn of findFreeConnection; seen is the transaction that
\* connectionMemory gave for a connection.
Frame == [h : Handles \cup {NoHandle}, auth : BOOLEAN, tx : Txs \cup {NoTx},
          conn : Conns \cup {NoConn}, next : Conns \cup {NoConn}, seen : Txs \cup {NoTx}]

NewHandle == [state |-> "unused", owner |-> NoThread, conn |-> NoConn, tx |-> NoTx,
              closed |-> FALSE]
Blank == [h |-> NoHandle, auth |-> FALSE, tx |-> NoTx, conn |-> NoConn,
          next |-> NoConn, seen |-> NoTx]

Init ==
  /\ status = [t \in Txs |-> "none"]
  /\ assoc = [th \in Threads |-> NoTx]
  /\ asked = [t \in Txs |-> {}]
  /\ enlisted = [t \in Txs |-> {}]
  /\ terminations = [t \in Txs |-> {}]
  /\ closings = [t \in Txs |-> {}]
  /\ forgetting = [t \in Txs |-> NoConn]
  /\ lent = {}
  /\ unused = Conns
  /\ transactionMemory = [t \in Txs |-> NoConn]
  /\ connectionMemory = [c \in Conns |-> NoTx]
  /\ monitor = [t \in Txs |-> NoThread]
  /\ handle = [h \in Handles |-> NewHandle]
  /\ pc = [th \in Threads |-> "idle"]
  /\ frame = [th \in Threads |-> Blank]

-----------------------------------------------------------------------------
(* Helpers *)

\* isTransactionActive, for a transaction or for null.
IsActive(t) == t # NoTx /\ status[t] \in {"active", "marked"}

Goto(th, label) == pc' = [pc EXCEPT ![th] = label]

At(th, label) == pc[th] = label

\* The local variables of th, or what is known of h, become r.
SetFrame(th, r) == frame' = [frame EXCEPT ![th] = r]
SetHandle(h, r) == handle' = [handle EXCEPT ![h] = r]

\* The thread leaves the call it is in.
Leave(th) ==
  /\ Goto(th, "idle")
  /\ SetFrame(th, Blank)

\* The thread leaves every transaction.synchronized block it is in.
LeaveMonitor(th) ==
  monitor' = [t \in Txs |-> IF monitor[t] = th THEN NoThread ELSE monitor[t]]

\* Any one member stands for all: the members are interchangeable.
OneOf(S) == IF S = {} THEN {} ELSE {CHOOSE x \in S : TRUE}

\* What the pool may lend now.  Objects never lent differ in nothing.
Lendable == IF Recycles THEN Conns \ lent ELSE OneOf(unused)

\* BoneCPDataSource.getConnection waits while the pool is exhausted.
Lend(c) ==
  /\ Cardinality(lent) < Capacity
  /\ c \in Lendable
  /\ lent' = lent \cup {c}
  /\ unused' = unused \ {c}

\* ConnectionHandle.close: only the first close since the lending counts.
Return(c) == lent' = lent \ {c} /\ UNCHANGED unused

\* An exception ends the call on h with connection c in hand.
Raise(th, c) ==
  /\ SetHandle(frame[th].h, [handle[frame[th].h] EXCEPT !.state = "failed", !.conn = c])
  /\ LeaveMonitor(th)
  /\ Leave(th)

\* The call returns connection c for transaction t, wrapped unless t is null.
Deliver(th, c, t) ==
  /\ SetHandle(frame[th].h, [handle[frame[th].h] EXCEPT !.state = "open", !.conn = c, !.tx = t])
  /\ Leave(th)

-----------------------------------------------------------------------------
(* Faulty variants of the actions below: each is a mistake that could have     *)
(* been made in the statement it stands for, and each breaks a property.       *)

\* The context already registered is never used.
LookupAlwaysMisses(th) ==
  /\ At(th, "lookup")
  /\ Goto(th, IF frame[th].auth THEN "enter" ELSE "borrow")
  /\ UNCHANGED <<tmVars, poolVars, memVars, monitor, handle, frame>>

\* The test of isFreeConnection is inverted.
JudgeInverted(th) ==
  /\ At(th, "judge")
  /\ Goto(th, IF IsActive(frame[th].seen) THEN "evictTx" ELSE "swap")
  /\ UNCHANGED <<tmVars, poolVars, memVars, monitor, handle, frame>>

\* The containsKey inside the monitor is dropped.
RecheckNothing(th) ==
  /\ At(th, "recheck")
  /\ Goto(th, "putTx")
  /\ UNCHANGED <<tmVars, poolVars, memVars, monitor, handle, frame>>

\* The interchange of conn1 and conn is dropped.
ReleaseNoInterchange(th) ==
  /\ At(th, "release")
  /\ Return(frame[th].conn)
  /\ SetFrame(th, [frame[th] EXCEPT !.next = NoConn, !.seen = NoTx])
  /\ Goto(th, "probe")
  /\ UNCHANGED <<tmVars, memVars, monitor, handle>>

\* The Synchronization is never registered.
HookNothing(th) ==
  /\ At(th, "hook")
  /\ Goto(th, "wrap")
  /\ UNCHANGED <<tmVars, poolVars, memVars, monitor, handle, frame>>

\* The plain connection is closed whether the transaction is active or not.
CloseCheckNothing(th) ==
  /\ At(th, "closeCheck")
  /\ Return(frame[th].conn)
  /\ SetHandle(frame[th].h, [handle[frame[th].h] EXCEPT !.state = "closed"])
  /\ Leave(th)
  /\ UNCHANGED <<tmVars, memVars, monitor>>


\* afterCompletion of a wrapper's close does not close the plain connection.
RunClosingNothing(t, h) ==
  /\ status[t] = "done" /\ forgetting[t] = NoConn /\ h \in closings[t]
  /\ InOrder => terminations[t] = {}
  /\ closings' = [closings EXCEPT ![t] = @ \ {h}]
  /\ UNCHANGED <<status, assoc, asked, enlisted, terminations, forgetting, poolVars, memVars,
                 monitor, handle, pc, frame>>

-----------------------------------------------------------------------------
(* getConnection *)

\* A thread calls getConnection; currentTransaction reads the thread's
\* transaction and drops it when it is not active.
GetConnection(th, h, auth) ==
  LET t == IF IsActive(assoc[th]) THEN assoc[th] ELSE NoTx IN
  /\ At(th, "idle") /\ handle[h].state = "unused"
  /\ SetFrame(th, [Blank EXCEPT !.h = h, !.auth = auth, !.tx = t])
  /\ SetHandle(h, [handle[h] EXCEPT !.state = "opening", !.owner = th])
  /\ Goto(th, IF t = NoTx THEN "borrow" ELSE "lookup")
  /\ UNCHANGED <<tmVars, poolVars, memVars, monitor>>

\* transactionMemory.get(transaction): a context found is used at once; without
\* one the authenticated variant enters the monitor before it borrows.
Lookup(th) ==
  LET c == transactionMemory[frame[th].tx] IN
  /\ At(th, "lookup")
  /\ IF c # NoConn
     THEN Deliver(th, c, frame[th].tx)
     ELSE /\ Goto(th, IF frame[th].auth THEN "enter" ELSE "borrow")
          /\ UNCHANGED <<handle, frame>>
  /\ UNCHANGED <<tmVars, poolVars, memVars, monitor>>

\* transaction.synchronized: around the whole search in the authenticated
\* variant, after it in the other.
Enter(th) ==
  LET t == frame[th].tx IN
  /\ At(th, "enter") /\ monitor[t] = NoThread
  /\ monitor' = [monitor EXCEPT ![t] = th]
  /\ Goto(th, IF frame[th].auth THEN "borrow" ELSE "recheck")
  /\ UNCHANGED <<tmVars, poolVars, memVars, handle, frame>>

\* super.getConnection(), the first connection of findFreeConnection.
Borrow(th) ==
  /\ At(th, "borrow")
  /\ \E c \in Conns : Lend(c) /\ SetFrame(th, [frame[th] EXCEPT !.conn = c])
  /\ Goto(th, "probe")
  /\ UNCHANGED <<tmVars, memVars, monitor, handle>>

\* isFreeConnection: connectionMemory.containsKey(c).
Probe(th) ==
  /\ At(th, "probe")
  /\ Goto(th, IF connectionMemory[frame[th].conn] = NoTx THEN "found" ELSE "inspect")
  /\ UNCHANGED <<tmVars, poolVars, memVars, monitor, handle, frame>>

\* connectionMemory.get(c).transaction: null when the entry has gone meanwhile.
Inspect(th) ==
  LET t == connectionMemory[frame[th].conn] IN
  /\ At(th, "inspect")
  /\ IF t = NoTx
     THEN Raise(th, frame[th].conn)
     ELSE /\ SetFrame(th, [frame[th] EXCEPT !.seen = t])
          /\ Goto(th, "judge")
          /\ UNCHANGED <<handle, monitor>>
  /\ UNCHANGED <<tmVars, poolVars, memVars>>

\* isTransactionActive of the transaction found: swap the connection or evict
\* the entry.
Judge(th) ==
  /\ At(th, "judge")
  /\ Goto(th, IF IsActive(frame[th].seen) THEN "swap" ELSE "evictTx")
  /\ UNCHANGED <<tmVars, poolVars, memVars, monitor, handle, frame>>

\* terminateTransaction, first half: transactionMemory.remove(t).
EvictTx(th) ==
  /\ At(th, "evictTx")
  /\ transactionMemory' = [transactionMemory EXCEPT ![frame[th].seen] = NoConn]
  /\ Goto(th, "evictConn")
  /\ UNCHANGED <<tmVars, poolVars, connectionMemory, monitor, handle, frame>>

\* terminateTransaction, second half: connectionMemory.remove(c).
EvictConn(th) ==
  /\ At(th, "evictConn")
  /\ connectionMemory' = [connectionMemory EXCEPT ![frame[th].conn] = NoTx]
  /\ Goto(th, "found")
  /\ UNCHANGED <<tmVars, poolVars, transactionMemory, monitor, handle, frame>>

\* The next connection is taken before the last one is released.
Swap(th) ==
  /\ At(th, "swap")
  /\ \E c \in Conns : Lend(c) /\ SetFrame(th, [frame[th] EXCEPT !.next = c])
  /\ Goto(th, "release")
  /\ UNCHANGED <<tmVars, memVars, monitor, handle>>

\* conn1.close(); conn1 = conn.
Release(th) ==
  /\ At(th, "release")
  /\ Return(frame[th].conn)
  /\ SetFrame(th, [frame[th] EXCEPT !.conn = frame[th].next, !.next = NoConn, !.seen = NoTx])
  /\ Goto(th, "probe")
  /\ UNCHANGED <<tmVars, memVars, monitor, handle>>

\* findFreeConnection returns: to the caller when there is no transaction.
Found(th) ==
  /\ At(th, "found")
  /\ \/ /\ frame[th].tx = NoTx
        /\ Deliver(th, frame[th].conn, NoTx)
     \/ /\ frame[th].tx # NoTx
        /\ Goto(th, IF frame[th].auth THEN "putTx" ELSE "enter")
        /\ UNCHANGED <<handle, frame>>
  /\ UNCHANGED <<tmVars, poolVars, memVars, monitor>>

\* transactionMemory.containsKey(transaction), inside the monitor.
Recheck(th) ==
  /\ At(th, "recheck")
  /\ Goto(th, IF transactionMemory[frame[th].tx] = NoConn THEN "putTx" ELSE "wrap")
  /\ UNCHANGED <<tmVars, poolVars, memVars, monitor, handle, frame>>

\* registerConnection: the two puts, ...
PutTx(th) ==
  /\ At(th, "putTx")
  /\ transactionMemory' = [transactionMemory EXCEPT ![frame[th].tx] = frame[th].conn]
  /\ Goto(th, "putConn")
  /\ UNCHANGED <<tmVars, poolVars, connectionMemory, monitor, handle, frame>>

PutConn(th) ==
  /\ At(th, "putConn")
  /\ connectionMemory' = [connectionMemory EXCEPT ![frame[th].conn] = frame[th].tx]
  /\ Goto(th, "enlist")
  /\ UNCHANGED <<tmVars, poolVars, transactionMemory, monitor, handle, frame>>

\* ... the enlistment, whose answer is ignored: in an active transaction the
\* resource joins it, or enlistResource answers false; in any transaction the
\* match, getXAResource or enlistResource may raise, with the puts left as they
\* are, ...
Enlist(th) ==
  LET t == frame[th].tx
      c == frame[th].conn
  IN
  /\ At(th, "enlist")
  /\ asked' = [asked EXCEPT ![t] = IF status[t] = "active" THEN @ \cup {c} ELSE @]
  /\ \/ /\ status[t] = "active"
        /\ enlisted' \in {enlisted, [enlisted EXCEPT ![t] = @ \cup {c}]}
        /\ Goto(th, "hook")
        /\ UNCHANGED <<handle, frame, monitor>>
     \/ Raise(th, c) /\ UNCHANGED enlisted
  /\ UNCHANGED <<status, assoc, terminations, closings, forgetting, poolVars, memVars>>

\* ... and registerSynchronization, which may raise likewise.
Hook(th) ==
  LET t == frame[th].tx IN
  /\ At(th, "hook")
  /\ \/ /\ status[t] = "active"
        /\ terminations' = [terminations EXCEPT ![t] = @ \cup {frame[th].conn}]
        /\ Goto(th, "wrap")
        /\ UNCHANGED <<handle, frame, monitor>>
     \/ Raise(th, frame[th].conn) /\ UNCHANGED terminations
  /\ UNCHANGED <<status, assoc, asked, enlisted, closings, forgetting, poolVars, memVars>>

\* new TransactionConnectionWrapper(conn, ...), and out of the monitor.
Wrap(th) ==
  /\ At(th, "wrap")
  /\ Deliver(th, frame[th].conn, frame[th].tx)
  /\ LeaveMonitor(th)
  /\ UNCHANGED <<tmVars, poolVars, memVars>>

\* super.getConnection raises in the loop: the call ends with conn1 in hand.  (Where
\* the first one raises, the call has changed nothing: it is as if not made.)
SwapRaises(th) ==
  /\ At(th, "swap")
  /\ Raise(th, frame[th].conn)
  /\ UNCHANGED <<tmVars, poolVars, memVars>>

Advance(th) ==
  \/ Lookup(th) \/ Enter(th) \/ Borrow(th) \/ Probe(th) \/ Inspect(th) \/ Judge(th)
  \/ EvictTx(th) \/ EvictConn(th) \/ Swap(th) \/ Release(th) \/ Found(th)
  \/ Recheck(th) \/ PutTx(th) \/ PutConn(th) \/ Enlist(th) \/ Hook(th) \/ Wrap(th)

OpenStep(th) == Advance(th) \/ SwapRaises(th)

-----------------------------------------------------------------------------
(* Using the connection: TransactionConnectionWrapper *)

\* Who uses h: the thread that opened it, in the transaction it was opened in or
\* once that transaction is over; in a shared transaction, any of its threads.
CanUse(th, h) ==
  LET t == handle[h].tx IN
  \/ /\ handle[h].owner = th
     /\ t = NoTx \/ assoc[th] = t \/ (t # NoTx /\ status[t] = "done")
  \/ SharedTx /\ t # NoTx /\ assoc[th] = t

\* A client calls close: a connection obtained outside a transaction is closed
\* directly, a wrapper asks isInTransaction first.  A wrapper may be closed twice.
Close(th, h) ==
  /\ At(th, "idle") /\ CanUse(th, h)
  /\ \/ /\ handle[h].tx = NoTx /\ handle[h].state = "open"
        /\ Return(handle[h].conn)
        /\ SetHandle(h, [handle[h] EXCEPT !.state = "closed"])
        /\ UNCHANGED <<pc, frame>>
     \/ /\ handle[h].tx # NoTx /\ handle[h].state \in {"open", "closed"}
        /\ Goto(th, "closeLookup")
        /\ SetFrame(th, [Blank EXCEPT !.h = h, !.conn = handle[h].conn])
        /\ UNCHANGED <<poolVars, handle>>
  /\ UNCHANGED <<tmVars, memVars, monitor>>

\* isInTransaction: connectionMemory(plainConn) raises when the key is absent.
CloseLookup(th) ==
  LET t == connectionMemory[frame[th].conn] IN
  /\ At(th, "closeLookup")
  /\ IF t = NoTx
     THEN Raise(th, frame[th].conn)
     ELSE /\ SetFrame(th, [frame[th] EXCEPT !.seen = t])
          /\ Goto(th, "closeCheck")
          /\ UNCHANGED <<handle, monitor>>
  /\ UNCHANGED <<tmVars, poolVars, memVars>>

\* Not in an active transaction: the plain connection is closed at once.
CloseCheck(th) ==
  LET h == frame[th].h IN
  /\ At(th, "closeCheck")
  /\ \/ /\ IsActive(frame[th].seen)
        /\ Goto(th, "closeContext")
        /\ UNCHANGED <<poolVars, handle, frame>>
     \/ /\ ~IsActive(frame[th].seen)
        /\ Return(frame[th].conn)
        /\ SetHandle(h, [handle[h] EXCEPT !.state = "closed"])
        /\ Leave(th)
  /\ UNCHANGED <<tmVars, memVars, monitor>>

\* The context is read again; a null one is a MatchError, which close does not
\* catch.
CloseContext(th) ==
  LET t == connectionMemory[frame[th].conn] IN
  /\ At(th, "closeContext")
  /\ IF t = NoTx
     THEN Raise(th, frame[th].conn)
     ELSE /\ SetFrame(th, [frame[th] EXCEPT !.seen = t])
          /\ Goto(th, "closeDefer")
          /\ UNCHANGED <<handle, monitor>>
  /\ UNCHANGED <<tmVars, poolVars, memVars>>

\* closed.compareAndSet, then registerSynchronization: the first close is put off
\* to the end of the transaction, a later one does nothing.  The registration
\* raises when the transaction is not active, and may raise when it is; the
\* wrapper stays flagged all the same.
CloseDefer(th) ==
  LET h == frame[th].h
      t == frame[th].seen
  IN
  /\ At(th, "closeDefer")
  /\ \/ /\ handle[h].closed
        /\ Leave(th)
        /\ UNCHANGED <<closings, handle, monitor>>
     \/ /\ ~handle[h].closed /\ status[t] = "active"
        /\ closings' = [closings EXCEPT ![t] = @ \cup {h}]
        /\ SetHandle(h, [handle[h] EXCEPT !.closed = TRUE, !.state = "closed"])
        /\ Leave(th)
        /\ UNCHANGED monitor
     \/ /\ ~handle[h].closed
        /\ SetHandle(h, [handle[h] EXCEPT !.closed = TRUE, !.state = "failed"])
        /\ Leave(th)
        /\ UNCHANGED <<closings, monitor>>
  /\ UNCHANGED <<status, assoc, asked, enlisted, terminations, forgetting, poolVars, memVars>>

\* A client calls commit, rollback, setAutoCommit or setReadOnly on a wrapper.
Demarcate(th, h) ==
  /\ At(th, "idle") /\ CanUse(th, h)
  /\ handle[h].tx # NoTx /\ handle[h].state = "open"
  /\ SetFrame(th, [Blank EXCEPT !.h = h, !.conn = handle[h].conn])
  /\ Goto(th, "demLookup")
  /\ UNCHANGED <<tmVars, poolVars, memVars, monitor, handle>>

\* isInTransaction again; the exception leaves the connection as it was.
DemLookup(th) ==
  LET t == connectionMemory[frame[th].conn] IN
  /\ At(th, "demLookup")
  /\ IF t = NoTx
     THEN Leave(th)
     ELSE /\ SetFrame(th, [frame[th] EXCEPT !.seen = t])
          /\ Goto(th, "demCheck")
  /\ UNCHANGED <<tmVars, poolVars, memVars, monitor, handle>>

\* Refused with an SQLException inside an active transaction.
DemCheck(th) ==
  /\ At(th, "demCheck")
  /\ IF IsActive(frame[th].seen)
     THEN Leave(th)
     ELSE Goto(th, "demDelegate") /\ UNCHANGED frame
  /\ UNCHANGED <<tmVars, poolVars, memVars, monitor, handle>>

\* The call reaches the plain connection.
DemDelegate(th) ==
  /\ At(th, "demDelegate")
  /\ Leave(th)
  /\ UNCHANGED <<tmVars, poolVars, memVars, monitor, handle>>

UseStep(th) ==
  \/ CloseLookup(th) \/ CloseCheck(th) \/ CloseContext(th) \/ CloseDefer(th)
  \/ DemLookup(th) \/ DemCheck(th) \/ DemDelegate(th)

-----------------------------------------------------------------------------
(* The transaction manager (external) and the clients' use of it *)

Begin(th, t) ==
  /\ At(th, "idle") /\ assoc[th] = NoTx /\ status[t] = "none"
  /\ status' = [status EXCEPT ![t] = "active"]
  /\ assoc' = [assoc EXCEPT ![th] = t]
  /\ UNCHANGED <<asked, enlisted, terminations, closings, forgetting, poolVars, memVars, monitor,
                 handle, pc, frame>>

\* suspend, or a commit that finds the transaction already rolled back.
Suspend(th) ==
  /\ At(th, "idle") /\ assoc[th] # NoTx
  /\ assoc' = [assoc EXCEPT ![th] = NoTx]
  /\ UNCHANGED <<status, asked, enlisted, terminations, closings, forgetting, poolVars, memVars,
                 monitor, handle, pc, frame>>

\* resume; a shared transaction may have other threads already.
Resume(th, t) ==
  /\ At(th, "idle") /\ assoc[th] = NoTx /\ IsActive(t)
  /\ SharedTx \/ \A other \in Threads : assoc[other] # t
  /\ assoc' = [assoc EXCEPT ![th] = t]
  /\ UNCHANGED <<status, asked, enlisted, terminations, closings, forgetting, poolVars, memVars,
                 monitor, handle, pc, frame>>

\* setRollbackOnly, by a client or by the manager itself.
MarkRollback(t) ==
  /\ status[t] = "active"
  /\ AsyncTimeout \/ \E th \in Threads : At(th, "idle") /\ assoc[th] = t
  /\ status' = [status EXCEPT ![t] = "marked"]
  /\ UNCHANGED <<assoc, asked, enlisted, terminations, closings, forgetting, poolVars, memVars,
                 monitor, handle, pc, frame>>

\* commit or rollback: the thread is in it until the last callback has run.
Complete(th) ==
  LET t == assoc[th] IN
  /\ At(th, "idle") /\ IsActive(t)
  /\ status' = [status EXCEPT ![t] = "completing"]
  /\ Goto(th, "completing")
  /\ UNCHANGED <<assoc, asked, enlisted, terminations, closings, forgetting, poolVars, memVars,
                 monitor, handle, frame>>

\* The manager rolls back a transaction that took too long, in its own thread.
TimeOut(t) ==
  /\ AsyncTimeout /\ IsActive(t)
  /\ status' = [status EXCEPT ![t] = "completing"]
  /\ UNCHANGED <<assoc, asked, enlisted, terminations, closings, forgetting, poolVars, memVars,
                 monitor, handle, pc, frame>>

\* Every resource has committed or rolled back.
Resolve(t) ==
  /\ status[t] = "completing"
  /\ status' = [status EXCEPT ![t] = "done"]
  /\ UNCHANGED <<assoc, asked, enlisted, terminations, closings, forgetting, poolVars, memVars,
                 monitor, handle, pc, frame>>

\* afterCompletion of registerConnection: terminateTransaction, in two removes.
RunTermination(t, c) ==
  /\ status[t] = "done" /\ forgetting[t] = NoConn /\ c \in terminations[t]
  /\ terminations' = [terminations EXCEPT ![t] = @ \ {c}]
  /\ forgetting' = [forgetting EXCEPT ![t] = c]
  /\ transactionMemory' = [transactionMemory EXCEPT ![t] = NoConn]
  /\ UNCHANGED <<status, assoc, asked, enlisted, closings, poolVars, connectionMemory, monitor,
                 handle, pc, frame>>

ForgetConn(t) ==
  /\ forgetting[t] # NoConn
  /\ connectionMemory' = [connectionMemory EXCEPT ![forgetting[t]] = NoTx]
  /\ forgetting' = [forgetting EXCEPT ![t] = NoConn]
  /\ UNCHANGED <<status, assoc, asked, enlisted, terminations, closings, poolVars,
                 transactionMemory, monitor, handle, pc, frame>>

\* afterCompletion of a wrapper's close: the plain connection is closed.
RunClosing(t, h) ==
  /\ status[t] = "done" /\ forgetting[t] = NoConn /\ h \in closings[t]
  /\ InOrder => terminations[t] = {}
  /\ closings' = [closings EXCEPT ![t] = @ \ {h}]
  /\ Return(handle[h].conn)
  /\ UNCHANGED <<status, assoc, asked, enlisted, terminations, forgetting, memVars, monitor,
                 handle, pc, frame>>

Drained(t) ==
  status[t] = "done" /\ terminations[t] = {} /\ closings[t] = {} /\ forgetting[t] = NoConn

Completed(th) ==
  /\ At(th, "completing") /\ Drained(assoc[th])
  /\ Goto(th, "idle")
  /\ assoc' = [assoc EXCEPT ![th] = NoTx]
  /\ UNCHANGED <<status, asked, enlisted, terminations, closings, forgetting, poolVars, memVars,
                 monitor, handle, frame>>

CompletionStep(t) ==
  \/ Resolve(t) \/ ForgetConn(t)
  \/ \E c \in Conns : RunTermination(t, c)
  \/ \E h \in Handles : RunClosing(t, h)

-----------------------------------------------------------------------------

ClientCall(th) ==
  \/ \E h \in OneOf({x \in Handles : handle[x].state = "unused"}), auth \in Variants :
        GetConnection(th, h, auth)
  \/ \E h \in Handles : Close(th, h) \/ Demarcate(th, h)
  \/ \E t \in Txs : Begin(th, t) \/ Resume(th, t)
  \/ Suspend(th) \/ Complete(th)

Next ==
  \/ \E th \in Threads : ClientCall(th) \/ OpenStep(th) \/ UseStep(th) \/ Completed(th)
  \/ \E t \in Txs : MarkRollback(t) \/ TimeOut(t) \/ CompletionStep(t)

Spec == Init /\ [][Next]_vars

\* A thread inside a call keeps running and a commit under way reaches its end; no
\* client has to call anything, and a pool that is exhausted need not raise.
Fairness ==
  /\ \A th \in Threads : WF_vars(Advance(th) \/ UseStep(th) \/ Completed(th))
  /\ \A t \in Txs : WF_vars(CompletionStep(t))

FairSpec == Spec /\ Fairness

-----------------------------------------------------------------------------
(* Properties *)

\* Every variable has its type.
TypeOK ==
  /\ status \in [Txs -> Statuses]
  /\ assoc \in [Threads -> Txs \cup {NoTx}]
  /\ asked \in [Txs -> SUBSET Conns]
  /\ enlisted \in [Txs -> SUBSET Conns]
  /\ terminations \in [Txs -> SUBSET Conns]
  /\ closings \in [Txs -> SUBSET Handles]
  /\ forgetting \in [Txs -> Conns \cup {NoConn}]
  /\ lent \subseteq Conns
  /\ unused \subseteq Conns
  /\ transactionMemory \in [Txs -> Conns \cup {NoConn}]
  /\ connectionMemory \in [Conns -> Txs \cup {NoTx}]
  /\ monitor \in [Txs -> Threads \cup {NoThread}]
  /\ handle \in [Handles -> Handle]
  /\ pc \in [Threads -> Labels]
  /\ frame \in [Threads -> Frame]

\* h is an open wrapper that a getConnection call in transaction t returned.
OpenIn(h, t) == t # NoTx /\ handle[h].state = "open" /\ handle[h].tx = t

\* A connection out of the pool is always somebody's: a thread is working on it,
\* a client has it open, a callback will close it, or the call that had it has
\* told its caller so by an exception.  (getConnection's swap loop, the wrapper's
\* deferred close: no path drops a connection without a word.)
NoSilentLeak ==
  \A c \in lent :
    \/ \E th \in Threads : c \in {frame[th].conn, frame[th].next}
    \/ \E h \in Handles :
         /\ handle[h].conn = c
         /\ \/ handle[h].state \in {"open", "failed"}
            \/ \E t \in Txs : h \in closings[t]

\* All the connections a running transaction has open are one: getConnection
\* returns "the same connection the transaction is using".
SameConnection ==
  \A t \in Txs : IsActive(t) =>
    \A g, h \in Handles : OpenIn(g, t) /\ OpenIn(h, t) => handle[g].conn = handle[h].conn

\* What a client does on a connection of its active transaction is part of that
\* transaction, unless the transaction itself did not enlist the connection when
\* registerConnection asked it to: no wrapper overtakes the enlistment, and once a
\* connection is enlisted no other is handed out.
EnlistedUse ==
  \A h \in Handles, t \in Txs :
    OpenIn(h, t) /\ status[t] = "active" =>
      /\ handle[h].conn \in asked[t]
      /\ enlisted[t] # {} => handle[h].conn \in enlisted[t]

\* getConnection() enlists a connection only in a transaction that has none yet of
\* this data source, however many of its threads call it at once, and with
\* authenticated calls among them: the second check under the monitor sees what
\* another thread registered.
OneBranch ==
  \A th \in Threads :
    At(th, "enlist") /\ ~frame[th].auth /\ status[frame[th].tx] = "active"
      => asked[frame[th].tx] = {}

\* A connection that takes part in an unresolved transaction, or was to take part,
\* is not in the pool: a wrapper's close is put off until the outcome is known.
HeldUntilResolved ==
  \A t \in Txs : status[t] \in {"active", "marked", "completing"} => asked[t] \subseteq lent

\* A commit, rollback, setAutoCommit or setReadOnly that reaches the plain
\* connection finds no active transaction it is enlisted in, whatever happened
\* since isInTransaction looked.
NoLocalDemarcation ==
  \A th \in Threads, t \in Txs :
    At(th, "demDelegate") /\ frame[th].conn \in enlisted[t] => status[t] # "active"


\* When a transaction is over and its callbacks have run, transactionMemory has
\* forgotten it, unless a getConnection call in it is still on its way or ended
\* in an exception between the puts and the registration of the callback.
StaleOnlyAfterFailure ==
  \A t \in Txs :
    Drained(t) /\ transactionMemory[t] # NoConn =>
      \/ \E th \in Threads : frame[th].tx = t
      \/ \E h \in Handles : handle[h].state = "failed" /\ handle[h].conn = transactionMemory[t]

\* While a transaction is active, the connection remembered for it is neither
\* replaced nor evicted.
KeepsConnection ==
  [][\A t \in Txs : IsActive(t) /\ transactionMemory[t] # NoConn
       => transactionMemory'[t] = transactionMemory[t]]_vars

\* The transaction's connection is still remembered, or the connection still has
\* the transaction for its context.
Remembered(t, c) == transactionMemory[t] = c \/ connectionMemory[c] = t

\* A transaction that commits or rolls back reaches the end of its callbacks: each
\* connection closed in it is back in the pool, and the two maps have forgotten it,
\* unless a getConnection call in it raised before it registered the callback.
Settled ==
  \A t \in Txs : status[t] = "completing" ~>
    /\ Drained(t)
    /\ \A h \in Handles :
         handle[h].tx = t /\ handle[h].state = "closed" => handle[h].conn \notin lent
    /\ \A c \in Conns : Remembered(t, c) =>
         \E h \in Handles : handle[h].state = "failed" /\ handle[h].conn = c

=============================================================================
