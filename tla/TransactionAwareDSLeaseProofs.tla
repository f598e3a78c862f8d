-------------------- MODULE TransactionAwareDSLeaseProofs --------------------
(***************************************************************************)
(* TransactionAwareDS implements ConnectionLease, for any number of        *)
(* threads, transactions, connections and calls, as long as a transaction  *)
(* has one thread, is resolved by it, and the pool lends fresh handles.     *)
(***************************************************************************)
EXTENDS TransactionAwareDSLease, TransactionAwareDSProofs

(* Anything the code or the manager keeps says that c belongs to t.          *)
Tied(c, t) ==
  \/ transactionMemory[t] = c \/ connectionMemory[c] = t \/ c \in asked[t]
  \/ \E h \in Handles : handle[h].tx = t /\ handle[h].conn = c

Free(c) == \A t \in Txs : ~Tied(c, t)

Handled(c) == \E h \in Handles : handle[h].conn = c

InHand(th, c) == pc[th] \in Opening /\ frame[th].conn = c

(* Statements after the first put of registerConnection, and those that only *)
(* a connection with a stale entry leads to.                                *)
Late  == {"putConn", "enlist", "hook", "wrap"}
Stale == {"inspect", "judge", "evictTx", "evictConn", "swap", "release"}

(* The transaction a thread works in is active until the thread ends it.     *)
AssocInv(th) ==
  assoc[th] # NoTx =>
    IF pc[th] = "completing" THEN status[assoc[th]] \in {"completing", "done"}
                             ELSE IsActive(assoc[th])

(* A wrapper is closed in its own transaction or after it.                   *)
CloserInv(th) ==
  pc[th] \in Closing =>
    LET t == handle[frame[th].h].tx IN
    /\ t \in Txs
    /\ assoc[th] = t \/ status[t] = "done"
    /\ pc[th] \in {"closeCheck", "closeDefer"} => frame[th].seen = t

(* A connection in hand is out of the pool and known to nobody else before   *)
(* the first put, and to its own transaction only after it.                  *)
OpenerInv(th) ==
  pc[th] \in Opening =>
    /\ pc[th] \notin Stale
    /\ \A c \in Conns : frame[th].conn = c =>
         /\ c \in lent /\ ~Handled(c)
         /\ \A u \in Txs : Tied(c, u) => u = frame[th].tx /\ pc[th] \in Late
         /\ \A o \in Threads : InHand(o, c) => o = th
    /\ pc[th] \in {"putConn", "enlist"} => asked[frame[th].tx] = {}

UnusedInv(c) ==
  c \in unused =>
    c \notin lent /\ Free(c) /\ ~Handled(c) /\ \A th \in Threads : ~InHand(th, c)

HandleInv(h) ==
  /\ ~Ended(h) => handle[h].tx = NoTx
  /\ handle[h].tx = NoTx /\ handle[h].state = "open" => Free(handle[h].conn)
  /\ \A t \in Txs : h \in closings[t] => handle[h].tx = t

(* A connection belongs to one transaction and stays out of the pool until   *)
(* that one is resolved.                                                    *)
TxInv(t) ==
  /\ Lease!Unresolved(t) => \A c \in Conns : Tied(c, t) => c \in lent
  /\ \A c \in Conns, u \in Txs : Tied(c, t) /\ Tied(c, u) => u = t
  /\ IsActive(t) => asked[t] \subseteq {transactionMemory[t]}
  /\ status[t] = "none" => asked[t] = {}

LeaseInv ==
  /\ \A th \in Threads : AssocInv(th) /\ CloserInv(th) /\ OpenerInv(th)
  /\ \A c \in Conns : UnusedInv(c)
  /\ \A h \in Handles : HandleInv(h)
  /\ \A t \in Txs : TxInv(t)

(***************************************************************************)
(* What a step does, seen from everywhere but its own call.                *)
(***************************************************************************)
Base == TypeInv /\ LeakInv /\ SoloInv /\ AskedInv

Fresh == ~SharedTx /\ ~Recycles /\ ~AsyncTimeout

PutsTx(th) == pc[th] = "putTx" /\ pc'[th] = "putConn" /\ frame'[th] = frame[th]

\* Only the first put ties a connection to a transaction.
TieEffect ==
  \A c \in Conns, t \in Txs : Tied(c, t)' =>
    Tied(c, t) \/ \E th \in Threads : PutsTx(th) /\ frame[th].conn = c /\ frame[th].tx = t

\* What comes out of the pool was never out before, and what goes back is closed
\* outside a transaction or after it.
PoolEffect ==
  /\ unused' \subseteq unused
  /\ \A c \in Conns : c \in lent' /\ c \notin lent => c \in unused /\ c \notin unused'
  /\ \A c \in Conns : c \in lent /\ c \notin lent' =>
       \E h \in Handles : /\ handle[h].conn = c
                         /\ \/ handle[h].tx = NoTx /\ handle[h].state = "open"
                            \/ handle[h].tx \in Txs /\ status[handle[h].tx] = "done"

\* A call gives its handle what it had in hand or what its transaction has.
HandleEffect ==
  /\ \A c \in Conns : Handled(c)' =>
       \/ Handled(c)
       \/ \E th \in Threads :
            /\ pc[th] \in Opening /\ pc'[th] \notin Opening
            /\ frame[th].conn = c \/ (frame[th].tx \in Txs /\ Tied(c, frame[th].tx))
  /\ \A h \in Handles : handle[h].tx # NoTx => handle'[h].tx = handle[h].tx

\* A connection comes into one hand, out of the pool.
HandEffect ==
  \A th \in Threads, c \in Conns : InHand(th, c)' =>
    \/ InHand(th, c)
    \/ /\ c \in unused /\ c \notin unused'
       /\ \A o \in Threads \ {th} : InHand(o, c)' => InHand(o, c)

\* The transaction is asked to enlist what the thread has in hand.
AsksFor(th) ==
  /\ pc[th] = "enlist" /\ status[frame[th].tx] = "active"
  /\ asked' = [asked EXCEPT ![frame[th].tx] = @ \cup {frame[th].conn}]

EnlistEffect ==
  \A t \in Txs :
    \/ asked'[t] = asked[t]
    \/ \E th \in Threads : /\ AsksFor(th) /\ pc'[th] \notin {"putConn", "enlist"} /\ frame[th].tx = t
                          /\ asked'[t] = asked[t] \cup {frame[th].conn}

StatusEffect ==
  /\ \A t \in Txs : Lease!Unresolved(t)' => Lease!Unresolved(t) \/ status[t] = "none"
  /\ \A t \in Txs : IsActive(t)' => IsActive(t) \/ status[t] = "none"
  /\ \A t \in Txs : status[t] = "done" => status'[t] = "done"
  /\ \A t \in Txs : status'[t] = "none" => status[t] = "none"
  /\ \A t \in Txs : IsActive(t) /\ transactionMemory[t] # NoConn
                      => transactionMemory'[t] = transactionMemory[t]

Effects ==
  TieEffect /\ PoolEffect /\ HandleEffect /\ HandEffect /\ EnlistEffect /\ StatusEffect

Mine(th, o) == pc[o] \in Opening /\ pc[th] \in Opening /\ frame[o].tx = frame[th].tx /\ frame[th].tx \in Txs

LEMMA OneCall ==
  ASSUME Base, NEW th \in Threads, NEW o \in Threads, Mine(th, o)
  PROVE  th = o
BY NullsAssumption DEF Base, SoloInv, Solo, Mine

LEMMA FrameTypes ==
  ASSUME Base, NEW th \in Threads
  PROVE  /\ frame[th].tx \in Txs \cup {NoTx} /\ frame[th].conn \in Conns \cup {NoConn}
         /\ pc[th] \in Late \cup {"putTx"} => frame[th].tx \in Txs /\ frame[th].conn \in Conns
         /\ pc[th] \in Opening \cup Closing \cup Demarcating => frame[th].h \in Handles
BY DEF Base, TypeInv, TypeOK, Frame, FrameOK, LocalOK, Late, Searching, Registering, Opening

(* A pool connection never used keeps all its claims.                       *)
LEMMA UnusedKept ==
  ASSUME Base, LeaseInv, Effects, NEW c \in Conns
  PROVE  UnusedInv(c)'
<1> SUFFICES ASSUME c \in unused' PROVE (c \notin lent /\ Free(c) /\ ~Handled(c) /\ \A th \in Threads : ~InHand(th, c))'
  BY DEF UnusedInv
<1>1. c \in unused /\ c \notin lent /\ Free(c) /\ ~Handled(c) /\ \A th \in Threads : ~InHand(th, c)
  BY DEF LeaseInv, UnusedInv, Effects, PoolEffect
<1>2. c \notin lent' BY <1>1 DEF Effects, PoolEffect
<1>3. \A th \in Threads : ~InHand(th, c)'
  BY <1>1 DEF Effects, HandEffect
<1>4. ASSUME NEW th \in Threads, pc[th] \in Opening PROVE frame[th].conn # c
  BY <1>1, <1>4 DEF InHand
<1>5. ~Handled(c)' BY <1>1, <1>4 DEF Effects, HandleEffect, Free
<1>6. ASSUME NEW t \in Txs, Tied(c, t)' PROVE FALSE
  <2>1. PICK th \in Threads : PutsTx(th) /\ frame[th].conn = c
    BY <1>1, <1>6 DEF Effects, TieEffect, Free
  <2> QED BY <1>4, <2>1 DEF PutsTx, Opening, Registering
<1> QED BY <1>2, <1>3, <1>5, <1>6 DEF Free

LEMMA TxKept ==
  ASSUME Base, Base', LeaseInv, Effects, NEW t \in Txs
  PROVE  TxInv(t)'
<1>a. TxInv(t) /\ \A u \in Txs : TxInv(u) BY DEF LeaseInv
<1>1. ASSUME NEW c \in Conns, NEW u \in Txs, Tied(c, u)', ~Tied(c, u)
      PROVE  \E th \in Threads : /\ PutsTx(th) /\ frame[th].conn = c /\ frame[th].tx = u
                               /\ c \in lent /\ ~Handled(c) /\ Free(c)
                               /\ \A o \in Threads : InHand(o, c) => o = th
  <2>1. PICK th \in Threads : PutsTx(th) /\ frame[th].conn = c /\ frame[th].tx = u
    BY <1>1 DEF Effects, TieEffect
  <2>2. OpenerInv(th) /\ pc[th] \in Opening /\ pc[th] \notin Late
    BY <2>1 DEF LeaseInv, PutsTx, Opening, Registering, Late
  <2> QED BY <2>1, <2>2 DEF OpenerInv, Free
<1>2. ASSUME NEW c \in Conns, Tied(c, t)', Lease!Unresolved(t)' PROVE c \in lent'
  <2>1. CASE ~Tied(c, t)
    <3>1. c \in lent /\ ~Handled(c) BY <1>1, <1>2, <2>1
    <3> QED BY <3>1 DEF Effects, PoolEffect, Handled
  <2>2. CASE Tied(c, t)
    <3>1. status[t] # "none"
      <4>1. ASSUME status[t] = "none" PROVE FALSE
        <5>1. /\ transactionMemory[t] = NoConn /\ connectionMemory[c] # t
              /\ \A h \in Handles : handle[h].tx # t
          BY <4>1 DEF Base, SoloInv, Begun
        <5>2. asked[t] = {} BY <1>a, <4>1 DEF TxInv
        <5> QED BY <2>2, <5>1, <5>2, NullsAssumption DEF Tied
      <4> QED BY <4>1
    <3>2. Lease!Unresolved(t) BY <1>2, <3>1 DEF Effects, StatusEffect
    <3>3. c \in lent BY <1>a, <2>2, <3>2 DEF TxInv
    <3>4. ASSUME c \notin lent' PROVE FALSE
      <4>1. PICK h \in Handles : /\ handle[h].conn = c
                                /\ \/ handle[h].tx = NoTx /\ handle[h].state = "open"
                                   \/ handle[h].tx \in Txs /\ status[handle[h].tx] = "done"
        BY <3>3, <3>4 DEF Effects, PoolEffect
      <4>2. CASE handle[h].tx = NoTx /\ handle[h].state = "open"
        BY <2>2, <4>1, <4>2 DEF LeaseInv, HandleInv, Free
      <4>3. CASE handle[h].tx \in Txs /\ status[handle[h].tx] = "done"
        <5>1. Tied(c, handle[h].tx) BY <4>1, <4>3 DEF Tied
        <5>2. handle[h].tx = t BY <1>a, <2>2, <4>3, <5>1 DEF TxInv
        <5> QED BY <3>2, <4>3, <5>2 DEF Lease!Unresolved
      <4> QED BY <4>1, <4>2, <4>3
    <3> QED BY <3>4
  <2> QED BY <2>1, <2>2
<1>3. ASSUME NEW c \in Conns, NEW u \in Txs, Tied(c, t)', Tied(c, u)' PROVE u = t
  <2>1. CASE Tied(c, t) /\ Tied(c, u) BY <1>a, <2>1 DEF TxInv
  <2>2. CASE ~Tied(c, t) /\ Tied(c, u) BY <1>1, <1>3, <2>2 DEF Free
  <2>3. CASE ~Tied(c, u) /\ Tied(c, t) BY <1>1, <1>3, <2>3 DEF Free
  <2>4. CASE ~Tied(c, u) /\ ~Tied(c, t)
    <3>1. PICK th \in Threads : /\ PutsTx(th) /\ frame[th].conn = c /\ frame[th].tx = u
                               /\ \A o \in Threads : InHand(o, c) => o = th
      BY <1>1, <1>3, <2>4
    <3>2. PICK o \in Threads : PutsTx(o) /\ frame[o].conn = c /\ frame[o].tx = t
      BY <1>1, <1>3, <2>4
    <3> QED BY <3>1, <3>2 DEF PutsTx, InHand, Opening, Registering
  <2> QED BY <2>1, <2>2, <2>3, <2>4
<1>b. asked[t] \subseteq Conns /\ asked \in [Txs -> SUBSET Conns] /\ t # NoTx
  BY NullsAssumption DEF Base, TypeInv, TypeOK
<1>4. ASSUME IsActive(t)' PROVE asked'[t] \subseteq {transactionMemory'[t]}
  <2>1. CASE status[t] = "none"
    BY <1>a, <2>1 DEF TxInv, Effects, EnlistEffect, AsksFor
  <2>2. CASE IsActive(t)
    <3>1. asked[t] # {} => transactionMemory'[t] = transactionMemory[t]
      BY <1>a, <1>b, <2>2, NullsAssumption DEF TxInv, Effects, StatusEffect
    <3>2. asked[t] \subseteq {transactionMemory'[t]} BY <1>a, <2>2, <3>1 DEF TxInv
    <3>3. CASE asked'[t] = asked[t] BY <3>2, <3>3
    <3>4. ASSUME NEW th \in Threads, pc[th] = "enlist", frame[th].tx = t,
                 asked'[t] = asked[t] \cup {frame[th].conn}
          PROVE  asked'[t] \subseteq {transactionMemory'[t]}
      <4>1. transactionMemory[t] = frame[th].conn /\ frame[th].conn \in Conns
        BY <2>2, <3>4, FrameTypes, <1>b DEF Base, SoloInv, RememberedAt, Late
      <4>2. transactionMemory'[t] = transactionMemory[t]
        BY <2>2, <4>1, NullsAssumption DEF Effects, StatusEffect
      <4> QED BY <3>2, <3>4, <4>1, <4>2
    <3> QED BY <3>3, <3>4 DEF Effects, EnlistEffect, AsksFor
  <2> QED BY <1>4, <2>1, <2>2 DEF Effects, StatusEffect
<1>5. ASSUME status'[t] = "none" PROVE asked'[t] = {}
  BY <1>5, <1>a DEF TxInv, Effects, EnlistEffect, StatusEffect, AsksFor
<1> QED BY <1>2, <1>3, <1>4, <1>5 DEF TxInv

(* A thread that stays in its call keeps its claims on what it has in hand.   *)
LEMMA OpenerKept ==
  ASSUME Base, LeaseInv, Effects, NEW o \in Threads, frame'[o] = frame[o],
         \/ pc'[o] = pc[o]
         \/ /\ pc[o] \in Opening /\ pc'[o] \notin Stale
            /\ pc[o] \in Late => pc'[o] \in Late
            /\ pc'[o] \in Late => pc[o] \in Late \/ PutsTx(o)
            /\ pc'[o] \in {"putConn", "enlist"} => pc[o] \in {"putTx", "putConn"}
  PROVE  OpenerInv(o)'
<1> SUFFICES ASSUME pc'[o] \in Opening PROVE OpenerInv(o)'
  BY DEF OpenerInv
<1>1. pc[o] \in Opening /\ OpenerInv(o) /\ pc'[o] \notin Stale
  BY DEF LeaseInv, OpenerInv
<1>2. ASSUME NEW c \in Conns, frame[o].conn = c
      PROVE  /\ c \in lent' /\ ~Handled(c)'
             /\ \A u \in Txs : Tied(c, u)' => u = frame[o].tx /\ pc'[o] \in Late
             /\ \A p \in Threads : InHand(p, c)' => p = o
  <2>1. /\ c \in lent /\ ~Handled(c) /\ InHand(o, c)
        /\ \A u \in Txs : Tied(c, u) => u = frame[o].tx /\ pc[o] \in Late
        /\ \A p \in Threads : InHand(p, c) => p = o
    BY <1>1, <1>2 DEF OpenerInv, InHand
  <2>2. c \in lent' BY <2>1 DEF Effects, PoolEffect, Handled
  <2>3. ASSUME Handled(c)' PROVE FALSE
    <3>1. PICK th \in Threads :
            /\ pc[th] \in Opening /\ pc'[th] \notin Opening
            /\ frame[th].conn = c \/ (frame[th].tx \in Txs /\ Tied(c, frame[th].tx))
      <4>1. HandleEffect BY DEF Effects
      <4> QED BY <2>1, <2>3, <4>1 DEF HandleEffect
    <3>2. th # o BY <3>1
    <3>3. CASE frame[th].conn = c BY <2>1, <3>1, <3>2, <3>3 DEF InHand
    <3>4. CASE frame[th].tx \in Txs /\ Tied(c, frame[th].tx)
      BY <1>1, <2>1, <3>1, <3>2, <3>4, OneCall DEF Mine
    <3> QED BY <3>1, <3>3, <3>4
  <2>4. ASSUME NEW u \in Txs, Tied(c, u)' PROVE u = frame[o].tx /\ pc'[o] \in Late
    <3>1. CASE Tied(c, u) BY <2>1, <3>1
    <3>2. ASSUME NEW th \in Threads, PutsTx(th), frame[th].conn = c, frame[th].tx = u
          PROVE  u = frame[o].tx /\ pc'[o] \in Late
      <4>1. th = o BY <2>1, <3>2 DEF PutsTx, InHand, Opening, Registering
      <4> QED BY <3>2, <4>1 DEF PutsTx, Late
    <3> QED BY <2>4, <3>1, <3>2 DEF Effects, TieEffect
  <2>5. ASSUME NEW p \in Threads, InHand(p, c)' PROVE p = o
    <3>1. c \notin unused BY <2>1 DEF LeaseInv, UnusedInv
    <3> QED BY <2>1, <2>5, <3>1 DEF Effects, HandEffect
  <2> QED BY <2>2, <2>3, <2>4, <2>5
<1>3. ASSUME pc'[o] \in {"putConn", "enlist"} PROVE asked'[frame[o].tx] = {}
  <2>1. pc[o] \in {"putTx", "putConn", "enlist"} BY <1>3
  <2>2. frame[o].tx \in Txs /\ frame[o].conn \in Conns BY <2>1, FrameTypes DEF Late
  <2>3. asked[frame[o].tx] = {}
    <3>1. CASE pc[o] \in {"putConn", "enlist"} BY <1>1, <3>1 DEF OpenerInv
    <3>2. CASE pc[o] = "putTx"
      <4>1. assoc[o] = frame[o].tx /\ frame[o].tx # NoTx
        BY <1>1, <2>2, NullsAssumption DEF Base, SoloInv, Solo
      <4>2. IsActive(frame[o].tx) BY <3>2, <4>1 DEF LeaseInv, AssocInv
      <4>3. transactionMemory[frame[o].tx] = NoConn
        BY <3>2, <4>1, <4>2 DEF Base, SoloInv, RememberedAt
      <4>4. asked[frame[o].tx] \subseteq Conns BY <2>2 DEF Base, TypeInv, TypeOK
      <4> QED BY <2>2, <4>2, <4>3, <4>4, NullsAssumption DEF LeaseInv, TxInv
    <3> QED BY <2>1, <3>1, <3>2
  <2>4. ASSUME NEW th \in Threads, pc[th] = "enlist", pc'[th] \notin {"putConn", "enlist"},
               frame[th].tx = frame[o].tx
        PROVE  FALSE
    <3>1. th = o
      BY <1>1, <2>2, <2>4, OneCall DEF Mine, Opening, Registering
    <3> QED BY <1>3, <2>4, <3>1
  <2> QED BY <2>2, <2>3, <2>4 DEF Effects, EnlistEffect, AsksFor
<1> QED BY <1>1, <1>2, <1>3 DEF OpenerInv

(* A thread in a getConnection call has an active transaction or none.       *)
LEMMA CallActive ==
  ASSUME Base, LeaseInv, NEW th \in Threads, pc[th] \in Opening, frame[th].tx \in Txs
  PROVE  assoc[th] = frame[th].tx /\ IsActive(frame[th].tx)
<1>1. assoc[th] = frame[th].tx /\ frame[th].tx # NoTx
  BY NullsAssumption DEF Base, SoloInv, Solo
<1>2. pc[th] # "completing" BY DEF Opening, Searching, Registering
<1> QED BY <1>1, <1>2 DEF LeaseInv, AssocInv

LEMMA HandleKept ==
  ASSUME Base, LeaseInv, Effects, NEW h \in Handles,
         handle'[h].conn = handle[h].conn, handle'[h].tx = handle[h].tx,
         handle'[h].state = "open" => handle[h].state = "open",
         Ended(h) => Ended(h)',
         \A t \in Txs : h \in closings'[t] => h \in closings[t] \/ handle'[h].tx = t
  PROVE  HandleInv(h)'
<1>1. HandleInv(h) BY DEF LeaseInv
<1>2. ~Ended(h)' => handle'[h].tx = NoTx BY <1>1 DEF HandleInv
<1>3. ASSUME handle'[h].tx = NoTx, handle'[h].state = "open", NEW t \in Txs, Tied(handle[h].conn, t)'
      PROVE  FALSE
  <2>1. Ended(h) BY <1>3 DEF Ended
  <2>2. handle[h].conn \in Conns BY <2>1 DEF Base, TypeInv, HandleOK
  <2>3. Free(handle[h].conn) BY <1>1, <1>3 DEF HandleInv
  <2>4. PICK th \in Threads : PutsTx(th) /\ frame[th].conn = handle[h].conn
    BY <1>3, <2>2, <2>3 DEF Effects, TieEffect, Free
  <2>5. ~Handled(handle[h].conn)
    BY <2>2, <2>4 DEF LeaseInv, OpenerInv, PutsTx, Opening, Registering
  <2> QED BY <2>5 DEF Handled
<1>4. \A t \in Txs : h \in closings'[t] => handle'[h].tx = t
  BY <1>1 DEF HandleInv
<1> QED BY <1>2, <1>3, <1>4 DEF HandleInv, Free

LEMMA CloserKept ==
  ASSUME Base, LeaseInv, Effects, NEW o \in Threads,
         frame'[o] = frame[o], pc'[o] = pc[o], assoc'[o] = assoc[o]
  PROVE  CloserInv(o)'
<1>1. CloserInv(o) BY DEF LeaseInv
<1>2. pc[o] \in Closing => frame[o].h \in Handles BY FrameTypes
<1>3. \A t \in Txs : t # NoTx BY NullsAssumption
<1>4. \A h \in Handles : handle[h].tx \in Txs => handle'[h].tx = handle[h].tx
  BY <1>3 DEF Effects, HandleEffect
<1>5. \A t \in Txs : status[t] = "done" => status'[t] = "done"
  BY DEF Effects, StatusEffect
<1> QED BY <1>1, <1>2, <1>4, <1>5 DEF CloserInv

LEMMA AssocKept ==
  ASSUME LeaseInv, NEW o \in Threads, assoc'[o] = assoc[o], status' = status,
         pc'[o] = "completing" <=> pc[o] = "completing"
  PROVE  AssocInv(o)'
BY DEF LeaseInv, AssocInv, IsActive

(* With the manager and the memories at rest, but for what grows at one place. *)
LEMMA StillStatus ==
  ASSUME status' = status,
         \A t \in Txs : IsActive(t) /\ transactionMemory[t] # NoConn
                          => transactionMemory'[t] = transactionMemory[t]
  PROVE  StatusEffect
BY DEF StatusEffect, IsActive, Lease!Unresolved

LEMMA OpenAssembles ==
  ASSUME Base, LeaseInv, NEW th \in Threads, OpenStep(th), Base', Effects, OpenerInv(th)',
         \A h \in Handles : HandleInv(h)',
         pc'[th] \in Opening \cup {"idle"}
  PROVE  LeaseInv'
<1>1. /\ assoc' = assoc
      /\ \A o \in Threads \ {th} : pc'[o] = pc[o] /\ frame'[o] = frame[o]
  BY Locality DEF Base
<1>2. status' = status BY MemoryEffect DEF Base
<1>3. pc[th] \in Opening
  BY DEF OpenStep, At, Opening, Searching, Registering, Lookup, Enter, Borrow, Probe,
       Inspect, Judge, EvictTx, EvictConn, Swap, Release, Found, Recheck, PutTx, PutConn, Enlist, Hook, Wrap, Advance, SwapRaises
<1>4. ASSUME NEW o \in Threads, o # th PROVE AssocInv(o)' /\ CloserInv(o)' /\ OpenerInv(o)'
  BY <1>1, <1>2, <1>4, AssocKept, CloserKept, OpenerKept
<1>5. CloserInv(th)' BY DEF CloserInv, Opening, Searching, Registering, Closing
<1>6. AssocInv(th)'
  <2>1. pc[th] # "completing" /\ pc'[th] # "completing"
    BY <1>3 DEF Opening, Searching, Registering
  <2> QED BY <1>1, <1>2, <2>1, AssocKept
<1> QED BY <1>4, <1>5, <1>6, UnusedKept, TxKept DEF LeaseInv

(***************************************************************************)
(* Steps of getConnection.                                                 *)
(***************************************************************************)
AtRest == UNCHANGED <<status, assoc, asked, enlisted, closings, lent, unused, memVars>>

Others(th) == \A o \in Threads \ {th} : pc'[o] = pc[o] /\ frame'[o] = frame[o]

\* The thread goes from statement to statement and changes nothing else.
Walks(th) ==
  /\ AtRest /\ handle' = handle /\ frame' = frame
  /\ pc'[th] \in Opening \ (Stale \cup {"putConn", "enlist"})
  /\ pc[th] \in Late <=> pc'[th] \in Late

\* It takes a connection out of the pool.
Takes(th, c) ==
  /\ UNCHANGED <<status, assoc, asked, enlisted, closings, memVars, handle>>
  /\ c \in unused /\ lent' = lent \cup {c} /\ unused' = unused \ {c}
  /\ frame'[th].conn = c /\ frame'[th].tx = frame[th].tx
  /\ pc[th] = "borrow" /\ pc'[th] = "probe"

\* It registers, statement by statement, what it has in hand.
Registers(th) ==
  LET c == frame[th].conn  t == frame[th].tx IN
  /\ UNCHANGED <<status, assoc, closings, lent, unused, handle, frame>>
  /\ \/ /\ pc[th] = "putTx" /\ pc'[th] = "putConn"
        /\ transactionMemory' = [transactionMemory EXCEPT ![t] = c]
        /\ UNCHANGED <<connectionMemory, asked, enlisted>>
     \/ /\ pc[th] = "putConn" /\ pc'[th] = "enlist"
        /\ connectionMemory' = [connectionMemory EXCEPT ![c] = t]
        /\ UNCHANGED <<transactionMemory, asked, enlisted>>
     \/ /\ AsksFor(th) /\ pc'[th] = "hook"
        /\ enlisted' \in {enlisted, [enlisted EXCEPT ![t] = @ \cup {c}]}
        /\ UNCHANGED memVars

\* The call on h ends: with c in transaction t or outside any, or in an exception,
\* which may be that of the enlistment.
Leaves(th, h, c, t, s) ==
  /\ UNCHANGED <<status, assoc, enlisted, closings, lent, unused, memVars>>
  /\ pc'[th] = "idle" /\ s \in {"open", "failed"}
  /\ handle'[h].conn = c /\ handle'[h].tx = t /\ handle'[h].state = s
  /\ asked' = asked \/ (AsksFor(th) /\ t = NoTx)
  /\ \/ t = NoTx /\ c = frame[th].conn /\ (s = "open" => pc[th] \notin Late)
     \/ t \in Txs /\ t = frame[th].tx /\ transactionMemory[t] = c /\ s = "open"

LEMMA OpenShape ==
  ASSUME Base, LeaseInv, Fresh, NEW th \in Threads, OpenStep(th), NEW h \in Handles, h = frame[th].h
  PROVE  \/ Walks(th) \/ Registers(th)
         \/ \E c \in Conns : Takes(th, c)
         \/ \E c \in Conns, t \in Txs \cup {NoTx}, s \in HandleStates : Leaves(th, h, c, t, s)
<1>a. /\ pc \in [Threads -> Labels] /\ frame \in [Threads -> Frame] /\ handle \in [Handles -> Handle]
      /\ LocalOK(th) /\ frame[th] \in Frame /\ unused \subseteq Conns
      /\ transactionMemory \in [Txs -> Conns \cup {NoConn}]
  BY DEF Base, TypeInv, TypeOK, FrameOK
<1>b. pc[th] \in Opening /\ pc[th] \notin Stale
  BY DEF LeaseInv, OpenerInv, OpenStep, At, Opening, Searching, Registering, Lookup, Enter, Borrow, Probe,
       Inspect, Judge, EvictTx, EvictConn, Swap, Release, Found, Recheck, PutTx, PutConn, Enlist, Hook, Wrap, Advance, SwapRaises
<1>c. handle[h].state = "opening" /\ handle[h].tx = NoTx
  BY <1>b DEF Base, LeakInv, CallOK, LeaseInv, HandleInv, Ended
<1>d. frame[th].tx \in Txs => IsActive(frame[th].tx) BY <1>b, CallActive
<1>e. TypeInv BY DEF Base
<1>f. \A t \in Txs : t # NoTx BY NullsAssumption
<1>g. RememberedAt(th) BY DEF Base, SoloInv
<1> USE <1>a
<1>2. CASE Lookup(th)
  <2>0. pc[th] = "lookup" /\ frame[th].tx \in Txs /\ AtRest
    BY <1>2 DEF Lookup, At, LocalOK, AtRest, tmVars, poolVars
  <2>1. CASE transactionMemory[frame[th].tx] # NoConn
    <3>1. Deliver(th, transactionMemory[frame[th].tx], frame[th].tx) BY <1>2, <2>1 DEF Lookup
    <3>2. Leaves(th, h, transactionMemory[frame[th].tx], frame[th].tx, "open")
      BY <1>e, <2>0, <3>1, DeliverEffect DEF Leaves, AtRest
    <3>3. transactionMemory[frame[th].tx] \in Conns BY <2>0, <2>1
    <3> QED BY <2>0, <3>2, <3>3 DEF HandleStates
  <2>2. CASE transactionMemory[frame[th].tx] = NoConn
    BY <1>2, <2>0, <2>2 DEF Lookup, Walks, Goto, Late, Opening, Searching, Registering, Stale
  <2> QED BY <2>1, <2>2
<1>3. CASE Enter(th)
  BY <1>3 DEF Enter, Walks, AtRest, At, Goto, tmVars, poolVars, Late, Opening, Searching, Registering, Stale
<1>4. CASE Borrow(th)
  <2>1. PICK c \in Conns : Lend(c) /\ SetFrame(th, [frame[th] EXCEPT !.conn = c])
    BY <1>4 DEF Borrow
  <2>2. c \in unused /\ lent' = lent \cup {c} /\ unused' = unused \ {c}
    BY <2>1, EnvironmentAssumption DEF Lend, Lendable, OneOf, Fresh
  <2>3. frame'[th].conn = c /\ frame'[th].tx = frame[th].tx
    BY <2>1 DEF SetFrame, Frame
  <2>4. Takes(th, c)
    BY <1>4, <2>2, <2>3 DEF Borrow, Takes, At, Goto, tmVars
  <2> QED BY <2>4
<1>5. CASE Probe(th)
  <2>1. pc[th] = "probe" /\ frame[th].conn \in Conns
    BY <1>5 DEF Probe, At, LocalOK, Searching
  <2>2. \A u \in Txs : ~Tied(frame[th].conn, u)
    BY <1>b, <2>1 DEF LeaseInv, OpenerInv, Late
  <2>3. connectionMemory[frame[th].conn] = NoTx
    <3>1. connectionMemory[frame[th].conn] \in Txs \cup {NoTx}
      BY <2>1 DEF Base, TypeInv, TypeOK
    <3> QED BY <2>2, <3>1 DEF Tied
  <2> QED BY <1>5, <2>1, <2>3 DEF Probe, Walks, AtRest, At, Goto, tmVars, poolVars, Late, Opening, Searching, Registering, Stale
<1>6. CASE \/ Inspect(th) \/ Judge(th) \/ EvictTx(th) \/ EvictConn(th)
           \/ Swap(th) \/ SwapRaises(th) \/ Release(th)
  BY <1>b, <1>6 DEF Inspect, Judge, EvictTx, EvictConn, Swap, SwapRaises, Release, At, Stale
<1>7. CASE Found(th)
  <2>0. pc[th] = "found" /\ frame[th].conn \in Conns /\ AtRest
    BY <1>7 DEF Found, At, LocalOK, Searching, AtRest, tmVars, poolVars
  <2>1. CASE frame[th].tx = NoTx
    <3>1. Deliver(th, frame[th].conn, NoTx) BY <1>7, <2>1 DEF Found
    <3>2. Leaves(th, h, frame[th].conn, NoTx, "open")
      BY <1>e, <2>0, <3>1, DeliverEffect DEF Leaves, AtRest, Late
    <3> QED BY <2>0, <3>2 DEF HandleStates
  <2>2. CASE frame[th].tx # NoTx
    BY <1>7, <2>0, <2>2 DEF Found, Walks, Goto, Late, Opening, Searching, Registering, Stale
  <2> QED BY <2>1, <2>2
<1>8. CASE Recheck(th)
  <2>1. pc[th] = "recheck" /\ frame[th].tx \in Txs
    BY <1>8 DEF Recheck, At, LocalOK
  <2>2. transactionMemory[frame[th].tx] = NoConn
    BY <1>d, <1>f, <1>g, <2>1 DEF RememberedAt
  <2> QED BY <1>8, <2>1, <2>2 DEF Recheck, Walks, AtRest, At, Goto, tmVars, poolVars, Late, Opening, Searching, Registering, Stale
<1>9. CASE PutTx(th) \/ PutConn(th)
  BY <1>9 DEF PutTx, PutConn, Registers, At, Goto, tmVars, poolVars
<1>10. CASE Enlist(th)
  <2>0. pc[th] = "enlist" /\ frame[th].conn \in Conns
    BY <1>10 DEF Enlist, At, LocalOK, Registering
  <2>1. CASE Raise(th, frame[th].conn) /\ UNCHANGED enlisted
    <3>1. /\ UNCHANGED <<status, assoc, closings, lent, unused, memVars>>
          /\ asked' = [asked EXCEPT ![frame[th].tx] =
                         IF status[frame[th].tx] = "active" THEN @ \cup {frame[th].conn} ELSE @]
      BY <1>10 DEF Enlist, poolVars
    <3>2. asked' = asked \/ AsksFor(th)
      BY <2>0, <3>1 DEF AsksFor, Base, TypeInv, TypeOK
    <3>3. Leaves(th, h, frame[th].conn, NoTx, "failed")
      BY <1>c, <1>e, <2>1, <3>1, <3>2, RaiseEffect DEF Leaves
    <3> QED BY <2>0, <3>3 DEF HandleStates
  <2>2. CASE ~(Raise(th, frame[th].conn) /\ UNCHANGED enlisted)
    <3>1. AsksFor(th) BY <1>10, <2>0, <2>2 DEF Enlist, AsksFor
    <3> QED BY <1>10, <2>2, <3>1 DEF Enlist, Registers, Goto, poolVars
  <2> QED BY <2>1, <2>2
<1>11. CASE Hook(th)
  <2>0. pc[th] = "hook" /\ frame[th].conn \in Conns /\ AtRest
    BY <1>11 DEF Hook, At, LocalOK, Registering, AtRest, poolVars
  <2>1. CASE Raise(th, frame[th].conn)
    <3>1. Leaves(th, h, frame[th].conn, NoTx, "failed")
      BY <1>c, <1>e, <2>0, <2>1, RaiseEffect DEF Leaves, AtRest
    <3> QED BY <2>0, <3>1 DEF HandleStates
  <2>2. CASE ~Raise(th, frame[th].conn)
    BY <1>11, <2>0, <2>2 DEF Hook, Walks, Goto, Late, Opening, Searching, Registering, Stale
  <2> QED BY <2>1, <2>2
<1>12. CASE Wrap(th)
  <2>1. pc[th] = "wrap" /\ frame[th].conn \in Conns /\ frame[th].tx \in Txs /\ AtRest
    BY <1>12 DEF Wrap, At, LocalOK, AtRest, tmVars, poolVars
  <2>2. transactionMemory[frame[th].tx] = frame[th].conn
    BY <1>d, <1>f, <1>g, <2>1 DEF RememberedAt
  <2>3. Deliver(th, frame[th].conn, frame[th].tx) BY <1>12 DEF Wrap
  <2>4. Leaves(th, h, frame[th].conn, frame[th].tx, "open")
    BY <1>e, <2>1, <2>2, <2>3, DeliverEffect DEF Leaves, AtRest
  <2> QED BY <2>1, <2>4 DEF HandleStates
<1> QED BY <1>2, <1>3, <1>4, <1>5, <1>6, <1>7, <1>8, <1>9, <1>10, <1>11, <1>12 DEF OpenStep, Advance

LEMMA WalksKeeps ==
  ASSUME Base, Base', LeaseInv, NEW th \in Threads, OpenStep(th), Walks(th), Others(th)
  PROVE  LeaseInv'
<1>1. /\ \A x, t : Tied(x, t)' = Tied(x, t)
      /\ \A x : Handled(x)' = Handled(x)
  BY DEF Walks, AtRest, memVars, Tied, Handled
<1>2. pc[th] \in Opening
  BY DEF OpenStep, At, Opening, Searching, Registering, Lookup, Enter, Borrow, Probe,
       Inspect, Judge, EvictTx, EvictConn, Swap, Release, Found, Recheck, PutTx, PutConn, Enlist, Hook, Wrap, Advance, SwapRaises
<1>3. HandEffect BY <1>2 DEF HandEffect, InHand, Walks, Others
<1>4. StatusEffect BY StillStatus DEF Walks, AtRest, memVars
<1>5. Effects BY <1>1, <1>3, <1>4 DEF Effects, TieEffect, PoolEffect, HandleEffect, EnlistEffect, Walks, AtRest
<1>6. OpenerInv(th)' BY <1>2, <1>5, OpenerKept DEF Walks
<1>7. \A h \in Handles : HandleInv(h)'
  BY <1>5, HandleKept DEF Walks, AtRest, Ended
<1> QED BY <1>5, <1>6, <1>7, OpenAssembles DEF Walks

LEMMA TakesKeeps ==
  ASSUME Base, Base', LeaseInv, NEW th \in Threads, OpenStep(th), NEW c \in Conns, Takes(th, c), Others(th)
  PROVE  LeaseInv'
<1>1. /\ \A x, t : Tied(x, t)' = Tied(x, t)
      /\ \A x : Handled(x)' = Handled(x)
  BY DEF Takes, memVars, Tied, Handled
<1>2. \A o \in Threads \ {th}, x \in Conns : InHand(o, x)' => InHand(o, x)
  BY DEF InHand, Others
<1>3. \A x \in Conns : InHand(th, x)' => x = c
  BY DEF InHand, Takes
<1>4. HandEffect
  BY <1>2, <1>3 DEF HandEffect, Takes
<1>5. StatusEffect BY StillStatus DEF Takes, memVars
<1>6. PoolEffect BY DEF PoolEffect, Takes
<1>7. Effects BY <1>1, <1>4, <1>5, <1>6 DEF Effects, TieEffect, HandleEffect, EnlistEffect, Takes
<1>8. ~Handled(c)' /\ (\A u \in Txs : ~Tied(c, u)') /\ \A o \in Threads : ~InHand(o, c)
  BY <1>1 DEF LeaseInv, UnusedInv, Free, Takes
<1>9. OpenerInv(th)'
  BY <1>2, <1>8 DEF OpenerInv, Takes, Stale, Late
<1>10. \A h \in Handles : HandleInv(h)'
  BY <1>7, HandleKept DEF Takes, Ended
<1> QED BY <1>7, <1>9, <1>10, OpenAssembles DEF Takes, Opening, Searching

LEMMA RegistersKeeps ==
  ASSUME Base, Base', LeaseInv, NEW th \in Threads, OpenStep(th), Registers(th), Others(th)
  PROVE  LeaseInv'
<1> DEFINE c == frame[th].conn  t == frame[th].tx
<1>1. pc[th] \in {"putTx", "putConn", "enlist"} /\ pc[th] \in Opening /\ c \in Conns /\ t \in Txs
  BY FrameTypes DEF Registers, AsksFor, Late, Opening, Registering
<1>2. IsActive(t) /\ t # NoTx BY <1>1, CallActive, NullsAssumption
<1>3. /\ transactionMemory \in [Txs -> Conns \cup {NoConn}]
      /\ connectionMemory \in [Conns -> Txs \cup {NoTx}]
      /\ asked \in [Txs -> SUBSET Conns]
  BY DEF Base, TypeInv, TypeOK
<1>4. /\ pc[th] = "putTx" => transactionMemory[t] = NoConn
      /\ pc[th] \in {"putConn", "enlist"} => transactionMemory[t] = c
  BY <1>2 DEF Base, SoloInv, RememberedAt
<1>5. pc[th] \in {"putConn", "enlist"} => Tied(c, t) BY <1>4 DEF Tied
<1>6. \A x \in Conns, u \in Txs : Tied(x, u)' => Tied(x, u) \/ (x = c /\ u = t)
  BY <1>1, <1>3 DEF Tied, Registers, AsksFor, memVars
<1>7. TieEffect BY <1>1, <1>5, <1>6 DEF TieEffect, PutsTx, Registers, AsksFor
<1>8. HandEffect /\ PoolEffect /\ HandleEffect
  BY <1>1 DEF HandEffect, PoolEffect, HandleEffect, InHand, Handled, Registers, Others
<1>9. EnlistEffect
  BY <1>1, <1>3 DEF EnlistEffect, Registers, AsksFor
<1>10. StatusEffect
  BY <1>1, <1>3, <1>4, StillStatus, NullsAssumption DEF Registers, memVars
<1>11. Effects BY <1>7, <1>8, <1>9, <1>10 DEF Effects
<1>12. OpenerInv(th)'
  <2>1. frame'[th] = frame[th] /\ pc'[th] \notin Stale BY DEF Registers, Stale
  <2>2. pc'[th] \in Late => pc[th] \in Late \/ PutsTx(th)
    BY <2>1 DEF Registers, AsksFor, PutsTx, Late
  <2> QED BY <1>1, <1>11, <2>1, <2>2, OpenerKept DEF Registers, AsksFor, Late
<1>13. \A h \in Handles : HandleInv(h)'
  BY <1>11, HandleKept DEF Registers, Ended
<1> QED BY <1>11, <1>12, <1>13, OpenAssembles DEF Registers, Opening, Registering

LEMMA LeavesKeeps ==
  ASSUME Base, Base', LeaseInv, NEW th \in Threads, OpenStep(th), NEW h \in Handles, h = frame[th].h,
         NEW c \in Conns, NEW t \in Txs \cup {NoTx}, NEW s \in HandleStates, Leaves(th, h, c, t, s),
         Others(th), \A g \in Handles : g # h => handle'[g] = handle[g]
  PROVE  LeaseInv'
<1>1. pc[th] \in Opening
  BY DEF OpenStep, At, Opening, Searching, Registering, Lookup, Enter, Borrow, Probe,
       Inspect, Judge, EvictTx, EvictConn, Swap, Release, Found, Recheck, PutTx, PutConn, Enlist, Hook, Wrap, Advance, SwapRaises
<1>2. handle[h].state = "opening" /\ handle[h].tx = NoTx
  BY <1>1 DEF Base, LeakInv, CallOK, LeaseInv, HandleInv, Ended
<1>3. t \in Txs => Tied(c, t) /\ t = frame[th].tx
  BY NullsAssumption DEF Leaves, Tied
<1>a. ASSUME NEW x \in Conns, NEW u \in Txs, x \in asked'[u] PROVE Tied(x, u)
  <2>1. CASE x \in asked[u] BY <2>1 DEF Tied
  <2>2. CASE x \notin asked[u]
    <3>1. asked \in [Txs -> SUBSET Conns] BY DEF Base, TypeInv, TypeOK
    <3>2. pc[th] = "enlist" /\ status[u] = "active" /\ u = frame[th].tx /\ x = frame[th].conn
      BY <1>a, <2>2, <3>1 DEF Leaves, AsksFor
    <3>3. transactionMemory[u] = x
      BY <3>2, NullsAssumption DEF Base, SoloInv, RememberedAt, IsActive
    <3> QED BY <3>3 DEF Tied
  <2> QED BY <2>1, <2>2
<1>4. \A x \in Conns, u \in Txs : Tied(x, u)' => Tied(x, u)
  <2> SUFFICES ASSUME NEW x \in Conns, NEW u \in Txs, NEW g \in Handles, handle'[g].tx = u, handle'[g].conn = x
               PROVE  Tied(x, u)
    BY <1>a DEF Tied, Leaves, memVars
  <2>1. CASE g = h BY <1>3, <2>1 DEF Leaves
  <2>2. CASE g # h BY <2>2 DEF Tied
  <2> QED BY <2>1, <2>2
<1>5. HandleEffect
  <2>1. \A x \in Conns : Handled(x)' => Handled(x) \/ x = c
    BY DEF Handled, Leaves
  <2>2. frame[th].conn = c \/ (frame[th].tx \in Txs /\ Tied(c, frame[th].tx))
    BY <1>3 DEF Leaves
  <2>3. pc'[th] \notin Opening BY DEF Leaves, Opening, Searching, Registering
  <2> QED BY <1>1, <1>2, <2>1, <2>2, <2>3 DEF HandleEffect
<1>6. HandEffect
  BY DEF HandEffect, InHand, Leaves, Others, Opening, Searching, Registering
<1>7. StatusEffect BY StillStatus DEF Leaves, memVars
<1>8. TieEffect /\ PoolEffect
  BY <1>4 DEF TieEffect, PoolEffect, Leaves
<1>b. EnlistEffect
  <2>1. asked \in [Txs -> SUBSET Conns] BY DEF Base, TypeInv, TypeOK
  <2> QED BY <2>1 DEF EnlistEffect, Leaves, AsksFor
<1>9. Effects BY <1>5, <1>6, <1>7, <1>8, <1>b DEF Effects
<1>10. OpenerInv(th)' BY DEF OpenerInv, Leaves, Opening, Searching, Registering
<1>11. ASSUME NEW g \in Handles PROVE HandleInv(g)'
  <2>1. CASE g # h BY <1>9, <2>1, HandleKept DEF Leaves, Ended
  <2>2. CASE g = h
    <3>1. \A u \in Txs : h \notin closings'[u]
      BY <1>2, NullsAssumption DEF LeaseInv, HandleInv, Leaves
    <3>2. ASSUME t = NoTx, s = "open", NEW u \in Txs, Tied(c, u)' PROVE FALSE
      <4>1. c = frame[th].conn /\ pc[th] \notin Late BY <3>2, NullsAssumption DEF Leaves
      <4>2. Tied(c, u) BY <1>4, <3>2
      <4> QED BY <1>1, <4>1, <4>2 DEF LeaseInv, OpenerInv
    <3>3. Ended(h)' BY DEF Ended, Leaves
    <3> QED BY <2>2, <3>1, <3>2, <3>3 DEF HandleInv, Leaves, Free
  <2> QED BY <2>1, <2>2
<1> QED BY <1>9, <1>10, <1>11, OpenAssembles DEF Leaves

LEMMA OpenKeeps ==
  ASSUME Base, Base', LeaseInv, Fresh, NEW th \in Threads, OpenStep(th)
  PROVE  LeaseInv'
<1>1. PICK h \in Handles : h = frame[th].h BY CallHandle DEF Base
<1>2. Others(th) /\ \A g \in Handles : g # h => handle'[g] = handle[g]
  BY <1>1, Locality DEF Base, Others
<1> QED BY <1>1, <1>2, OpenShape, WalksKeeps, TakesKeeps, RegistersKeeps, LeavesKeeps

(***************************************************************************)
(* Clients that close and use connections, and calls that begin.            *)
(***************************************************************************)
Quiet(th) ==
  /\ UNCHANGED <<status, assoc, asked, enlisted, memVars, unused>> /\ Others(th)
  /\ \A h \in Handles :
       /\ handle'[h].conn = handle[h].conn /\ handle'[h].tx = handle[h].tx
       /\ handle'[h].state = "open" => handle[h].state = "open"
       /\ Ended(h) => Ended(h)'
       /\ \A t \in Txs : h \in closings'[t] => h \in closings[t] \/ handle[h].tx = t
  /\ pc[th] \notin Opening \cup {"completing"} /\ pc'[th] # "completing"
  /\ pc'[th] \in Opening => pc'[th] \in {"lookup", "borrow"} /\ frame'[th].conn = NoConn

GivesBack(c) ==
  /\ lent' = lent \ {c}
  /\ \E h \in Handles :
       /\ handle[h].conn = c
       /\ \/ handle[h].tx = NoTx /\ handle[h].state = "open"
          \/ handle[h].tx \in Txs /\ status[handle[h].tx] = "done"

LEMMA Assembles ==
  ASSUME Base, Base', LeaseInv, Effects,
         \A o \in Threads : AssocInv(o)' /\ CloserInv(o)' /\ OpenerInv(o)',
         \A h \in Handles : HandleInv(h)'
  PROVE  LeaseInv'
BY UnusedKept, TxKept DEF LeaseInv

LEMMA QuietKeeps ==
  ASSUME Base, Base', LeaseInv, NEW th \in Threads, Quiet(th), CloserInv(th)',
         lent' = lent \/ \E c \in Conns : GivesBack(c)
  PROVE  LeaseInv'
<1>1. /\ \A c \in Conns, t \in Txs : Tied(c, t)' = Tied(c, t)
      /\ \A c \in Conns : Handled(c)' = Handled(c)
  BY DEF Quiet, memVars, Tied, Handled
<1>2. HandEffect
  BY NullsAssumption DEF HandEffect, InHand, Quiet, Others
<1>3. StatusEffect BY StillStatus DEF Quiet, memVars
<1>4. PoolEffect BY DEF PoolEffect, Quiet, GivesBack
<1>5. Effects BY <1>1, <1>2, <1>3, <1>4 DEF Effects, TieEffect, HandleEffect, EnlistEffect, Quiet
<1>6. \A h \in Handles : HandleInv(h)'
  BY <1>5, HandleKept DEF Quiet
<1>7. ASSUME NEW o \in Threads PROVE AssocInv(o)' /\ CloserInv(o)' /\ OpenerInv(o)'
  <2>1. CASE o # th
    BY <1>5, <2>1, AssocKept, CloserKept, OpenerKept DEF Quiet, Others
  <2>2. CASE o = th
    <3>1. AssocInv(th)' BY AssocKept DEF Quiet
    <3>2. OpenerInv(th)' BY NullsAssumption DEF Quiet, OpenerInv, Stale
    <3> QED BY <2>2, <3>1, <3>2
  <2> QED BY <2>1, <2>2
<1> QED BY <1>5, <1>6, <1>7, Assembles

\* Whoever closes a wrapper does so in its transaction or after the outcome.
LEMMA CloserKnows ==
  ASSUME Base, LeaseInv, NEW th \in Threads, pc[th] \in Closing, NEW h \in Handles, h = frame[th].h
  PROVE  /\ handle[h].tx \in Txs /\ handle[h].conn = frame[th].conn /\ frame[th].conn \in Conns
         /\ IsActive(handle[h].tx) \/ status[handle[h].tx] = "done"
         /\ connectionMemory[frame[th].conn] \in {handle[h].tx, NoTx}
         /\ Ended(h)
<1>1. /\ handle[h].tx \in Txs /\ handle[h].conn = frame[th].conn
      /\ assoc[th] = handle[h].tx \/ status[handle[h].tx] = "done"
  BY DEF LeaseInv, CloserInv, Base, LeakInv, CallOK
<1>2. frame[th].conn \in Conns /\ Ended(h)
  BY DEF Base, TypeInv, FrameOK, LocalOK, HandleOK
<1>3. IsActive(handle[h].tx) \/ status[handle[h].tx] = "done"
  BY <1>1, NullsAssumption DEF LeaseInv, AssocInv, Closing
<1>4. Tied(frame[th].conn, handle[h].tx) BY <1>1 DEF Tied
<1>5. connectionMemory[frame[th].conn] \in Txs \cup {NoTx}
  BY <1>2 DEF Base, TypeInv, TypeOK
<1>6. connectionMemory[frame[th].conn] \in Txs => Tied(frame[th].conn, connectionMemory[frame[th].conn])
  BY DEF Tied
<1>7. connectionMemory[frame[th].conn] \in {handle[h].tx, NoTx}
  BY <1>1, <1>2, <1>4, <1>5, <1>6 DEF LeaseInv, TxInv
<1> QED BY <1>1, <1>2, <1>3, <1>7

LEMMA UseQuiet ==
  ASSUME Base, LeaseInv, NEW th \in Threads, UseStep(th)
  PROVE  Quiet(th) /\ CloserInv(th)' /\ (lent' = lent \/ \E c \in Conns : GivesBack(c))
<1>1. PICK h \in Handles : h = frame[th].h BY CallHandle DEF Base
<1>2. Others(th) /\ \A g \in Handles : g # h => handle'[g] = handle[g]
  BY <1>1, Locality DEF Base, Others
<1>3. /\ pc \in [Threads -> Labels] /\ frame \in [Threads -> Frame] /\ frame[th] \in Frame
      /\ closings \in [Txs -> SUBSET Handles] /\ TypeInv
  BY DEF Base, TypeInv, TypeOK
<1>4. /\ UNCHANGED <<status, assoc, asked, memVars>> /\ handle'[h].tx = handle[h].tx
      /\ handle'[h].state = "open" => handle'[h] = handle[h]
      /\ pc'[th] \notin Opening
  BY <1>1, <1>3, UseLeavesMemory
<1>5. Ended(h) => Ended(h)' BY <1>1, <1>3, LocalStep
<1>6. UNCHANGED <<unused, enlisted>>
  BY DEF UseStep, CloseLookup, CloseCheck, CloseContext, CloseDefer, DemLookup, DemCheck, DemDelegate,
     Return, poolVars, tmVars
<1> DEFINE Rest == /\ pc[th] \notin Opening \cup {"completing"} /\ pc'[th] # "completing"
                   /\ handle'[h].conn = handle[h].conn
                   /\ \A t \in Txs : h \in closings'[t] => h \in closings[t] \/ handle[h].tx = t
                   /\ \A t \in Txs, g \in Handles : g # h /\ g \in closings'[t] => g \in closings[t]
<1>7. ASSUME Rest PROVE Quiet(th)
  <2> SUFFICES ASSUME NEW g \in Handles
               PROVE  /\ handle'[g].conn = handle[g].conn /\ handle'[g].tx = handle[g].tx
                      /\ handle'[g].state = "open" => handle[g].state = "open"
                      /\ Ended(g) => Ended(g)'
                      /\ \A t \in Txs : g \in closings'[t] => g \in closings[t] \/ handle[g].tx = t
    BY <1>2, <1>4, <1>6, <1>7 DEF Quiet
  <2>1. CASE g = h BY <1>4, <1>5, <1>7, <2>1
  <2>2. CASE g # h BY <1>2, <1>7, <2>2 DEF Ended
  <2> QED BY <2>1, <2>2
<1>8. CASE CloseLookup(th) \/ CloseContext(th)
  <2>1. /\ pc[th] \in {"closeLookup", "closeContext"} /\ lent' = lent /\ closings' = closings
        /\ IF connectionMemory[frame[th].conn] = NoTx
           THEN Raise(th, frame[th].conn)
           ELSE /\ SetFrame(th, [frame[th] EXCEPT !.seen = connectionMemory[frame[th].conn]])
                /\ pc'[th] \in {"closeCheck", "closeDefer"} /\ handle' = handle
    BY <1>3, <1>8 DEF CloseLookup, CloseContext, At, Goto, tmVars, poolVars
  <2>2. /\ handle[h].tx \in Txs /\ handle[h].conn = frame[th].conn
        /\ connectionMemory[frame[th].conn] \in {handle[h].tx, NoTx}
    BY <1>1, <2>1, CloserKnows DEF Closing
  <2>3. CASE connectionMemory[frame[th].conn] = NoTx
    <3>1. Raise(th, frame[th].conn) BY <2>1, <2>3
    <3>2. pc'[th] = "idle" /\ handle'[h].conn = frame[th].conn
      BY <1>1, <1>3, <3>1, RaiseEffect
    <3>3. Rest BY <2>1, <2>2, <3>2 DEF Opening, Searching, Registering
    <3> QED BY <1>7, <2>1, <3>2, <3>3 DEF CloserInv, Closing
  <2>4. CASE connectionMemory[frame[th].conn] # NoTx
    <3>1. frame'[th].h = h /\ frame'[th].seen = handle[h].tx
      BY <1>1, <1>3, <2>1, <2>2, <2>4 DEF SetFrame, Frame
    <3>2. handle[h].tx = assoc[th] \/ status[handle[h].tx] = "done"
      BY <1>1, <2>1 DEF LeaseInv, CloserInv, Closing
    <3>3. CloserInv(th)' BY <1>4, <2>1, <2>2, <2>4, <3>1, <3>2 DEF CloserInv
    <3>4. Rest BY <2>1, <2>4 DEF Opening, Searching, Registering
    <3> QED BY <1>7, <2>1, <3>3, <3>4
  <2> QED BY <2>3, <2>4
<1>9. CASE CloseCheck(th)
  <2>1. pc[th] = "closeCheck" /\ closings' = closings BY <1>9 DEF CloseCheck, At, tmVars
  <2>2. /\ handle[h].tx \in Txs /\ handle[h].conn = frame[th].conn /\ frame[th].conn \in Conns
        /\ IsActive(handle[h].tx) \/ status[handle[h].tx] = "done"
    BY <1>1, <2>1, CloserKnows DEF Closing
  <2>3. /\ frame[th].seen = handle[h].tx
        /\ assoc[th] = handle[h].tx \/ status[handle[h].tx] = "done"
    BY <1>1, <2>1 DEF LeaseInv, CloserInv, Closing
  <2>4. CASE IsActive(frame[th].seen)
    <3>1. pc'[th] = "closeContext" /\ lent' = lent /\ handle' = handle /\ frame' = frame
      BY <1>3, <1>9, <2>4 DEF CloseCheck, Goto, poolVars
    <3>2. CloserInv(th)' BY <1>1, <1>4, <2>2, <2>3, <3>1 DEF CloserInv
    <3>3. Rest BY <2>1, <3>1 DEF Opening, Searching, Registering
    <3> QED BY <1>7, <3>1, <3>2, <3>3
  <2>5. CASE ~IsActive(frame[th].seen)
    <3>1. /\ Return(frame[th].conn) /\ Leave(th)
          /\ SetHandle(h, [handle[h] EXCEPT !.state = "closed"])
      BY <1>1, <1>9, <2>5 DEF CloseCheck
    <3>2. pc'[th] = "idle" /\ handle'[h].conn = handle[h].conn
      BY <1>3, <3>1, LeaveEffect, CloseEffect
    <3>3. GivesBack(frame[th].conn) BY <2>2, <2>3, <2>5, <3>1 DEF GivesBack, Return
    <3>4. Rest BY <2>1, <3>2 DEF Opening, Searching, Registering
    <3> QED BY <1>7, <2>2, <3>2, <3>3, <3>4 DEF CloserInv, Closing
  <2> QED BY <2>4, <2>5
<1>10. CASE CloseDefer(th)
  <2>1. pc[th] = "closeDefer" /\ lent' = lent BY <1>10 DEF CloseDefer, At, poolVars
  <2>2. frame[th].seen = handle[h].tx /\ handle[h].tx \in Txs
    BY <1>1, <2>1 DEF LeaseInv, CloserInv, Closing
  <2>3. Leave(th) BY <1>10 DEF CloseDefer
  <2>4. handle'[h].conn = handle[h].conn
    BY <1>1, <1>3, <1>10, CloseEffect DEF CloseDefer
  <2>5. \/ closings' = closings
        \/ closings' = [closings EXCEPT ![handle[h].tx] = @ \cup {h}]
    BY <1>1, <1>10, <2>2 DEF CloseDefer
  <2>6. pc'[th] = "idle" BY <1>3, <2>3, LeaveEffect
  <2>7. Rest BY <1>3, <2>1, <2>2, <2>4, <2>5, <2>6 DEF Opening, Searching, Registering
  <2> QED BY <1>7, <2>1, <2>6, <2>7 DEF CloserInv, Closing
<1>11. CASE DemLookup(th) \/ DemCheck(th) \/ DemDelegate(th)
  <2>1. /\ pc[th] \in Demarcating /\ lent' = lent /\ closings' = closings /\ handle' = handle
        /\ pc'[th] \in {"idle", "demCheck", "demDelegate"}
    BY <1>3, <1>11 DEF DemLookup, DemCheck, DemDelegate, At, Goto, Leave, Demarcating, tmVars, poolVars
  <2>2. Rest BY <2>1 DEF Opening, Searching, Registering, Demarcating
  <2> QED BY <1>7, <2>1, <2>2 DEF CloserInv, Closing
<1> QED BY <1>8, <1>9, <1>10, <1>11 DEF UseStep

LEMMA UsesKeep ==
  ASSUME Base, Base', LeaseInv, Fresh, NEW th \in Threads,
         \/ UseStep(th)
         \/ \E h \in Handles : Close(th, h) \/ Demarcate(th, h)
         \/ \E h \in Handles, auth \in BOOLEAN : GetConnection(th, h, auth)
  PROVE  LeaseInv'
<1>1. /\ pc \in [Threads -> Labels] /\ frame \in [Threads -> Frame]
      /\ handle \in [Handles -> Handle] /\ TypeInv
  BY DEF Base, TypeInv, TypeOK
<1>2. ASSUME UseStep(th) PROVE LeaseInv'
  BY <1>2, UseQuiet, QuietKeeps
<1>3. ASSUME NEW h \in Handles, Close(th, h) PROVE LeaseInv'
  <2>1. /\ pc[th] = "idle" /\ UNCHANGED <<status, assoc, asked, enlisted, closings, memVars>>
        /\ handle[h].tx = NoTx \/ assoc[th] = handle[h].tx
             \/ (handle[h].tx # NoTx /\ status[handle[h].tx] = "done")
    BY <1>3 DEF Close, CanUse, At, tmVars, Fresh
  <2>2. CASE handle[h].tx = NoTx
    <3>1. /\ handle[h].state = "open" /\ Return(handle[h].conn) /\ pc' = pc /\ frame' = frame
          /\ SetHandle(h, [handle[h] EXCEPT !.state = "closed"])
      BY <1>3, <2>2 DEF Close
    <3>2. handle[h].conn \in Conns BY <3>1 DEF Base, TypeInv, HandleOK, Ended
    <3>3. GivesBack(handle[h].conn) BY <2>2, <3>1 DEF GivesBack, Return
    <3>4. /\ handle'[h].state = "closed" /\ handle'[h].conn = handle[h].conn /\ handle'[h].tx = handle[h].tx
          /\ \A g \in Handles : g # h => handle'[g] = handle[g]
      BY <1>1, <3>1, CloseEffect DEF SetHandle
    <3>5. Quiet(th) /\ CloserInv(th)'
      BY <2>1, <3>1, <3>4 DEF Quiet, Others, Return, Ended, CloserInv, Opening, Searching, Registering, Closing
    <3> QED BY <3>2, <3>3, <3>5, QuietKeeps
  <2>3. CASE handle[h].tx # NoTx
    <3>1. /\ handle' = handle /\ lent' = lent /\ unused' = unused
          /\ Goto(th, "closeLookup") /\ SetFrame(th, [Blank EXCEPT !.h = h, !.conn = handle[h].conn])
      BY <1>3, <2>3 DEF Close, poolVars
    <3>2. pc'[th] = "closeLookup" /\ frame'[th].h = h /\ Others(th)
      BY <1>1, <3>1 DEF Goto, SetFrame, Blank, Others
    <3>3. handle[h].tx \in Txs BY <1>1, <2>3 DEF Handle
    <3>4. CloserInv(th)' BY <2>1, <2>3, <3>1, <3>2, <3>3 DEF CloserInv
    <3>5. Quiet(th)
      BY <2>1, <3>1, <3>2 DEF Quiet, Ended, Opening, Searching, Registering
    <3> QED BY <3>1, <3>4, <3>5, QuietKeeps
  <2> QED BY <2>2, <2>3
<1>4. ASSUME NEW h \in Handles, Demarcate(th, h) PROVE LeaseInv'
  <2>1. /\ pc[th] = "idle" /\ UNCHANGED <<status, assoc, asked, enlisted, closings, memVars, handle, lent, unused>>
        /\ Goto(th, "demLookup") /\ SetFrame(th, [Blank EXCEPT !.h = h, !.conn = handle[h].conn])
    BY <1>4 DEF Demarcate, At, tmVars, poolVars
  <2>2. pc'[th] = "demLookup" /\ Others(th)
    BY <1>1, <2>1 DEF Goto, SetFrame, Others
  <2>3. Quiet(th) /\ CloserInv(th)'
    BY <2>1, <2>2 DEF Quiet, Ended, CloserInv, Closing, Opening, Searching, Registering
  <2> QED BY <2>1, <2>3, QuietKeeps
<1>5. ASSUME NEW h \in Handles, NEW auth \in BOOLEAN, GetConnection(th, h, auth) PROVE LeaseInv'
  <2> DEFINE t == IF IsActive(assoc[th]) THEN assoc[th] ELSE NoTx
  <2>1. /\ pc[th] = "idle" /\ UNCHANGED <<status, assoc, asked, enlisted, closings, memVars, lent, unused>>
        /\ handle[h].state = "unused"
        /\ Goto(th, IF t = NoTx THEN "borrow" ELSE "lookup")
        /\ SetFrame(th, [Blank EXCEPT !.h = h, !.auth = auth, !.tx = t])
        /\ SetHandle(h, [handle[h] EXCEPT !.state = "opening", !.owner = th])
    BY <1>5 DEF GetConnection, At, tmVars, poolVars
  <2>2. /\ pc'[th] \in {"borrow", "lookup"} /\ frame'[th].conn = NoConn /\ Others(th)
    BY <1>1, <2>1 DEF Goto, SetFrame, Blank, Others
  <2>3. /\ handle'[h].state = "opening" /\ handle'[h].conn = handle[h].conn /\ handle'[h].tx = handle[h].tx
        /\ \A g \in Handles : g # h => handle'[g] = handle[g]
    BY <1>1, <2>1 DEF SetHandle, Handle
  <2>4. Quiet(th) /\ CloserInv(th)'
    BY <2>1, <2>2, <2>3 DEF Quiet, Ended, CloserInv, Closing, Opening, Searching, Registering
  <2> QED BY <2>1, <2>4, QuietKeeps
<1> QED BY <1>2, <1>3, <1>4, <1>5

(***************************************************************************)
(* The transaction manager.                                                *)
(***************************************************************************)
Manages ==
  /\ UNCHANGED <<asked, enlisted, unused, handle, frame>>
  /\ lent' = lent \/ \E c \in Conns : GivesBack(c)
  /\ \A t \in Txs : closings'[t] \subseteq closings[t]
  /\ \A o \in Threads : pc'[o] = pc[o] \/ {pc[o], pc'[o]} \subseteq {"idle", "completing"}
  /\ \A o \in Threads : assoc'[o] = assoc[o] \/ pc[o] \in {"idle", "completing"}
  /\ \A t \in Txs, c \in Conns : /\ transactionMemory'[t] = c => transactionMemory[t] = c
                                 /\ connectionMemory'[c] = t => connectionMemory[c] = t

LEMMA ManagesKeeps ==
  ASSUME Base, Base', LeaseInv, Manages, StatusEffect, \A o \in Threads : AssocInv(o)'
  PROVE  LeaseInv'
<1>1. /\ \A c \in Conns, t \in Txs : Tied(c, t)' => Tied(c, t)
      /\ \A c \in Conns : Handled(c)' = Handled(c)
  BY DEF Manages, Tied, Handled
<1>2. HandEffect
  BY DEF HandEffect, InHand, Manages, Opening, Searching, Registering
<1>3. PoolEffect BY DEF PoolEffect, Manages, GivesBack
<1>4. Effects BY <1>1, <1>2, <1>3 DEF Effects, TieEffect, HandleEffect, EnlistEffect, Manages
<1>5. \A h \in Handles : HandleInv(h)'
  <2> SUFFICES ASSUME NEW h \in Handles PROVE HandleInv(h)' OBVIOUS
  <2>1. handle'[h] = handle[h] /\ (Ended(h) => Ended(h)') BY DEF Manages, Ended
  <2>2. \A t \in Txs : h \in closings'[t] => h \in closings[t] BY DEF Manages
  <2> QED BY <1>4, <2>1, <2>2, HandleKept
<1>6. ASSUME NEW o \in Threads PROVE CloserInv(o)' /\ OpenerInv(o)'
  <2>1. frame'[o] = frame[o] BY DEF Manages
  <2>2. CASE pc[o] \in {"idle", "completing"}
    <3>1. pc'[o] \in {"idle", "completing"} BY <2>2 DEF Manages
    <3> QED BY <3>1 DEF CloserInv, OpenerInv, Opening, Searching, Registering, Closing
  <2>3. CASE pc[o] \notin {"idle", "completing"}
    <3>1. pc'[o] = pc[o] /\ assoc'[o] = assoc[o] BY <2>3 DEF Manages
    <3> QED BY <1>4, <2>1, <3>1, CloserKept, OpenerKept
  <2> QED BY <2>2, <2>3
<1> QED BY <1>4, <1>5, <1>6, Assembles

\* What the manager does, for itself or on a client's call.
ManagerStep ==
  \/ \E th \in Threads :
       \/ \E t \in Txs : Begin(th, t) \/ Resume(th, t)
       \/ Suspend(th) \/ Complete(th) \/ Completed(th)
  \/ \E t \in Txs : MarkRollback(t) \/ TimeOut(t) \/ CompletionStep(t)
  \/ UNCHANGED vars

LEMMA ManagerKeeps ==
  ASSUME Base, Base', LeaseInv, Fresh, ManagerStep
  PROVE  LeaseInv'
<1>1. /\ status \in [Txs -> Statuses] /\ assoc \in [Threads -> Txs \cup {NoTx}]
      /\ pc \in [Threads -> Labels] /\ closings \in [Txs -> SUBSET Handles]
      /\ transactionMemory \in [Txs -> Conns \cup {NoConn}]
      /\ connectionMemory \in [Conns -> Txs \cup {NoTx}]
      /\ \A t \in Txs : t # NoTx
      /\ \A c \in Conns : c # NoConn
  BY NullsAssumption DEF Base, TypeInv, TypeOK
<1>2. /\ \A o \in Threads : AssocInv(o)
      /\ \A o, p \in Threads : assoc[o] = assoc[p] /\ assoc[o] # NoTx => o = p
      /\ \A o \in Threads, t \in Txs : status[t] = "none" => assoc[o] # t
  BY DEF LeaseInv, Base, SoloInv, Solo, Begun
<1>3. ASSUME NEW th \in Threads, NEW t \in Txs, Begin(th, t)
      PROVE  Manages /\ StatusEffect /\ \A o \in Threads : AssocInv(o)'
  <2>1. /\ pc[th] = "idle" /\ status[t] = "none"
        /\ status' = [status EXCEPT ![t] = "active"] /\ assoc' = [assoc EXCEPT ![th] = t]
        /\ UNCHANGED <<asked, enlisted, unused, handle, frame, lent, closings, pc, transactionMemory, connectionMemory>>
    BY <1>3 DEF Begin, At, poolVars, memVars
  <2>2. Manages BY <1>1, <2>1 DEF Manages
  <2>3. StatusEffect BY <1>1, <2>1 DEF StatusEffect, IsActive, Lease!Unresolved
  <2>4. \A o \in Threads : AssocInv(o)' BY <1>1, <1>2, <2>1 DEF AssocInv, IsActive
  <2> QED BY <2>2, <2>3, <2>4
<1>4. ASSUME NEW th \in Threads, NEW t \in Txs \cup {NoTx}, pc[th] = "idle", t # NoTx => IsActive(t),
             assoc' = [assoc EXCEPT ![th] = t],
             UNCHANGED <<status, asked, enlisted, unused, handle, frame, lent, closings, pc, transactionMemory, connectionMemory>>
      PROVE  Manages /\ StatusEffect /\ \A o \in Threads : AssocInv(o)'
  <2>1. Manages BY <1>1, <1>4 DEF Manages
  <2>2. StatusEffect BY <1>4, StillStatus
  <2>3. \A o \in Threads : AssocInv(o)' BY <1>1, <1>2, <1>4 DEF AssocInv, IsActive
  <2> QED BY <2>1, <2>2, <2>3
<1>5. ASSUME NEW th \in Threads, Complete(th)
      PROVE  Manages /\ StatusEffect /\ \A o \in Threads : AssocInv(o)'
  <2>1. PICK t \in Txs : t = assoc[th] /\ IsActive(t)
    BY <1>1, <1>5 DEF Complete, IsActive
  <2>2. /\ pc[th] = "idle" /\ pc' = [pc EXCEPT ![th] = "completing"]
        /\ status' = [status EXCEPT ![t] = "completing"]
        /\ UNCHANGED <<asked, enlisted, unused, handle, frame, lent, closings, assoc, transactionMemory, connectionMemory>>
    BY <1>5, <2>1 DEF Complete, At, Goto, poolVars, memVars
  <2>3. Manages BY <1>1, <2>2 DEF Manages
  <2>4. StatusEffect BY <1>1, <2>1, <2>2 DEF StatusEffect, IsActive, Lease!Unresolved
  <2>5. ASSUME NEW o \in Threads PROVE AssocInv(o)'
    <3>1. CASE o = th BY <1>1, <2>1, <2>2, <3>1 DEF AssocInv
    <3>2. CASE o # th
      <4>1. assoc[o] # t BY <1>1, <1>2, <2>1, <3>2
      <4> QED BY <1>1, <1>2, <2>2, <3>2, <4>1 DEF AssocInv, IsActive
    <3> QED BY <3>1, <3>2
  <2> QED BY <2>3, <2>4, <2>5
<1>6. ASSUME NEW th \in Threads, Completed(th)
      PROVE  Manages /\ StatusEffect /\ \A o \in Threads : AssocInv(o)'
  <2>1. /\ pc[th] = "completing" /\ pc' = [pc EXCEPT ![th] = "idle"] /\ assoc' = [assoc EXCEPT ![th] = NoTx]
        /\ UNCHANGED <<status, asked, enlisted, unused, handle, frame, lent, closings, transactionMemory, connectionMemory>>
    BY <1>6 DEF Completed, At, Goto, poolVars, memVars
  <2>2. Manages BY <1>1, <2>1 DEF Manages
  <2>3. StatusEffect BY <2>1, StillStatus
  <2>4. \A o \in Threads : AssocInv(o)' BY <1>1, <1>2, <2>1 DEF AssocInv, IsActive
  <2> QED BY <2>2, <2>3, <2>4
<1>7. ASSUME NEW t \in Txs, MarkRollback(t) \/ Resolve(t)
      PROVE  Manages /\ StatusEffect /\ \A o \in Threads : AssocInv(o)'
  <2>1. /\ \/ status[t] = "active" /\ status' = [status EXCEPT ![t] = "marked"]
           \/ status[t] = "completing" /\ status' = [status EXCEPT ![t] = "done"]
        /\ UNCHANGED <<asked, enlisted, unused, handle, frame, lent, closings, assoc, pc, transactionMemory, connectionMemory>>
    BY <1>7 DEF MarkRollback, Resolve, poolVars, memVars
  <2>2. Manages BY <1>1, <2>1 DEF Manages
  <2>3. StatusEffect BY <1>1, <2>1 DEF StatusEffect, IsActive, Lease!Unresolved
  <2>4. \A o \in Threads : AssocInv(o)' BY <1>1, <1>2, <2>1 DEF AssocInv, IsActive
  <2> QED BY <2>2, <2>3, <2>4
<1>8. ASSUME NEW t \in Txs, NEW c \in Conns, RunTermination(t, c)
      PROVE  Manages /\ StatusEffect /\ \A o \in Threads : AssocInv(o)'
  <2>1. /\ status[t] = "done" /\ transactionMemory' = [transactionMemory EXCEPT ![t] = NoConn]
        /\ UNCHANGED <<status, asked, enlisted, unused, handle, frame, lent, closings, assoc, pc, connectionMemory>>
    BY <1>8 DEF RunTermination, poolVars
  <2>2. Manages BY <1>1, <2>1 DEF Manages
  <2>3. StatusEffect BY <1>1, <2>1, StillStatus DEF IsActive
  <2>4. \A o \in Threads : AssocInv(o)' BY <1>2, <2>1 DEF AssocInv, IsActive
  <2> QED BY <2>2, <2>3, <2>4
<1>9. ASSUME NEW t \in Txs, ForgetConn(t)
      PROVE  Manages /\ StatusEffect /\ \A o \in Threads : AssocInv(o)'
  <2>1. /\ connectionMemory' = [connectionMemory EXCEPT ![forgetting[t]] = NoTx]
        /\ UNCHANGED <<status, asked, enlisted, unused, handle, frame, lent, closings, assoc, pc, transactionMemory>>
    BY <1>9 DEF ForgetConn, poolVars
  <2>2. Manages BY <1>1, <2>1 DEF Manages
  <2>3. StatusEffect BY <2>1, StillStatus
  <2>4. \A o \in Threads : AssocInv(o)' BY <1>2, <2>1 DEF AssocInv, IsActive
  <2> QED BY <2>2, <2>3, <2>4
<1>10. ASSUME NEW t \in Txs, NEW h \in Handles, RunClosing(t, h)
       PROVE  Manages /\ StatusEffect /\ \A o \in Threads : AssocInv(o)'
  <2>1. /\ status[t] = "done" /\ h \in closings[t] /\ closings' = [closings EXCEPT ![t] = @ \ {h}]
        /\ Return(handle[h].conn)
        /\ UNCHANGED <<status, asked, enlisted, handle, frame, assoc, pc, transactionMemory, connectionMemory>>
    BY <1>10 DEF RunClosing, memVars
  <2>2. handle[h].tx = t BY <2>1 DEF LeaseInv, HandleInv
  <2>3. handle[h].conn \in Conns
    BY <1>1, <2>2 DEF LeaseInv, HandleInv, Base, TypeInv, HandleOK
  <2>4. GivesBack(handle[h].conn) BY <2>1, <2>2 DEF GivesBack, Return
  <2>5. Manages BY <1>1, <2>1, <2>3, <2>4 DEF Manages, Return
  <2>6. StatusEffect BY <2>1, StillStatus
  <2>7. \A o \in Threads : AssocInv(o)' BY <1>2, <2>1 DEF AssocInv, IsActive
  <2> QED BY <2>5, <2>6, <2>7
<1>11. CASE UNCHANGED vars
  <2>1. UNCHANGED <<status, assoc, pc, asked, enlisted, unused, handle, frame, lent, closings, transactionMemory, connectionMemory>>
    BY <1>11 DEF vars, tmVars, poolVars, memVars
  <2>2. Manages BY <2>1 DEF Manages
  <2>3. StatusEffect BY <2>1, StillStatus
  <2>4. \A o \in Threads : AssocInv(o)' BY <1>2, <2>1 DEF AssocInv, IsActive
  <2> QED BY <2>2, <2>3, <2>4, ManagesKeeps
<1>12. ASSUME NEW th \in Threads, Suspend(th) \/ \E t \in Txs : Resume(th, t)
       PROVE  Manages /\ StatusEffect /\ \A o \in Threads : AssocInv(o)'
  <2>1. PICK t \in Txs \cup {NoTx} :
          /\ pc[th] = "idle" /\ (t # NoTx => IsActive(t)) /\ assoc' = [assoc EXCEPT ![th] = t]
          /\ UNCHANGED <<status, asked, enlisted, unused, handle, frame, lent, closings, pc, transactionMemory, connectionMemory>>
    BY <1>12 DEF Suspend, Resume, At, poolVars, memVars
  <2> QED BY <1>4, <2>1
<1>13. ASSUME NEW t \in Txs, TimeOut(t) PROVE FALSE
  BY <1>13 DEF TimeOut, Fresh
<1> QED
  BY <1>3, <1>5, <1>6, <1>7, <1>8, <1>9, <1>10, <1>11, <1>12, <1>13, ManagesKeeps DEF ManagerStep, CompletionStep

LEMMA NextSteps ==
  ASSUME [Next]_vars
  PROVE  \/ ManagerStep
         \/ \E th \in Threads :
              \/ OpenStep(th) \/ UseStep(th)
              \/ \E h \in Handles : Close(th, h) \/ Demarcate(th, h)
              \/ \E h \in Handles, auth \in BOOLEAN : GetConnection(th, h, auth)
<1>1. ASSUME NEW th \in Threads, ClientCall(th)
      PROVE  \/ ManagerStep
             \/ \E h \in Handles : Close(th, h) \/ Demarcate(th, h)
             \/ \E h \in Handles, auth \in BOOLEAN : GetConnection(th, h, auth)
  <2>1. \A S : OneOf(S) \subseteq S BY DEF OneOf
  <2>2. ASSUME NEW h \in OneOf({x \in Handles : handle[x].state = "unused"}), NEW auth \in Variants,
               GetConnection(th, h, auth)
        PROVE  \E g \in Handles, a \in BOOLEAN : GetConnection(th, g, a)
    <3>1. h \in Handles /\ auth \in BOOLEAN BY <2>1, EnvironmentAssumption
    <3> QED BY <2>2, <3>1
  <2> QED BY <1>1, <2>2 DEF ClientCall, ManagerStep
<1> QED BY <1>1 DEF Next, ManagerStep

LEMMA LeaseStep ==
  ASSUME Base, Base', LeaseInv, Fresh, [Next]_vars
  PROVE  LeaseInv'
BY NextSteps, ManagerKeeps, UsesKeep, OpenKeeps

LEMMA LeaseInit == Init => LeaseInv
<1> SUFFICES ASSUME Init PROVE LeaseInv OBVIOUS
<1>1. \A c \in Conns, t \in Txs : ~Tied(c, t)
  BY NullsAssumption DEF Init, Tied, NewHandle
<1>2. \A c \in Conns : ~Handled(c)
  BY NullsAssumption DEF Init, Handled, NewHandle
<1>3. \A th \in Threads : AssocInv(th) /\ CloserInv(th) /\ OpenerInv(th) /\ \A c \in Conns : ~InHand(th, c)
  BY DEF Init, AssocInv, CloserInv, OpenerInv, InHand, Opening, Searching, Registering, Closing
<1>4. \A h \in Handles : HandleInv(h)
  BY DEF Init, HandleInv, NewHandle
<1>5. \A t \in Txs : TxInv(t)
  BY <1>1 DEF Init, TxInv, IsActive, Lease!Unresolved
<1>6. \A c \in Conns : UnusedInv(c)
  BY <1>1, <1>2, <1>3 DEF Init, UnusedInv, Free
<1> QED BY <1>3, <1>4, <1>5, <1>6 DEF LeaseInv

LEMMA LeaseAlways == ASSUME Fresh PROVE Spec => [](Base /\ LeaseInv)
<1>1. Spec => []Base BY SoloAlways, AskedAlways, PTL DEF Fresh, Base
<1>2. Init => LeaseInv BY LeaseInit
<1>3. Base /\ Base' /\ LeaseInv /\ [Next]_vars => LeaseInv' BY LeaseStep
<1> QED BY <1>1, <1>2, <1>3, PTL DEF Spec

(***************************************************************************)
(* Every step is a step of the lease.                                      *)
(***************************************************************************)
LeaseNext == [Lease!Next]_(Lease!vars)

LEMMA InUseSame ==
  ASSUME \A t \in Txs : IsActive(t)' <=> IsActive(t),
         \A h \in Handles, t \in Txs : IsActive(t) => (OpenIn(h, t)' <=> OpenIn(h, t)),
         \A h \in Handles, t \in Txs : IsActive(t) /\ OpenIn(h, t) => handle'[h].conn = handle[h].conn
  PROVE  InUse' = InUse
<1>1. ASSUME NEW t \in Txs
      PROVE  (IF IsActive(t) THEN {handle[h].conn : h \in {x \in Handles : OpenIn(x, t)}} ELSE {})'
             = IF IsActive(t) THEN {handle[h].conn : h \in {x \in Handles : OpenIn(x, t)}} ELSE {}
  <2>1. CASE IsActive(t)
    <3>1. {x \in Handles : OpenIn(x, t)}' = {x \in Handles : OpenIn(x, t)} BY <2>1
    <3>2. {handle[h].conn : h \in {x \in Handles : OpenIn(x, t)}}'
          = {handle[h].conn : h \in {x \in Handles : OpenIn(x, t)}}
      BY <2>1, <3>1
    <3> QED BY <2>1, <3>2
  <2>2. CASE ~IsActive(t) BY <2>2
  <2> QED BY <2>1, <2>2
<1> QED BY <1>1 DEF InUse

\* What an active transaction has in use is what transactionMemory has for it.
LEMMA InUseBound ==
  ASSUME Base, NEW t \in Txs
  PROVE  InUse[t] \subseteq {transactionMemory[t]}
BY DEF InUse, Base, SoloInv, OpenIsRemembered

LEMMA ReturnMaps ==
  ASSUME Base, LeaseInv, NEW c \in Conns, GivesBack(c), UNCHANGED <<status, asked, enlisted>>, InUse' = InUse
  PROVE  LeaseNext
<1>1. PICK h \in Handles : /\ handle[h].conn = c
                          /\ \/ handle[h].tx = NoTx /\ handle[h].state = "open"
                             \/ handle[h].tx \in Txs /\ status[handle[h].tx] = "done"
  BY DEF GivesBack
<1>2. ASSUME NEW t \in Txs, Lease!Unresolved(t), c \in asked[t] PROVE FALSE
  <2>1. Tied(c, t) BY <1>2 DEF Tied
  <2>2. CASE handle[h].tx = NoTx /\ handle[h].state = "open"
    BY <1>1, <2>1, <2>2 DEF LeaseInv, HandleInv, Free
  <2>3. CASE handle[h].tx \in Txs /\ status[handle[h].tx] = "done"
    <3>1. Tied(c, handle[h].tx) BY <1>1, <2>3 DEF Tied
    <3>2. handle[h].tx = t BY <2>1, <2>3, <3>1 DEF LeaseInv, TxInv
    <3> QED BY <1>2, <2>3, <3>2 DEF Lease!Unresolved
  <2> QED BY <1>1, <2>2, <2>3
<1>3. Lease!Return(c) BY <1>2 DEF Lease!Return, GivesBack
<1> QED BY <1>3 DEF LeaseNext, Lease!Next

LEMMA QuietMaps ==
  ASSUME Base, LeaseInv, NEW th \in Threads, Quiet(th),
         NEW h \in Handles, \A g \in Handles : g # h => handle'[g] = handle[g],
         \/ lent' = lent
         \/ /\ \E c \in Conns : GivesBack(c)
            /\ handle[h].tx \in Txs => status[handle[h].tx] = "done"
  PROVE  LeaseNext
<1>1. /\ UNCHANGED <<status, asked, enlisted>> /\ \A t \in Txs : IsActive(t)' <=> IsActive(t)
      /\ handle'[h].conn = handle[h].conn /\ handle'[h].tx = handle[h].tx
      /\ handle'[h].state = "open" => handle[h].state = "open"
  BY DEF Quiet, IsActive
<1>2. \A g \in Handles, t \in Txs : g # h \/ handle[h].tx # t => (OpenIn(g, t)' <=> OpenIn(g, t))
  BY <1>1 DEF OpenIn
<1>3. \A g \in Handles, t \in Txs : OpenIn(g, t)' => OpenIn(g, t)
  BY <1>1, <1>2 DEF OpenIn
<1>4. \A g \in Handles : handle'[g].conn = handle[g].conn BY <1>1
<1>5. CASE /\ \E c \in Conns : GivesBack(c)
           /\ handle[h].tx \in Txs => status[handle[h].tx] = "done"
  <2>1. InUse' = InUse
    <3>1. \A t \in Txs : IsActive(t) => handle[h].tx # t BY <1>5 DEF IsActive
    <3> QED BY <1>1, <1>2, <1>4, <3>1, InUseSame
  <2> QED BY <1>1, <1>5, <2>1, ReturnMaps
<1>6. CASE lent' = lent
  <2>1. CASE InUse' = InUse BY <1>1, <1>6, <2>1 DEF LeaseNext, Lease!vars
  <2>2. CASE InUse' # InUse
    <3>1. handle[h].tx \in Txs BY <1>1, <1>2, <1>4, <2>2, InUseSame
    <3> DEFINE t == handle[h].tx
    <3>2. \A u \in Txs : InUse'[u] \subseteq InUse[u]
      BY <1>1, <1>3, <1>4 DEF InUse
    <3>3. ASSUME NEW u \in Txs, u # t PROVE InUse'[u] = InUse[u]
      <4>1. InUse[u] \subseteq InUse'[u]
        BY <1>1, <1>2, <1>4, <3>3 DEF InUse
      <4> QED BY <3>2, <4>1
    <3>4. InUse[t] \subseteq {transactionMemory[t]} BY <3>1, InUseBound
    <3>5. InUse'[t] = InUse[t] \/ InUse'[t] = {} BY <3>1, <3>2, <3>4
    <3>6. /\ InUse = [u \in Txs |-> InUse[u]] /\ InUse' = [u \in Txs |-> InUse'[u]]
      BY DEF InUse
    <3>7. InUse'[t] = {}
      <4>1. ASSUME InUse'[t] = InUse[t] PROVE FALSE
        <5>1. \A u \in Txs : InUse'[u] = InUse[u] BY <3>3, <4>1
        <5>2. InUse' = InUse BY <3>6, <5>1
        <5> QED BY <2>2, <5>2
      <4> QED BY <3>5, <4>1
    <3>8. InUse' = [InUse EXCEPT ![t] = {}] BY <3>1, <3>3, <3>6, <3>7
    <3>9. Lease!Drop(t) BY <1>1, <1>6, <3>8 DEF Lease!Drop
    <3> QED BY <3>1, <3>9 DEF LeaseNext, Lease!Next
  <2> QED BY <2>1, <2>2
<1> QED BY <1>5, <1>6

LEMMA UsesMap ==
  ASSUME Base, LeaseInv, Fresh, NEW th \in Threads,
         \/ UseStep(th)
         \/ \E h \in Handles : Close(th, h) \/ Demarcate(th, h)
         \/ \E h \in Handles, auth \in BOOLEAN : GetConnection(th, h, auth)
  PROVE  LeaseNext
<1>1. /\ pc \in [Threads -> Labels] /\ frame \in [Threads -> Frame]
      /\ handle \in [Handles -> Handle] /\ TypeInv /\ \A t \in Txs : t # NoTx
  BY NullsAssumption DEF Base, TypeInv, TypeOK
<1>2. ASSUME UseStep(th) PROVE LeaseNext
  <2>1. PICK h \in Handles : h = frame[th].h BY <1>2, CallHandle DEF Base
  <2>2. Quiet(th) /\ (lent' = lent \/ \E c \in Conns : GivesBack(c)) BY <1>2, UseQuiet
  <2>3. \A g \in Handles : g # h => handle'[g] = handle[g] BY <1>2, <2>1, Locality DEF Base
  <2>4. ASSUME lent' # lent PROVE status[handle[h].tx] = "done"
    <3>1. pc[th] = "closeCheck" /\ ~IsActive(frame[th].seen)
      BY <1>2, <2>4 DEF UseStep, CloseLookup, CloseCheck, CloseContext, CloseDefer, DemLookup, DemCheck,
         DemDelegate, poolVars, At
    <3>2. frame[th].seen = handle[h].tx
      BY <2>1, <3>1 DEF LeaseInv, CloserInv, Closing
    <3> QED BY <2>1, <3>1, <3>2, CloserKnows DEF Closing
  <2> QED BY <2>2, <2>3, <2>4, QuietMaps
<1>3. ASSUME NEW h \in Handles, Close(th, h) PROVE LeaseNext
  <2>1. /\ pc[th] = "idle" /\ UNCHANGED <<status, assoc, asked, enlisted, closings, memVars>>
    BY <1>3 DEF Close, At, tmVars
  <2>2. CASE handle[h].tx = NoTx
    <3>1. /\ handle[h].state = "open" /\ Return(handle[h].conn) /\ pc' = pc /\ frame' = frame
          /\ SetHandle(h, [handle[h] EXCEPT !.state = "closed"])
      BY <1>3, <2>2 DEF Close
    <3>2. handle[h].conn \in Conns BY <3>1 DEF Base, TypeInv, HandleOK, Ended
    <3>3. GivesBack(handle[h].conn) BY <2>2, <3>1 DEF GivesBack, Return
    <3>4. /\ handle'[h].state = "closed" /\ handle'[h].conn = handle[h].conn /\ handle'[h].tx = handle[h].tx
          /\ \A g \in Handles : g # h => handle'[g] = handle[g]
      BY <1>1, <3>1, CloseEffect DEF SetHandle
    <3>5. Quiet(th)
      BY <2>1, <3>1, <3>4 DEF Quiet, Others, Return, Ended, Opening, Searching, Registering
    <3> QED BY <1>1, <2>2, <3>2, <3>3, <3>4, <3>5, QuietMaps
  <2>3. CASE handle[h].tx # NoTx
    <3>1. handle' = handle /\ lent' = lent BY <1>3, <2>3 DEF Close, poolVars
    <3>2. InUse' = InUse BY <2>1, <3>1 DEF InUse, IsActive, OpenIn
    <3> QED BY <2>1, <3>1, <3>2 DEF LeaseNext, Lease!vars
  <2> QED BY <2>2, <2>3
<1>4. ASSUME NEW h \in Handles, Demarcate(th, h) PROVE LeaseNext
  <2>1. UNCHANGED <<status, asked, enlisted, handle, lent>>
    BY <1>4 DEF Demarcate, tmVars, poolVars
  <2>2. InUse' = InUse BY <2>1 DEF InUse, IsActive, OpenIn
  <2> QED BY <2>1, <2>2 DEF LeaseNext, Lease!vars
<1>5. ASSUME NEW h \in Handles, NEW auth \in BOOLEAN, GetConnection(th, h, auth) PROVE LeaseNext
  <2>1. /\ UNCHANGED <<status, asked, enlisted, lent>> /\ handle[h].state = "unused"
        /\ SetHandle(h, [handle[h] EXCEPT !.state = "opening", !.owner = th])
    BY <1>5 DEF GetConnection, tmVars, poolVars
  <2>2. /\ handle'[h].state = "opening" /\ \A g \in Handles : g # h => handle'[g] = handle[g]
    BY <1>1, <2>1 DEF SetHandle, Handle
  <2>3. \A g \in Handles, t \in Txs : /\ OpenIn(g, t)' <=> OpenIn(g, t)
                                      /\ OpenIn(g, t) => handle'[g].conn = handle[g].conn
    BY <2>1, <2>2 DEF OpenIn
  <2>4. InUse' = InUse BY <2>1, <2>3, InUseSame DEF IsActive
  <2> QED BY <2>1, <2>4 DEF LeaseNext, Lease!vars
<1> QED BY <1>2, <1>3, <1>4, <1>5

LEMMA ManagerMaps ==
  ASSUME Base, LeaseInv, Fresh, ManagerStep
  PROVE  LeaseNext
<1>1. /\ status \in [Txs -> Statuses] /\ \A t \in Txs : t # NoTx
  BY NullsAssumption DEF Base, TypeInv, TypeOK
<1> DEFINE Steady == UNCHANGED <<status, asked, enlisted, lent, handle>>
<1>2. ASSUME Steady PROVE LeaseNext
  <2>1. InUse' = InUse BY <1>2 DEF InUse, IsActive, OpenIn
  <2> QED BY <1>2, <2>1 DEF LeaseNext, Lease!vars
<1>3. ASSUME NEW th \in Threads, NEW t \in Txs, Begin(th, t) PROVE LeaseNext
  <2>1. /\ status[t] = "none" /\ status' = [status EXCEPT ![t] = "active"]
        /\ UNCHANGED <<asked, enlisted, lent, handle>>
    BY <1>3 DEF Begin, poolVars
  <2>2. \A h \in Handles : handle[h].tx # t BY <2>1 DEF Base, SoloInv, Begun
  <2>3. InUse' = InUse
    <3>1. \A u \in Txs : u # t => (IsActive(u)' <=> IsActive(u)) BY <1>1, <2>1 DEF IsActive
    <3>2. \A h \in Handles, u \in Txs : OpenIn(h, u)' <=> OpenIn(h, u) BY <2>1 DEF OpenIn
    <3>3. \A h \in Handles : ~OpenIn(h, t) BY <2>2 DEF OpenIn
    <3>4. \A u \in Txs : InUse'[u] = InUse[u]
      BY <1>1, <2>1, <3>1, <3>2, <3>3 DEF InUse
    <3> QED BY <3>4 DEF InUse
  <2>4. Lease!Begin(t) BY <2>1, <2>3 DEF Lease!Begin
  <2> QED BY <2>4 DEF LeaseNext, Lease!Next
<1>4. ASSUME NEW t \in Txs, MarkRollback(t) PROVE LeaseNext
  <2>1. /\ status[t] = "active" /\ status' = [status EXCEPT ![t] = "marked"]
        /\ UNCHANGED <<asked, enlisted, lent, handle>>
    BY <1>4 DEF MarkRollback, poolVars
  <2>2. \A u \in Txs : IsActive(u)' <=> IsActive(u) BY <1>1, <2>1 DEF IsActive
  <2>3. InUse' = InUse BY <2>1, <2>2, InUseSame DEF OpenIn
  <2>4. Lease!Mark(t) BY <2>1, <2>3 DEF Lease!Mark
  <2> QED BY <2>4 DEF LeaseNext, Lease!Next
<1>5. ASSUME NEW t \in Txs, Resolve(t) PROVE LeaseNext
  <2>1. /\ status[t] = "completing" /\ status' = [status EXCEPT ![t] = "done"]
        /\ UNCHANGED <<asked, enlisted, lent, handle>>
    BY <1>5 DEF Resolve, poolVars
  <2>2. \A u \in Txs : IsActive(u)' <=> IsActive(u) BY <1>1, <2>1 DEF IsActive
  <2>3. InUse' = InUse BY <2>1, <2>2, InUseSame DEF OpenIn
  <2>4. Lease!Settle(t) BY <2>1, <2>3 DEF Lease!Settle
  <2> QED BY <2>4 DEF LeaseNext, Lease!Next
<1>6. ASSUME NEW th \in Threads, Complete(th) PROVE LeaseNext
  <2>1. PICK t \in Txs : t = assoc[th] /\ IsActive(t)
    BY <1>6 DEF Complete, IsActive, Base, TypeInv, TypeOK
  <2>2. /\ status' = [status EXCEPT ![t] = "completing"]
        /\ UNCHANGED <<asked, enlisted, lent, handle>>
    BY <1>6, <2>1 DEF Complete, poolVars
  <2>3. InUse' = [InUse EXCEPT ![t] = {}]
    <3>1. \A u \in Txs : u # t => (IsActive(u)' <=> IsActive(u)) BY <1>1, <2>2 DEF IsActive
    <3>2. \A h \in Handles, u \in Txs : OpenIn(h, u)' <=> OpenIn(h, u) BY <2>2 DEF OpenIn
    <3>3. ~IsActive(t)' BY <1>1, <2>2 DEF IsActive
    <3>4. InUse'[t] = {} BY <3>3 DEF InUse
    <3>5. \A u \in Txs : u # t => InUse'[u] = InUse[u]
      BY <2>2, <3>1, <3>2 DEF InUse
    <3> QED BY <3>4, <3>5 DEF InUse
  <2>4. Lease!End(t) BY <2>1, <2>2, <2>3 DEF Lease!End, IsActive
  <2> QED BY <2>4 DEF LeaseNext, Lease!Next
<1>7. ASSUME NEW t \in Txs, NEW h \in Handles, RunClosing(t, h) PROVE LeaseNext
  <2>1. /\ status[t] = "done" /\ h \in closings[t] /\ Return(handle[h].conn)
        /\ UNCHANGED <<status, asked, enlisted, handle>>
    BY <1>7 DEF RunClosing
  <2>2. handle[h].tx = t BY <2>1 DEF LeaseInv, HandleInv
  <2>3. handle[h].conn \in Conns
    BY <1>1, <2>2 DEF LeaseInv, HandleInv, Base, TypeInv, HandleOK
  <2>4. GivesBack(handle[h].conn) BY <2>1, <2>2 DEF GivesBack, Return
  <2>5. InUse' = InUse BY <2>1 DEF InUse, IsActive, OpenIn
  <2> QED BY <2>1, <2>3, <2>4, <2>5, ReturnMaps
<1>8. ASSUME NEW th \in Threads, Suspend(th) \/ Completed(th) \/ \E t \in Txs : Resume(th, t) PROVE Steady
  BY <1>8 DEF Suspend, Completed, Resume, poolVars
<1>9. ASSUME NEW t \in Txs, ForgetConn(t) \/ \E c \in Conns : RunTermination(t, c) PROVE Steady
  BY <1>9 DEF ForgetConn, RunTermination, poolVars
<1>10. ASSUME UNCHANGED vars PROVE Steady
  BY <1>10 DEF vars, tmVars, poolVars
<1>11. ASSUME NEW t \in Txs, TimeOut(t) PROVE FALSE
  BY <1>11 DEF TimeOut, Fresh
<1> HIDE DEF Steady
<1> QED
  BY <1>2, <1>3, <1>4, <1>5, <1>6, <1>7, <1>8, <1>9, <1>10, <1>11 DEF ManagerStep, CompletionStep

\* The one connection the transaction is asked to enlist is nobody else's.
LEMMA AsksForBinds ==
  ASSUME Base, LeaseInv, NEW th \in Threads, AsksFor(th), UNCHANGED <<status, lent>>, InUse' = InUse
  PROVE  Lease!Bind(frame[th].tx, frame[th].conn)
<1> DEFINE c == frame[th].conn  t == frame[th].tx
<1>1. pc[th] \in Opening /\ c \in Conns /\ t \in Txs
  BY FrameTypes DEF AsksFor, Late, Opening, Registering
<1>2. /\ asked[t] = {} /\ c \in lent /\ \A u \in Txs : Tied(c, u) => u = t
  BY <1>1 DEF LeaseInv, OpenerInv, AsksFor
<1>3. \A u \in Txs : c \notin asked[u] BY <1>2 DEF Tied
<1>4. asked' = [asked EXCEPT ![t] = {c}] BY <1>2 DEF AsksFor
<1> QED BY <1>2, <1>3, <1>4 DEF AsksFor, Lease!Bind

LEMMA OpenMaps ==
  ASSUME Base, Base', LeaseInv, Fresh, NEW th \in Threads, OpenStep(th)
  PROVE  LeaseNext
<1>1. PICK h \in Handles : h = frame[th].h BY CallHandle DEF Base
<1>2. \A g \in Handles : g # h => handle'[g] = handle[g]
  BY <1>1, Locality DEF Base
<1>3. CASE Walks(th)
  <2>1. InUse' = InUse BY <1>3 DEF Walks, AtRest, InUse, IsActive, OpenIn
  <2> QED BY <1>3, <2>1 DEF LeaseNext, Lease!vars, Walks, AtRest
<1>4. ASSUME NEW c \in Conns, Takes(th, c) PROVE LeaseNext
  <2>1. InUse' = InUse BY <1>4 DEF Takes, InUse, IsActive, OpenIn
  <2>2. c \notin lent BY <1>4 DEF Takes, LeaseInv, UnusedInv
  <2>3. Lease!Lend(c) BY <1>4, <2>1, <2>2 DEF Takes, Lease!Lend
  <2> QED BY <2>3 DEF LeaseNext, Lease!Next
<1>5. CASE Registers(th)
  <2> DEFINE c == frame[th].conn  t == frame[th].tx
  <2>1. pc[th] \in Opening /\ c \in Conns /\ t \in Txs
    BY <1>5, FrameTypes DEF Registers, AsksFor, Late, Opening, Registering
  <2>2. InUse' = InUse BY <1>5 DEF Registers, InUse, IsActive, OpenIn
  <2>3. CASE UNCHANGED <<asked, enlisted>>
    BY <1>5, <2>2, <2>3 DEF LeaseNext, Lease!vars, Registers
  <2>4. CASE ~UNCHANGED <<asked, enlisted>>
    <3>1. AsksFor(th) /\ enlisted' \in {enlisted, [enlisted EXCEPT ![t] = @ \cup {c}]}
      BY <1>5, <2>4 DEF Registers
    <3>2. Lease!Bind(t, c)
      BY <1>5, <2>1, <2>2, <3>1, AsksForBinds DEF Registers
    <3>3. enlisted[t] = {}
      BY <2>1, <3>1 DEF LeaseInv, OpenerInv, Base, AskedInv, AsksFor
    <3>4. Lease!Enlist(t, c) \/ Lease!Refuse(t, c)
      BY <3>1, <3>2, <3>3 DEF Lease!Enlist, Lease!Refuse
    <3> QED BY <2>1, <3>4 DEF LeaseNext, Lease!Next
  <2> QED BY <2>3, <2>4
<1>6. ASSUME NEW c \in Conns, NEW t \in Txs \cup {NoTx}, NEW s \in HandleStates, Leaves(th, h, c, t, s)
      PROVE  LeaseNext
  <2>1. UNCHANGED <<status, enlisted, lent, memVars>> BY <1>6 DEF Leaves
  <2>2. pc[th] \in Opening
    BY DEF OpenStep, At, Opening, Searching, Registering, Lookup, Enter, Borrow, Probe,
         Inspect, Judge, EvictTx, EvictConn, Swap, Release, Found, Recheck, PutTx, PutConn, Enlist, Hook, Wrap, Advance, SwapRaises
  <2>3. \A u \in Txs : ~OpenIn(h, u)
    BY <1>1, <2>2 DEF Base, LeakInv, CallOK, OpenIn
  <2>4. \A g \in Handles, u \in Txs : g # h => (OpenIn(g, u)' <=> OpenIn(g, u))
    BY <1>2 DEF OpenIn
  <2>5. CASE t = NoTx
    <3>1. \A u \in Txs : ~OpenIn(h, u)' BY <1>6, <2>5, NullsAssumption DEF Leaves, OpenIn
    <3>2. InUse' = InUse BY <1>2, <2>1, <2>3, <2>4, <3>1, InUseSame DEF IsActive
    <3>3. CASE asked' = asked BY <2>1, <3>2, <3>3 DEF LeaseNext, Lease!vars
    <3>4. CASE asked' # asked
      <4>1. AsksFor(th) BY <1>6, <3>4 DEF Leaves
      <4>2. frame[th].tx \in Txs /\ frame[th].conn \in Conns
        BY <4>1, FrameTypes DEF AsksFor, Late
      <4>3. Lease!Refuse(frame[th].tx, frame[th].conn)
        BY <2>1, <3>2, <4>1, AsksForBinds DEF Lease!Refuse
      <4> QED BY <4>2, <4>3 DEF LeaseNext, Lease!Next
    <3> QED BY <3>3, <3>4
  <2>6. CASE t \in Txs
    <3>0. asked' = asked BY <1>6, <2>6, NullsAssumption DEF Leaves
    <3>1. t = frame[th].tx /\ transactionMemory[t] = c /\ s = "open" /\ t # NoTx
      BY <1>6, <2>6, NullsAssumption DEF Leaves
    <3>2. IsActive(t) /\ IsActive(t)' BY <2>1, <2>2, <2>6, <3>1, CallActive DEF IsActive
    <3>3. OpenIn(h, t)' /\ handle'[h].conn = c BY <1>6, <3>1 DEF OpenIn, Leaves
    <3>4. c \in lent
      BY <2>6, <3>1, <3>2 DEF LeaseInv, TxInv, Tied, IsActive, Lease!Unresolved
    <3>5. status[t] = "active" => c \in asked[t]
      BY <2>1, <2>6, <3>0, <3>3 DEF Base, SoloInv, OpenIsAsked
    <3>6. InUse[t] \subseteq {c} BY <2>6, <3>1, InUseBound
    <3>7. InUse'[t] = {c}
      <4>1. Base' => \A g \in Handles : OpenIn(g, t)' => handle'[g].conn = c
        BY <2>1, <2>6, <3>1, <3>2 DEF Base, SoloInv, OpenIsRemembered, memVars
      <4> QED BY <2>6, <3>2, <3>3, <4>1 DEF InUse
    <3>8. \A u \in Txs : u # t => InUse'[u] = InUse[u]
      <4>1. \A u \in Txs : u # t => (OpenIn(h, u)' <=> OpenIn(h, u))
        BY <1>6, <2>3 DEF Leaves, OpenIn
      <4>2. \A g \in Handles, u \in Txs : u # t => (OpenIn(g, u)' <=> OpenIn(g, u))
        BY <2>4, <4>1
      <4>3. \A g \in Handles, u \in Txs : OpenIn(g, u) => handle'[g].conn = handle[g].conn
        BY <1>2, <2>3
      <4>4. \A u \in Txs : IsActive(u)' <=> IsActive(u) BY <2>1 DEF IsActive
      <4>5. ASSUME NEW u \in Txs, u # t PROVE InUse'[u] = InUse[u]
        <5>1. {x \in Handles : OpenIn(x, u)}' = {x \in Handles : OpenIn(x, u)}
          BY <4>2, <4>5
        <5>2. {handle[g].conn : g \in {x \in Handles : OpenIn(x, u)}}'
              = {handle[g].conn : g \in {x \in Handles : OpenIn(x, u)}}
          BY <4>3, <4>5, <5>1
        <5> QED BY <4>4, <5>2 DEF InUse
      <4> QED BY <4>5
    <3>9. InUse' = [InUse EXCEPT ![t] = {c}] BY <2>6, <3>7, <3>8 DEF InUse
    <3>10. Lease!HandOut(t, c)
      BY <2>1, <3>0, <3>2, <3>4, <3>5, <3>6, <3>9 DEF Lease!HandOut, IsActive
    <3> QED BY <2>6, <3>10 DEF LeaseNext, Lease!Next
  <2> QED BY <2>5, <2>6
<1> QED BY <1>1, <1>3, <1>4, <1>5, <1>6, OpenShape

\* The data source keeps the lease, for any number of threads, transactions,
\* connections and calls, with both variants of getConnection, any Capacity and
\* callbacks in any order, while a transaction has one thread, is resolved by it,
\* and the pool lends every ConnectionHandle object once: a transaction is asked to
\* enlist one connection and no second one, even when it refused the first or the
\* call raised; every getConnection in it answers that one; and nobody gives it
\* back to the pool before the outcome.
THEOREM ImplementsLease == ASSUME Fresh PROVE Spec => LeaseSpec
<1>1. Init => Lease!Init
  BY DEF Init, Lease!Init, InUse, IsActive
<1>2. ASSUME Base, Base', LeaseInv, [Next]_vars PROVE LeaseNext
  BY <1>2, NextSteps, OpenMaps, UsesMap, ManagerMaps
<1>3. Base /\ Base' /\ LeaseInv /\ [Next]_vars => [Lease!Next]_(Lease!vars)
  BY <1>2 DEF LeaseNext
<1> QED BY <1>1, <1>3, LeaseAlways, PTL DEF Spec, LeaseSpec, Lease!Spec

\* Under the same conditions the connection of a transaction whose outcome is open
\* is out of the pool: a wrapper's close is put off until the outcome is known.
THEOREM HeldUntilResolvedHolds == ASSUME Fresh PROVE Spec => []HeldUntilResolved
<1>1. ASSUME Base, LeaseInv PROVE HeldUntilResolved
  <2>1. asked \in [Txs -> SUBSET Conns] BY <1>1 DEF Base, TypeInv, TypeOK
  <2> QED BY <1>1, <2>1 DEF LeaseInv, TxInv, HeldUntilResolved, Tied, Lease!Unresolved
<1>2. Base /\ LeaseInv => HeldUntilResolved BY <1>1
<1> QED BY <1>2, LeaseAlways, PTL

(***************************************************************************)
(* What the lease amounts to.                                              *)
(***************************************************************************)
Promise == Lease!OneLease /\ Lease!Exclusive /\ Lease!WorksInside

\* A transaction that has not begun is bound to nothing and has nothing in use.
Untouched == \A t \in Txs : status[t] = "none" => asked[t] = {} /\ InUse[t] = {}

LEMMA PromiseKept ==
  ASSUME Lease!TypeOK, Lease!TypeOK', Promise, Untouched, Lease!Next
  PROVE  Promise' /\ Untouched'
<1>1. /\ status \in [Txs -> Lease!Phases] /\ asked \in [Txs -> SUBSET Conns]
      /\ enlisted \in [Txs -> SUBSET Conns] /\ InUse \in [Txs -> SUBSET Conns]
  BY DEF Lease!TypeOK
<1> USE <1>1 DEF Promise, Untouched, Lease!OneLease, Lease!Exclusive, Lease!WorksInside, Lease!Unresolved
<1>2. ASSUME NEW t \in Txs, Lease!Begin(t) PROVE Promise' /\ Untouched'
  BY <1>2 DEF Lease!Begin
<1>3. ASSUME NEW t \in Txs, Lease!Mark(t) \/ Lease!End(t) \/ Lease!Settle(t) \/ Lease!Drop(t)
      PROVE  Promise' /\ Untouched'
  BY <1>3 DEF Lease!Mark, Lease!End, Lease!Settle, Lease!Drop
<1>4. ASSUME NEW c \in Conns, Lease!Lend(c) \/ Lease!Return(c) PROVE Promise' /\ Untouched'
  BY <1>4 DEF Lease!Lend, Lease!Return
<1>5. ASSUME NEW t \in Txs, NEW c \in Conns, Lease!Enlist(t, c) \/ Lease!Refuse(t, c)
      PROVE  Promise' /\ Untouched'
  BY <1>5 DEF Lease!Enlist, Lease!Refuse, Lease!Bind
<1>6. ASSUME NEW t \in Txs, NEW c \in Conns, Lease!HandOut(t, c) PROVE Promise' /\ Untouched'
  BY <1>6 DEF Lease!HandOut
<1> QED BY <1>2, <1>3, <1>4, <1>5, <1>6 DEF Lease!Next

\* So the data source's clients have what the lease is for: a transaction takes
\* part through one connection only, no connection takes part in two transactions
\* whose outcome is open, none of theirs is in the pool, and a client of an active
\* transaction works on nothing but what takes part in it, unless the transaction
\* refused the connection: then it works on that one, outside the transaction.
THEOREM PromiseHolds == ASSUME Fresh PROVE Spec => []Promise
<1>1. Base => Lease!TypeOK
  <2> SUFFICES ASSUME Base PROVE Lease!TypeOK OBVIOUS
  <2>1. /\ status \in [Txs -> Lease!Phases] /\ lent \subseteq Conns
        /\ asked \in [Txs -> SUBSET Conns] /\ enlisted \in [Txs -> SUBSET Conns]
    BY DEF Base, TypeInv, TypeOK, Statuses, Lease!Phases
  <2>2. \A h \in Handles, t \in Txs : OpenIn(h, t) => handle[h].conn \in Conns
    BY DEF Base, TypeInv, HandleOK, Ended, OpenIn
  <2>3. InUse \in [Txs -> SUBSET Conns] BY <2>2 DEF InUse
  <2> QED BY <2>1, <2>3 DEF Lease!TypeOK
<1>2. Lease!Init => Promise /\ Untouched
  BY DEF Lease!Init, Promise, Untouched, Lease!OneLease, Lease!Exclusive, Lease!WorksInside, Lease!Unresolved
<1>3. ASSUME Promise, Untouched, UNCHANGED Lease!vars PROVE Promise' /\ Untouched'
  BY <1>3 DEF Promise, Untouched, Lease!OneLease, Lease!Exclusive, Lease!WorksInside, Lease!Unresolved, Lease!vars
<1>4. Lease!TypeOK /\ Lease!TypeOK' /\ Promise /\ Untouched /\ [Lease!Next]_(Lease!vars)
        => Promise' /\ Untouched'
  BY <1>3, PromiseKept
<1>5. Spec => Lease!Spec BY ImplementsLease DEF LeaseSpec
<1>6. Spec => []Base
  BY LeaseAlways, PTL
<1> QED BY <1>1, <1>2, <1>4, <1>5, <1>6, PTL DEF Lease!Spec

=============================================================================
