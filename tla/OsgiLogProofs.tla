--------------------------- MODULE OsgiLogProofs ---------------------------
(***************************************************************************)
(* Theorems about OsgiLog, and that it implements OrderedLog for every     *)
(* number of clients, starts and messages.                                 *)
(***************************************************************************)
EXTENDS OsgiLogOrder, TLAPS

(* From the second step of start on there is a current Log.                *)
StageInv ==
  /\ activator \in Stages \ {"down", "configured"} => current \in Logs
  /\ activator = "configured" => current < MaxStarts

TypeInv == TypeOK /\ StageInv

(* What a step that receives nothing may do to the mailboxes: add messages. *)
Grows ==
  /\ UNCHANGED <<taken, listeners, written>>
  /\ \A g \in Logs :
       /\ DOMAIN mailbox[g] \subseteq DOMAIN mailbox'[g]
       /\ \A n \in DOMAIN mailbox[g] : mailbox'[g][n] = mailbox[g][n]

(* Messages of which no client awaits an effect of its own.                 *)
Impersonal == {m \in Messages : m.kind \notin {"RegisterListener", "ListListeners"}}

AddsImpersonal ==
  \A g \in Logs : \A n \in DOMAIN mailbox'[g] \ DOMAIN mailbox[g] : mailbox'[g][n] \in Impersonal

LEMMA MessageTypes ==
  /\ \A b \in BOOLEAN : LogEntryImpl(b) \in Messages
  /\ \A c \in Clients : /\ RegisterListener(c) \in Messages
                        /\ RemoveListener(c) \in Messages
                        /\ ListListeners(c) \in Messages
  /\ RemoveAllListeners \in Messages
  /\ Own \in Messages
  BY DEF Messages, Own

LEMMA FieldTypes ==
  ASSUME NEW m \in Messages
  PROVE  /\ m.kind = "RegisterListener" => m.listener \in Clients /\ m = RegisterListener(m.listener)
         /\ m.kind = "ListListeners" => m.sender \in Clients /\ m = ListListeners(m.sender)
         /\ m.kind = "LogEntryImpl" => m.bundle \in BOOLEAN
  BY DEF Messages, LogEntryImpl, RegisterListener, RemoveListener, ListListeners, RemoveAllListeners

LEMMA SendGrows ==
  ASSUME TypeOK, NEW g \in Logs, NEW m \in Messages, Send(g, m)
  PROVE  /\ mailbox' \in [Logs -> Seq(Messages)]
         /\ \A k \in Logs :
              /\ DOMAIN mailbox[k] \subseteq DOMAIN mailbox'[k]
              /\ \A n \in DOMAIN mailbox[k] : mailbox'[k][n] = mailbox[k][n]
  BY DEF TypeOK, Send

LEMMA AppendTwo ==
  ASSUME NEW s \in Seq(Messages), NEW m \in Messages,
         NEW t, t = Append(Append(s, m), m)
  PROVE  /\ t \in Seq(Messages)
         /\ DOMAIN s \subseteq DOMAIN t
         /\ \A n \in DOMAIN s : t[n] = s[n]
<1> DEFINE a == Append(s, m)
<1>1. a \in Seq(Messages) /\ DOMAIN s \subseteq DOMAIN a /\ \A n \in DOMAIN s : a[n] = s[n]
  OBVIOUS
<1>2. /\ Append(a, m) \in Seq(Messages) /\ DOMAIN a \subseteq DOMAIN Append(a, m)
      /\ \A n \in DOMAIN a : Append(a, m)[n] = a[n]
  <2> HIDE DEF a
  <2> QED BY <1>1
<1> QED BY <1>1, <1>2

(* Two or three messages of its own that the bundle sends at once.         *)
LEMMA SendOwn ==
  ASSUME TypeOK, current \in Logs, UNCHANGED <<taken, listeners, written>>,
         \/ mailbox' = [mailbox EXCEPT ![current] = Append(Append(@, Own), Own)]
         \/ mailbox' = [mailbox EXCEPT ![current] = Append(Append(Append(@, Own), Own), Own)]
  PROVE  mailbox' \in [Logs -> Seq(Messages)] /\ Grows
<1>1. mailbox \in [Logs -> Seq(Messages)] /\ Own \in Messages
  BY MessageTypes DEF TypeOK
<1> DEFINE two == Append(Append(mailbox[current], Own), Own)
<1>2. /\ two \in Seq(Messages)
      /\ DOMAIN mailbox[current] \subseteq DOMAIN two
      /\ \A n \in DOMAIN mailbox[current] : two[n] = mailbox[current][n]
  BY <1>1, AppendTwo
<1>3. mailbox'[current] = two \/ mailbox'[current] = Append(two, Own)
  BY <1>1
<1>4. \A g \in Logs : g # current => mailbox'[g] = mailbox[g]
  BY <1>1
<1>5. /\ Append(two, Own) \in Seq(Messages) /\ DOMAIN two \subseteq DOMAIN Append(two, Own)
      /\ \A n \in DOMAIN two : Append(two, Own)[n] = two[n]
  <2> HIDE DEF two
  <2> QED BY <1>1, <1>2
<1>6. /\ mailbox'[current] \in Seq(Messages)
      /\ DOMAIN mailbox[current] \subseteq DOMAIN mailbox'[current]
      /\ \A n \in DOMAIN mailbox[current] : mailbox'[current][n] = mailbox[current][n]
  <2> HIDE DEF two
  <2> QED BY <1>2, <1>3, <1>5
<1>7. mailbox' \in [Logs -> Seq(Messages)]
  <2>1. mailbox' = [g \in Logs |-> mailbox'[g]]
    BY <1>1
  <2> QED BY <1>1, <1>4, <1>6, <2>1
<1> QED BY <1>4, <1>6, <1>7 DEF Grows

LEMMA TypeInit ==
  ASSUME Init
  PROVE  TypeInv
<1> USE DEF Init
<1>1. /\ current \in 0 .. MaxStarts /\ sends \in 0 .. MaxSends
      /\ ref \in [Clients -> 0 .. MaxStarts] /\ caller \in [Clients -> 0 .. MaxStarts]
  BY BoundsAssumption DEF None
<1>2. /\ mailbox \in [Logs -> Seq(Messages)] /\ listeners \in [Logs -> Seq(Clients)]
      /\ written \in [Logs -> Seq(Nat)] /\ taken \in [Logs -> SUBSET Nat]
      /\ \A g \in Logs : taken[g] \subseteq DOMAIN mailbox[g]
  OBVIOUS
<1>3. /\ actor \in [Logs -> {"none", "running", "dead", "exited"}]
      /\ service \in [Services -> {"none", "up", "leaving", "gone"}]
      /\ events \subseteq Services \X EventTypes
      /\ attached \in BOOLEAN /\ activator \in Stages /\ activator = "down"
  BY DEF Stages
<1> QED BY <1>1, <1>2, <1>3 DEF TypeInv, TypeOK, StageInv

LEMMA ActivateTyped ==
  ASSUME TypeInv, Activate
  PROVE  TypeInv' /\ Grows
<1> USE BoundsAssumption DEF TypeInv, StageInv, Logs, None
<1>a. TypeOK BY DEF TypeInv
<1>1. CASE Configure
  BY <1>1, <1>a DEF Configure, Stage, TypeOK, Stages, Listening, Grows, actorVars, osgiVars, clientVars
<1>2. CASE NewLog
  BY <1>2, <1>a DEF NewLog, Stage, TypeOK, Stages, Listening, Grows, actorVars, osgiVars, clientVars
<1>3. CASE AddListeners
  BY <1>3, <1>a DEF AddListeners, Stage, TypeOK, Stages, Listening, Grows, actorVars, osgiVars, clientVars
<1>4. CASE Publish
  <2>1. current \in Logs
    BY <1>4, <1>a DEF Publish, Stage, Stages, Listening
  <2>2. UNCHANGED <<current, attached, actor, taken, listeners, written, service, events, ref, caller, sends>>
    BY <1>4 DEF Publish, actorVars, osgiVars, clientVars
  <2>3. mailbox' \in [Logs -> Seq(Messages)] /\ Grows
    BY <1>4, <1>a, <2>1, <2>2, SendOwn DEF Publish
  <2>4. activator' = "published"
    BY <1>4 DEF Publish, Stage
  <2> QED
    BY <1>a, <2>1, <2>2, <2>3, <2>4 DEF Grows, TypeOK, Stages, Listening
<1>5. CASE Welcome
  BY <1>5, <1>a, MessageTypes, SendGrows DEF Welcome, Stage, TypeOK, Stages, Listening, Grows, actorVars, osgiVars, clientVars
<1>6. CASE Close
  BY <1>6, <1>a, MessageTypes, SendGrows DEF Close, Stage, TypeOK, Stages, Listening, Grows, actorVars, osgiVars, clientVars
<1>7. CASE Reset
  BY <1>7, <1>a DEF Reset, Stage, TypeOK, Stages, Listening, Grows, actorVars, osgiVars, clientVars
<1>8. CASE Cleanup
  <2>1. current \in Logs
    BY <1>8, <1>a DEF Cleanup, Stage, Stages, Listening
  <2>2. UNCHANGED <<current, attached, actor, taken, listeners, written, service, events, ref, caller, sends>>
    BY <1>8 DEF Cleanup, actorVars, osgiVars, clientVars
  <2>3. mailbox' \in [Logs -> Seq(Messages)] /\ Grows
    BY <1>8, <1>a, <2>1, <2>2, SendOwn DEF Cleanup
  <2>4. activator' = "down"
    BY <1>8 DEF Cleanup, Stage
  <2> QED
    BY <1>a, <2>1, <2>2, <2>3, <2>4 DEF Grows, TypeOK, Stages, Listening
<1> QED BY <1>1, <1>2, <1>3, <1>4, <1>5, <1>6, <1>7, <1>8 DEF Activate

LEMMA NotifyTyped ==
  ASSUME TypeInv, Notify
  PROVE  TypeInv' /\ Grows /\ UNCHANGED <<activator, current, attached, actor, caller>>
<1> USE BoundsAssumption DEF StageInv, Logs, None
<1>a. TypeOK /\ StageInv BY DEF TypeInv
<1>1. ASSUME NEW s \in Services, Register(s) \/ Unregister(s) PROVE TypeInv' /\ Grows
                                      /\ UNCHANGED <<activator, current, attached, actor, caller>>
  <2>1. UNCHANGED <<activator, current, attached, actor, taken, listeners, written, mailbox, ref, caller, sends>>
    BY <1>1 DEF Register, Unregister, actorVars, clientVars
  <2>2. service' \in [Services -> {"none", "up", "leaving", "gone"}]
    BY <1>1, <1>a DEF Register, Unregister, TypeOK
  <2>3. events' \subseteq Services \X EventTypes
    BY <1>1, <1>a DEF Register, Unregister, TypeOK, EventTypes
  <2> QED BY <1>a, <2>1, <2>2, <2>3 DEF TypeInv, TypeOK, Grows
<1>2. ASSUME NEW e \in events, Delivered(e)
      PROVE  /\ service' \in [Services -> {"none", "up", "leaving", "gone"}]
             /\ events' \subseteq Services \X EventTypes
  BY <1>2, <1>a DEF Delivered, TypeOK
<1>3. ASSUME NEW m \in Messages, activator \in Listening, SendBounded(current, m)
      PROVE  /\ mailbox' \in [Logs -> Seq(Messages)]
             /\ sends' \in 0 .. MaxSends
             /\ \A g \in Logs : taken[g] \subseteq DOMAIN mailbox'[g]
             /\ UNCHANGED <<taken, listeners, written>> => Grows
  <2>1. current \in Logs BY <1>3, <1>a DEF Stages, Listening
  <2>2. Send(current, m) BY <1>3 DEF SendBounded
  <2>3. sends' \in 0 .. MaxSends BY <1>3, <1>a DEF SendBounded, TypeOK
  <2> QED BY <1>a, <2>1, <2>2, <2>3, SendGrows DEF Grows, TypeOK
<1>4. ASSUME NEW e \in events, serviceChanged(e) PROVE TypeInv' /\ Grows
                                      /\ UNCHANGED <<activator, current, attached, actor, caller>>
  <2>1. LogEntryImpl(HasBundle(e[1])) \in Messages BY MessageTypes DEF HasBundle
  <2>2. Delivered(e) /\ activator \in Listening
    BY <1>4 DEF serviceChanged
  <2>3. SendBounded(current, LogEntryImpl(HasBundle(e[1]))) BY <1>4 DEF serviceChanged
  <2>4. UNCHANGED <<activator, current, attached, actor, taken, listeners, written, ref, caller>>
    BY <1>4 DEF serviceChanged, actorVars, clientVars
  <2>5. TypeInv'
    BY <1>a, <1>2, <1>3, <2>1, <2>2, <2>3, <2>4 DEF TypeInv, TypeOK
  <2> QED BY <1>3, <2>1, <2>2, <2>3, <2>4, <2>5
<1>5. ASSUME NEW e \in events, Unheard(e) PROVE TypeInv' /\ Grows
                                      /\ UNCHANGED <<activator, current, attached, actor, caller>>
  <2>1. Delivered(e) BY <1>5 DEF Unheard
  <2>2. UNCHANGED <<activator, current, attached, actor, taken, listeners, written, mailbox, ref, caller, sends>>
    BY <1>5 DEF Unheard, actorVars, clientVars
  <2> QED BY <1>a, <1>2, <2>1, <2>2 DEF TypeInv, TypeOK, Grows
<1>6. CASE bundleChanged
  <2>1. LogEntryImpl(TRUE) \in Messages BY MessageTypes
  <2>2. UNCHANGED <<activator, current, attached, actor, taken, listeners, written, service, events, ref, caller>>
    BY <1>6 DEF bundleChanged, actorVars, clientVars, osgiVars
  <2>3. activator \in Listening /\ SendBounded(current, LogEntryImpl(TRUE))
    BY <1>6 DEF bundleChanged
  <2>4. TypeInv' BY <1>a, <1>3, <2>1, <2>2, <2>3 DEF TypeInv, TypeOK
  <2> QED BY <1>3, <2>1, <2>2, <2>3, <2>4
<1> QED BY <1>1, <1>4, <1>5, <1>6 DEF Notify

(* What a client's call does.                                              *)
LEMMA CallTyped ==
  ASSUME TypeInv, NEW c \in Clients, NEW m \in Messages, Call(c, m)
  PROVE  /\ Grows
         /\ ref[c] \in Logs
         /\ caller[c] = None
         /\ mailbox' = [mailbox EXCEPT ![ref[c]] = Append(@, m)]
         /\ UNCHANGED <<activator, current, attached, actor, ref>>
         /\ caller' \in [Clients -> 0 .. MaxStarts] => TypeInv'
<1> USE BoundsAssumption DEF StageInv, Logs, None
<1>a. TypeOK /\ StageInv BY DEF TypeInv
<1>1. ref[c] \in Logs BY <1>a DEF Call, TypeOK
<1>2. Send(ref[c], m) BY DEF Call, SendBounded
<1>3. UNCHANGED <<activator, current, attached, actor, taken, listeners, written, service, events, ref>>
  BY DEF Call, actorVars, osgiVars
<1>4. sends' \in 0 .. MaxSends BY <1>a DEF Call, SendBounded, TypeOK
<1>5. Grows BY <1>a, <1>1, <1>2, <1>3, SendGrows DEF Grows
<1>6. caller' \in [Clients -> 0 .. MaxStarts] => TypeInv'
  BY <1>a, <1>1, <1>2, <1>3, <1>4, SendGrows DEF TypeInv, TypeOK
<1> QED BY <1>1, <1>2, <1>3, <1>5, <1>6 DEF Send, Call

LEMMA ClientTyped ==
  ASSUME TypeInv, NEW c \in Clients, ClientStep(c)
  PROVE  TypeInv' /\ Grows
<1> USE BoundsAssumption DEF StageInv, Logs, None
<1>a. TypeOK /\ StageInv BY DEF TypeInv
<1>1. CASE getService(c)
  <2>1. UNCHANGED <<activator, current, attached, actor, taken, listeners, written, mailbox,
                    service, events, caller, sends>>
    BY <1>1 DEF getService, actorVars, osgiVars
  <2>2. ref' \in [Clients -> 0 .. MaxStarts] BY <1>1, <1>a DEF getService, TypeOK
  <2> QED BY <1>a, <2>1, <2>2 DEF TypeInv, TypeOK, Grows
<1>2. ASSUME NEW m \in Messages, Call(c, m), UNCHANGED caller PROVE TypeInv' /\ Grows
  BY <1>2, <1>a, CallTyped DEF TypeOK
<1>3. CASE getLog(c)
  <2>1. ListListeners(c) \in Messages /\ Call(c, ListListeners(c))
    BY <1>3, MessageTypes DEF getLog
  <2>2. caller' \in [Clients -> 0 .. MaxStarts]
    BY <1>3, <1>a DEF getLog, TypeOK
  <2> QED BY <2>1, <2>2, CallTyped
<1>4. CASE log(c) \/ addLogListener(c) \/ removeLogListener(c)
  BY <1>2, <1>4, MessageTypes DEF log, addLogListener, removeLogListener
<1>5. ASSUME NEW s \in Services, logAbout(c, s) PROVE TypeInv' /\ Grows
  <2>1. LogEntryImpl(HasBundle(s)) \in Messages BY MessageTypes DEF HasBundle
  <2> QED BY <1>2, <1>5, <2>1 DEF logAbout
<1> QED BY <1>1, <1>3, <1>4, <1>5 DEF ClientStep

(* What receiving message n leaves alone.                                  *)
LEMMA TakeEffect ==
  ASSUME TypeInv, NEW g \in Logs, NEW n \in DOMAIN mailbox[g], NEW kind, Take(g, n, kind)
  PROVE  /\ n \in Nat /\ n \notin taken[g]
         /\ mailbox[g][n] \in Messages
         /\ actor[g] = "running"
         /\ \A k \in DOMAIN mailbox[g] : k < n /\ Matched(mailbox[g][k]) => k \in taken[g]
         /\ taken' = [taken EXCEPT ![g] = taken[g] \cup {n}]
         /\ taken' \in [Logs -> SUBSET Nat]
         /\ \A k \in Logs : taken'[k] \subseteq DOMAIN mailbox[k]
         /\ UNCHANGED <<activator, current, attached, mailbox, service, events, ref, sends>>
<1>a. TypeOK BY DEF TypeInv
<1>1. n \in Nat /\ mailbox[g][n] \in Messages /\ DOMAIN mailbox[g] \subseteq Nat
  BY <1>a DEF TypeOK
<1>2. Oldest(g, n) /\ actor[g] = "running" /\ taken' = [taken EXCEPT ![g] = taken[g] \cup {n}]
      /\ UNCHANGED <<activator, current, attached, mailbox, service, events, ref, sends>>
  BY DEF Take, osgiVars
<1>3. /\ n \notin taken[g]
      /\ \A k \in DOMAIN mailbox[g] : k < n /\ Matched(mailbox[g][k]) => k \in taken[g]
  BY <1>1, <1>2 DEF Oldest, Ready
<1>4. /\ taken' \in [Logs -> SUBSET Nat]
      /\ \A k \in Logs : taken'[k] \subseteq DOMAIN mailbox[k]
  BY <1>a, <1>1, <1>2 DEF TypeOK
<1> QED BY <1>1, <1>2, <1>3, <1>4

LEMMA ReceiveTyped ==
  ASSUME TypeInv, NEW g \in Logs, NEW n \in DOMAIN mailbox[g],
         \/ ReceiveEntry(g, n) \/ ReceiveNull(g, n) \/ ReceiveRegister(g, n)
         \/ ReceiveList(g, n) \/ ReceiveRemoveAll(g, n)
  PROVE  TypeInv'
<1> USE BoundsAssumption DEF StageInv, Logs, None
<1>a. TypeOK /\ StageInv BY DEF TypeInv
<1>1. ASSUME NEW kind, Take(g, n, kind),
             actor' \in [Logs -> {"none", "running", "dead", "exited"}],
             listeners' \in [Logs -> Seq(Clients)],
             written' \in [Logs -> Seq(Nat)],
             caller' \in [Clients -> 0 .. MaxStarts]
      PROVE  TypeInv'
  BY <1>1, <1>a, TakeEffect DEF TypeInv, TypeOK
<1>2. CASE ReceiveEntry(g, n)
  <2>1. Take(g, n, "LogEntryImpl") /\ n \in Nat BY <1>2, TakeEffect DEF ReceiveEntry
  <2>2. written' \in [Logs -> Seq(Nat)] BY <1>2, <1>a, <2>1 DEF ReceiveEntry, TypeOK
  <2> QED BY <1>1, <1>2, <1>a, <2>1, <2>2 DEF ReceiveEntry, TypeOK
<1>3. CASE ReceiveNull(g, n)
  BY <1>1, <1>3, <1>a DEF ReceiveNull, TypeOK
<1>4. CASE ReceiveRegister(g, n)
  <2>1. Take(g, n, "RegisterListener") BY <1>4 DEF ReceiveRegister
  <2>2. mailbox[g][n].listener \in Clients
    BY <2>1, TakeEffect, FieldTypes DEF Take
  <2>3. listeners' \in [Logs -> Seq(Clients)] BY <1>4, <1>a, <2>2 DEF ReceiveRegister, TypeOK
  <2> QED BY <1>1, <1>4, <1>a, <2>1, <2>3 DEF ReceiveRegister, TypeOK
<1>5. CASE ReceiveList(g, n)
  <2>1. Take(g, n, "ListListeners") BY <1>5 DEF ReceiveList
  <2>2. caller' \in [Clients -> 0 .. MaxStarts]
    <3>1. caller' = [caller EXCEPT ![mailbox[g][n].sender] = None] /\ None \in 0 .. MaxStarts
      BY <1>5 DEF ReceiveList
    <3>2. caller \in [Clients -> 0 .. MaxStarts]
      BY <1>a DEF TypeOK
    <3> QED BY <3>1, <3>2, Zenon
  <2> QED BY <1>1, <1>5, <1>a, <2>1, <2>2 DEF ReceiveList, TypeOK
<1>6. CASE ReceiveRemoveAll(g, n)
  <2>1. listeners' \in [Logs -> Seq(Clients)]
    BY <1>6, <1>a DEF ReceiveRemoveAll, TypeOK
  <2> QED BY <1>1, <1>6, <1>a, <2>1 DEF ReceiveRemoveAll, TypeOK
<1> QED BY <1>2, <1>3, <1>4, <1>5, <1>6

LEMMA StutterTyped ==
  ASSUME TypeInv, UNCHANGED vars
  PROVE  TypeInv' /\ Grows
  BY DEF TypeInv, TypeOK, StageInv, vars, actorVars, osgiVars, clientVars, Grows

LEMMA TypeNext ==
  ASSUME TypeInv, [Next]_vars
  PROVE  TypeInv'
<1>1. ASSUME NEW g \in Logs, Receive(g) PROVE TypeInv'
  BY <1>1, ReceiveTyped DEF Receive
<1> QED BY <1>1, ActivateTyped, NotifyTyped, ClientTyped, StutterTyped DEF Next

(* Every variable keeps its type; a message is received only if it was sent. *)
THEOREM TypeCorrect == Spec => []TypeOK
<1>1. Init => TypeInv BY TypeInit
<1>2. TypeInv /\ [Next]_vars => TypeInv' BY TypeNext
<1>3. TypeInv => TypeOK BY DEF TypeInv
<1> QED BY <1>1, <1>2, <1>3, PTL DEF Spec


-----------------------------------------------------------------------------
(* What the steps other than receive do to the mailboxes.                  *)

LEMMA ImpersonalMessages ==
  /\ \A b \in BOOLEAN : LogEntryImpl(b) \in Impersonal
  /\ \A c \in Clients : RemoveListener(c) \in Impersonal
  /\ RemoveAllListeners \in Impersonal
  /\ Own \in Impersonal
  BY MessageTypes DEF Impersonal, Own, LogEntryImpl, RemoveListener, RemoveAllListeners

LEMMA SendAdds ==
  ASSUME TypeOK, NEW g \in Logs, NEW m \in Impersonal, Send(g, m)
  PROVE  AddsImpersonal /\ \A k \in Logs : k # g => mailbox'[k] = mailbox[k]
<1>1. mailbox \in [Logs -> Seq(Messages)] /\ m \in Messages BY DEF TypeOK, Impersonal
<1>2. mailbox'[g] = Append(mailbox[g], m) BY <1>1 DEF Send
<1>3. \A k \in Logs : k # g => mailbox'[k] = mailbox[k] BY <1>1 DEF Send
<1>4. \A n \in DOMAIN mailbox'[g] \ DOMAIN mailbox[g] : mailbox'[g][n] = m BY <1>1, <1>2
<1> QED BY <1>3, <1>4 DEF AddsImpersonal

LEMMA OwnAdded ==
  ASSUME NEW s \in Seq(Messages), Own \in Messages, NEW t,
         t = Append(Append(s, Own), Own) \/ t = Append(Append(Append(s, Own), Own), Own)
  PROVE  \A n \in DOMAIN t \ DOMAIN s : t[n] = Own
<1> DEFINE a == Append(s, Own)
           b == Append(a, Own)
<1>1. a \in Seq(Messages) /\ \A n \in DOMAIN a \ DOMAIN s : a[n] = Own
  OBVIOUS
<1>2. b \in Seq(Messages) /\ \A n \in DOMAIN b \ DOMAIN s : b[n] = Own
  <2>1. \A n \in DOMAIN b : (n \in DOMAIN a /\ b[n] = a[n]) \/ b[n] = Own
    <3> HIDE DEF a
    <3> QED BY <1>1
  <2>2. b \in Seq(Messages)
    BY <1>1
  <2> QED BY <1>1, <2>1, <2>2
<1>3. \A n \in DOMAIN Append(b, Own) : (n \in DOMAIN b /\ Append(b, Own)[n] = b[n]) \/ Append(b, Own)[n] = Own
  <2> HIDE DEF b
  <2> QED BY <1>2
<1> QED BY <1>2, <1>3

(* The activator's own step: which Log it sends to, and what it changes.   *)
Kept == (Listening \ {"reset"}) \cup {"created"}

LEMMA ActivateAdds ==
  ASSUME TypeInv, Activate
  PROVE  /\ AddsImpersonal
         /\ \A g \in Logs : g # current => mailbox'[g] = mailbox[g]
         /\ UNCHANGED <<ref, caller>>
         /\ \/ /\ current' = current + 1 /\ current' \in Logs
               /\ actor' = [actor EXCEPT ![current'] = "running"]
               /\ UNCHANGED mailbox
            \/ /\ UNCHANGED <<current, actor>>
               /\ activator' \in Kept => activator \in Kept /\ attached' = attached
<1>a. TypeOK /\ StageInv BY DEF TypeInv
<1>1. CASE Configure
  BY <1>1 DEF Configure, Stage, Kept, Listening, AddsImpersonal, actorVars, clientVars
<1>2. CASE NewLog
  <2>1. current' \in Logs BY <1>2, <1>a, BoundsAssumption DEF NewLog, Stage, StageInv, TypeOK, Logs
  <2> QED BY <1>2, <2>1 DEF NewLog, AddsImpersonal, clientVars
<1>3. CASE AddListeners
  BY <1>3 DEF AddListeners, Stage, Kept, Listening, AddsImpersonal, actorVars, clientVars
<1>4. CASE Reset
  BY <1>4 DEF Reset, Stage, Kept, Listening, AddsImpersonal, actorVars, clientVars
<1>5. ASSUME Welcome \/ Close
      PROVE  /\ AddsImpersonal
             /\ \A g \in Logs : g # current => mailbox'[g] = mailbox[g]
  <2>1. current \in Logs BY <1>5, <1>a DEF Welcome, Close, Stage, Stages, Listening, StageInv
  <2> QED BY <1>5, <1>a, <2>1, SendAdds, ImpersonalMessages DEF Welcome, Close
<1>6. ASSUME Publish \/ Cleanup
      PROVE  /\ AddsImpersonal
             /\ \A g \in Logs : g # current => mailbox'[g] = mailbox[g]
  <2>1. current \in Logs BY <1>6, <1>a DEF Publish, Cleanup, Stage, Stages, Listening, StageInv
  <2>2. mailbox \in [Logs -> Seq(Messages)] BY <1>a DEF TypeOK
  <2>3. Own \in Messages /\ Own \in Impersonal BY MessageTypes, ImpersonalMessages
  <2>4. \A g \in Logs : g # current => mailbox'[g] = mailbox[g]
    BY <1>6, <2>1, <2>2 DEF Publish, Cleanup
  <2>5. \A n \in DOMAIN mailbox'[current] \ DOMAIN mailbox[current] : mailbox'[current][n] = Own
    BY <1>6, <2>1, <2>2, <2>3, OwnAdded DEF Publish, Cleanup
  <2> QED BY <2>3, <2>4, <2>5 DEF AddsImpersonal
<1>7. CASE Welcome \/ Close \/ Publish \/ Cleanup
  <2>1. UNCHANGED <<current, actor, attached, ref, caller>>
    BY <1>7 DEF Welcome, Close, Publish, Cleanup, actorVars, clientVars
  <2>2. activator' \in Kept => activator \in Kept
    BY <1>7 DEF Welcome, Close, Publish, Cleanup, Stage, Kept, Listening
  <2> QED BY <1>5, <1>6, <1>7, <2>1, <2>2
<1> QED BY <1>1, <1>2, <1>3, <1>4, <1>7 DEF Activate

LEMMA NotifyAdds ==
  ASSUME TypeInv, Notify
  PROVE  /\ AddsImpersonal
         /\ \A g \in Logs : g # current => mailbox'[g] = mailbox[g]
         /\ UNCHANGED <<ref, caller>>
<1>a. TypeOK /\ StageInv BY DEF TypeInv
<1>1. ASSUME NEW m \in Impersonal, activator \in Listening, SendBounded(current, m)
      PROVE  /\ AddsImpersonal
             /\ \A g \in Logs : g # current => mailbox'[g] = mailbox[g]
  <2>1. current \in Logs BY <1>1, <1>a DEF Stages, Listening, StageInv
  <2> QED BY <1>1, <1>a, <2>1, SendAdds DEF SendBounded
<1>2. ASSUME UNCHANGED mailbox PROVE AddsImpersonal BY <1>2 DEF AddsImpersonal
<1>3. ASSUME NEW e \in events, serviceChanged(e)
      PROVE  /\ AddsImpersonal
             /\ \A g \in Logs : g # current => mailbox'[g] = mailbox[g]
  <2>1. LogEntryImpl(HasBundle(e[1])) \in Impersonal BY ImpersonalMessages DEF HasBundle
  <2> QED BY <1>1, <1>3, <2>1 DEF serviceChanged
<1>4. ASSUME bundleChanged
      PROVE  /\ AddsImpersonal
             /\ \A g \in Logs : g # current => mailbox'[g] = mailbox[g]
  BY <1>1, <1>4, ImpersonalMessages DEF bundleChanged
<1>5. UNCHANGED <<ref, caller>>
  BY DEF Notify, Register, Unregister, serviceChanged, Unheard, bundleChanged, clientVars
<1>6. CASE \E s \in Services : Register(s) \/ Unregister(s)
  BY <1>2, <1>5, <1>6 DEF Register, Unregister
<1>7. ASSUME NEW e \in events, Unheard(e) PROVE UNCHANGED mailbox BY <1>7 DEF Unheard
<1> QED BY <1>2, <1>3, <1>4, <1>5, <1>6, <1>7 DEF Notify
-----------------------------------------------------------------------------
(* The order of what is received and appended.                             *)

(* Logs are built in order and nobody knows one that is not built yet.     *)
FreshInv ==
  /\ \A c \in Clients : ref[c] <= current
  /\ \A g \in Logs : g > current => mailbox[g] = <<>>

(* Of the messages some case matches, all before a received one are received. *)
Downward ==
  \A g \in Logs : \A n \in taken[g], k \in DOMAIN mailbox[g] :
    k < n /\ Matched(mailbox[g][k]) => k \in taken[g]

WrittenTaken ==
  \A g \in Logs : \A i \in DOMAIN written[g] :
    written[g][i] \in taken[g] /\ Entry(g, written[g][i])

(* An actor receives nothing after RemoveAllListeners.                     *)
ExitLast ==
  \A g \in Logs : \A n \in taken[g] :
    mailbox[g][n].kind = "RemoveAllListeners" =>
      actor[g] = "exited" /\ \A k \in taken[g] : k <= n

OrderInv == FreshInv /\ Downward /\ WrittenTaken /\ ExitLast /\ WrittenInOrder

(* Every entry the current Log received was appended.                      *)
KeptInv ==
  activator \in Kept /\ attached /\ actor[current] = "running" =>
    \A n \in taken[current] : Entry(current, n) => Appended(current, n)

LEMMA FreshTaken ==
  ASSUME TypeInv, FreshInv, NEW g \in Logs, g > current
  PROVE  taken[g] = {}
  BY DEF TypeInv, TypeOK, FreshInv

LEMMA ClientAdds ==
  ASSUME TypeInv, FreshInv, NEW c \in Clients, ClientStep(c)
  PROVE  /\ UNCHANGED <<activator, current, attached, actor>>
         /\ \A g \in Logs : g > current => mailbox'[g] = mailbox[g]
         /\ \A k \in Clients : ref'[k] <= current
<1>a. TypeOK BY DEF TypeInv
<1>1. CASE getService(c)
  <2>1. ref' = [ref EXCEPT ![c] = current] /\ current \in Nat
    BY <1>1, <1>a DEF getService, TypeOK
  <2>2. \A k \in Clients : ref'[k] <= current
    BY <1>a, <2>1 DEF FreshInv, TypeOK
  <2> QED BY <1>1, <2>2 DEF getService, actorVars
<1>2. ASSUME NEW m \in Messages, Call(c, m) 
      PROVE  /\ UNCHANGED <<activator, current, attached, actor>>
             /\ \A g \in Logs : g > current => mailbox'[g] = mailbox[g]
             /\ \A k \in Clients : ref'[k] <= current
  <2>1. /\ mailbox' = [mailbox EXCEPT ![ref[c]] = Append(@, m)]
        /\ UNCHANGED <<activator, current, attached, actor, ref>>
    BY <1>2, CallTyped
  <2>2. ref[c] <= current /\ ref[c] \in Nat /\ current \in Nat /\ mailbox \in [Logs -> Seq(Messages)]
    BY <1>a DEF FreshInv, TypeOK
  <2>3. \A g \in Logs : g > current => g # ref[c]
    BY <2>2 DEF Logs
  <2> QED BY <2>1, <2>2, <2>3 DEF FreshInv
<1>3. CASE log(c) \/ addLogListener(c) \/ removeLogListener(c) \/ getLog(c)
  BY <1>2, <1>3, MessageTypes DEF log, addLogListener, removeLogListener, getLog
<1>4. ASSUME NEW s \in Services, logAbout(c, s) 
      PROVE  /\ UNCHANGED <<activator, current, attached, actor>>
             /\ \A g \in Logs : g > current => mailbox'[g] = mailbox[g]
             /\ \A k \in Clients : ref'[k] <= current
  <2>1. LogEntryImpl(HasBundle(s)) \in Messages BY MessageTypes DEF HasBundle
  <2> QED BY <1>2, <1>4, <2>1 DEF logAbout
<1> QED BY <1>1, <1>3, <1>4 DEF ClientStep

(* Any step that receives nothing, a stutter included.                     *)
LEMMA SendingStep ==
  ASSUME TypeInv, FreshInv, Activate \/ Notify \/ (\E c \in Clients : ClientStep(c)) \/ UNCHANGED vars
  PROVE  /\ Grows
         /\ FreshInv'
         /\ \/ /\ current' = current + 1 /\ current' \in Logs
               /\ actor' = [actor EXCEPT ![current'] = "running"]
            \/ /\ UNCHANGED <<current, actor>>
               /\ activator' \in Kept => activator \in Kept /\ attached' = attached
<1>a. TypeOK /\ current \in Nat /\ (\A c \in Clients : ref[c] \in Nat) BY DEF TypeInv, TypeOK
<1>1. CASE Activate
  <2>1. Grows BY <1>1, ActivateTyped
  <2>2. FreshInv'
    BY <1>1, <1>a, ActivateAdds DEF FreshInv, Logs
  <2> QED BY <1>1, <2>1, <2>2, ActivateAdds
<1>2. CASE Notify
  <2>1. Grows /\ UNCHANGED <<activator, current, attached, actor>> BY <1>2, NotifyTyped
  <2>2. FreshInv'
    BY <1>2, <1>a, <2>1, NotifyAdds DEF FreshInv, Logs
  <2> QED BY <2>1, <2>2
<1>3. ASSUME NEW c \in Clients, ClientStep(c)
      PROVE  Grows /\ FreshInv' /\ UNCHANGED <<activator, current, attached, actor>>
  BY <1>3, ClientTyped, ClientAdds DEF FreshInv
<1>4. CASE UNCHANGED vars
  BY <1>4, StutterTyped DEF vars, actorVars, clientVars, FreshInv
<1> QED BY <1>1, <1>2, <1>3, <1>4

LEMMA SendingKeepsOrder ==
  ASSUME TypeInv, OrderInv, KeptInv, TypeInv',
         Activate \/ Notify \/ (\E c \in Clients : ClientStep(c)) \/ UNCHANGED vars
  PROVE  OrderInv' /\ KeptInv'
<1>a. TypeOK /\ TypeOK' /\ current \in Nat BY DEF TypeInv, TypeOK
<1>1. Grows /\ FreshInv' BY SendingStep DEF OrderInv
<1>2. UNCHANGED <<taken, listeners, written>> BY <1>1 DEF Grows
<1>3. \A g \in Logs : \A n \in DOMAIN mailbox[g] : n \in DOMAIN mailbox'[g] /\ mailbox'[g][n] = mailbox[g][n]
  BY <1>1 DEF Grows
<1>4. \A g \in Logs : taken[g] \subseteq DOMAIN mailbox[g] /\ taken[g] \subseteq Nat
  BY <1>a DEF TypeOK
<1>5. Downward'
  <2> SUFFICES ASSUME NEW g \in Logs, NEW n \in taken[g], NEW k \in DOMAIN mailbox'[g],
                      k < n, Matched(mailbox'[g][k])
               PROVE  k \in taken[g]
    BY <1>2 DEF Downward
  <2>1. n \in DOMAIN mailbox[g] /\ mailbox[g] \in Seq(Messages) /\ mailbox'[g] \in Seq(Messages)
    BY <1>4, <1>a DEF TypeOK
  <2>2. k \in DOMAIN mailbox[g]
    BY <2>1
  <2> QED BY <1>3, <2>2 DEF Downward, OrderInv
<1>6. WrittenTaken'
  BY <1>2, <1>3, <1>4 DEF WrittenTaken, OrderInv, Entry
<1>7. WrittenInOrder'
  BY <1>2 DEF WrittenInOrder, OrderInv
<1>8. ASSUME NEW g \in Logs, taken[g] # {} PROVE actor'[g] = actor[g]
  <2>1. g <= current
    BY <1>8, <1>a, FreshTaken DEF OrderInv, Logs
  <2>2. g # current + 1
    BY <1>a, <2>1 DEF Logs
  <2> QED BY <2>2, <1>a, SendingStep DEF OrderInv, TypeOK
<1>9. ExitLast'
  <2> SUFFICES ASSUME NEW g \in Logs, NEW n \in taken[g], mailbox'[g][n].kind = "RemoveAllListeners"
               PROVE  actor'[g] = "exited" /\ \A k \in taken[g] : k <= n
    BY <1>2 DEF ExitLast
  <2>1. mailbox[g][n].kind = "RemoveAllListeners" BY <1>3, <1>4
  <2> QED BY <1>8, <2>1 DEF OrderInv, ExitLast
<1>10. KeptInv'
  <2>1. CASE current' = current + 1 /\ current' \in Logs
    <3>1. taken'[current'] = {} BY <1>2, <1>a, <2>1, FreshTaken DEF OrderInv
    <3> QED BY <3>1 DEF KeptInv
  <2>2. CASE UNCHANGED <<current, actor>> /\ (activator' \in Kept => activator \in Kept /\ attached' = attached)
    <3> SUFFICES ASSUME activator' \in Kept, attached', actor'[current'] = "running",
                        NEW n \in taken'[current'], Entry(current, n)'
                 PROVE  Appended(current, n)'
      BY DEF KeptInv
    <3>1. current \in Logs BY <2>2 DEF TypeInv, StageInv, Kept, Listening, Stages
    <3>2. n \in taken[current] /\ Entry(current, n)
      BY <1>2, <1>3, <1>4, <2>2, <3>1 DEF Entry
    <3>3. Appended(current, n) BY <2>2, <3>2 DEF KeptInv
    <3> QED BY <1>2, <2>2, <3>3 DEF Appended
  <2> QED BY <2>1, <2>2, SendingStep DEF OrderInv
<1> QED BY <1>1, <1>5, <1>6, <1>7, <1>9, <1>10 DEF OrderInv

(* What receiving one message changes, whichever its kind.                 *)
Received(g, n) ==
  \/ ReceiveEntry(g, n) \/ ReceiveNull(g, n) \/ ReceiveRegister(g, n)
  \/ ReceiveList(g, n) \/ ReceiveRemoveAll(g, n)

LEMMA ReceivedEffect ==
  ASSUME TypeInv, NEW g \in Logs, NEW n \in DOMAIN mailbox[g], Received(g, n)
  PROVE  /\ n \in Nat /\ n \notin taken[g]
         /\ mailbox[g][n] \in Messages
         /\ actor[g] = "running"
         /\ \A k \in DOMAIN mailbox[g] : k < n /\ Matched(mailbox[g][k]) => k \in taken[g]
         /\ taken' = [taken EXCEPT ![g] = taken[g] \cup {n}]
         /\ \A k \in Logs : taken'[k] \subseteq DOMAIN mailbox[k]
         /\ UNCHANGED <<activator, current, attached, mailbox, ref>>
         /\ Matched(mailbox[g][n])
         /\ mailbox[g][n].kind = "RemoveAllListeners" => actor'[g] = "exited"
         /\ mailbox[g][n].kind # "RemoveAllListeners" => UNCHANGED actor \/ actor' = [actor EXCEPT ![g] = "dead"]
         /\ \A k \in Logs : k # g => actor'[k] = actor[k] /\ written'[k] = written[k]
         /\ \/ written' = written /\ (attached /\ Entry(g, n) => actor'[g] # "running")
            \/ /\ written' = [written EXCEPT ![g] = Append(@, n)]
               /\ Entry(g, n)
<1>a. TypeOK BY DEF TypeInv
<1>1. PICK kind : Take(g, n, kind)
  BY DEF Received, ReceiveEntry, ReceiveNull, ReceiveRegister, ReceiveList, ReceiveRemoveAll
<1>2. /\ n \in Nat /\ n \notin taken[g]
      /\ mailbox[g][n] \in Messages
      /\ actor[g] = "running"
      /\ \A k \in DOMAIN mailbox[g] : k < n /\ Matched(mailbox[g][k]) => k \in taken[g]
      /\ taken' = [taken EXCEPT ![g] = taken[g] \cup {n}]
      /\ \A k \in Logs : taken'[k] \subseteq DOMAIN mailbox[k]
      /\ UNCHANGED <<activator, current, attached, mailbox, ref>>
  BY <1>1, TakeEffect
<1>3. Matched(mailbox[g][n])
  BY <1>1 DEF Take, Oldest, Ready
<1>4. actor \in [Logs -> {"none", "running", "dead", "exited"}] /\ written \in [Logs -> Seq(Nat)]
  BY <1>a DEF TypeOK
<1>5. CASE ReceiveEntry(g, n)
  <2>1. mailbox[g][n].kind = "LogEntryImpl" BY <1>5 DEF ReceiveEntry, Take
  <2> QED BY <1>2, <1>3, <1>4, <1>5, <2>1 DEF ReceiveEntry, Entry
<1>6. CASE ReceiveNull(g, n)
  <2>1. mailbox[g][n].kind = "LogEntryImpl" BY <1>6 DEF ReceiveNull, Take
  <2> QED BY <1>2, <1>3, <1>4, <1>6, <2>1 DEF ReceiveNull
<1>7. CASE ReceiveRegister(g, n) \/ ReceiveList(g, n)
  <2>1. mailbox[g][n].kind \in {"RegisterListener", "ListListeners"}
    BY <1>7 DEF ReceiveRegister, ReceiveList, Take
  <2> QED BY <1>2, <1>3, <1>4, <1>7, <2>1 DEF ReceiveRegister, ReceiveList, Entry
<1>8. CASE ReceiveRemoveAll(g, n)
  <2>1. mailbox[g][n].kind = "RemoveAllListeners" BY <1>8 DEF ReceiveRemoveAll, Take
  <2> QED BY <1>2, <1>3, <1>4, <1>8, <2>1 DEF ReceiveRemoveAll, Entry
<1> QED BY <1>5, <1>6, <1>7, <1>8 DEF Received

LEMMA ReceivingKeepsOrder ==
  ASSUME TypeInv, OrderInv, KeptInv, NEW g \in Logs, NEW n \in DOMAIN mailbox[g], Received(g, n)
  PROVE  OrderInv' /\ KeptInv'
<1>a. TypeOK BY DEF TypeInv
<1>b. /\ taken \in [Logs -> SUBSET Nat] /\ written \in [Logs -> Seq(Nat)]
      /\ mailbox \in [Logs -> Seq(Messages)] /\ \A k \in Logs : taken[k] \subseteq DOMAIN mailbox[k]
  BY <1>a DEF TypeOK
<1>1. n \in Nat /\ n \notin taken[g] /\ actor[g] = "running" /\ Matched(mailbox[g][n])
  BY ReceivedEffect
<1>2. /\ taken'[g] = taken[g] \cup {n}
      /\ \A k \in Logs : k # g => taken'[k] = taken[k] /\ written'[k] = written[k] /\ actor'[k] = actor[k]
  BY <1>b, ReceivedEffect
<1>3. UNCHANGED <<activator, current, attached, mailbox, ref>>
  BY ReceivedEffect
<1>4. \A k \in DOMAIN mailbox[g] : k < n /\ Matched(mailbox[g][k]) => k \in taken[g]
  BY ReceivedEffect
<1>5. \A k \in taken[g] : Matched(mailbox[g][k]) => k < n
  <2> SUFFICES ASSUME NEW k \in taken[g], ~(k < n) PROVE FALSE
    OBVIOUS
  <2>1. k \in Nat /\ n < k BY <1>1, <1>b
  <2> QED BY <1>1, <2>1 DEF OrderInv, Downward
<1>6. FreshInv'
  BY <1>3 DEF FreshInv, OrderInv
<1>7. Downward'
  BY <1>2, <1>3, <1>4 DEF Downward, OrderInv
<1>8. \/ written'[g] = written[g] /\ (attached /\ Entry(g, n) => actor'[g] # "running")
      \/ written'[g] = Append(written[g], n) /\ Entry(g, n)
  <2>1. \/ written' = written /\ (attached /\ Entry(g, n) => actor'[g] # "running")
        \/ written' = [written EXCEPT ![g] = Append(@, n)] /\ Entry(g, n)
    BY ReceivedEffect
  <2> QED BY <1>b, <2>1
<1>9. \A i \in DOMAIN written[g] : /\ written[g][i] \in taken[g] /\ Entry(g, written[g][i])
                                   /\ written[g][i] < n
  BY <1>5 DEF OrderInv, WrittenTaken, Entry, Matched
<1>10. WrittenTaken' /\ WrittenInOrder'
  <2>1. ASSUME NEW k \in Logs, k # g
        PROVE  /\ \A i \in DOMAIN written'[k] : written'[k][i] \in taken'[k] /\ Entry(k, written'[k][i])
               /\ \A i, j \in DOMAIN written'[k] : i < j => written'[k][i] < written'[k][j]
    BY <1>2, <2>1 DEF OrderInv, WrittenTaken, WrittenInOrder
  <2>2. CASE written'[g] = written[g]
    BY <1>2, <1>3, <2>1, <2>2 DEF OrderInv, WrittenTaken, WrittenInOrder, Entry
  <2>3. CASE written'[g] = Append(written[g], n) /\ Entry(g, n)
    <3>1. written[g] \in Seq(Nat) BY <1>b
    <3>2. \A i \in DOMAIN written'[g] :
            \/ i \in DOMAIN written[g] /\ written'[g][i] = written[g][i]
            \/ i = Len(written[g]) + 1 /\ written'[g][i] = n
      BY <2>3, <3>1, <1>1
    <3>3. \A i \in DOMAIN written'[g] : written'[g][i] \in taken'[g] /\ Entry(g, written'[g][i])
      BY <1>2, <1>9, <2>3, <3>2
    <3>4. \A i, j \in DOMAIN written'[g] : i < j => written'[g][i] < written'[g][j]
      <4> SUFFICES ASSUME NEW i \in DOMAIN written'[g], NEW j \in DOMAIN written'[g], i < j
                   PROVE  written'[g][i] < written'[g][j]
        OBVIOUS
      <4>1. DOMAIN written[g] = 1 .. Len(written[g]) /\ Len(written[g]) \in Nat BY <3>1
      <4>2. i \in DOMAIN written[g] /\ written'[g][i] = written[g][i] BY <3>2, <4>1
      <4>3. CASE j \in DOMAIN written[g] /\ written'[g][j] = written[g][j]
        BY <4>2, <4>3 DEF OrderInv, WrittenInOrder
      <4>4. CASE written'[g][j] = n BY <1>9, <4>2, <4>4
      <4> QED BY <3>2, <4>3, <4>4
    <3> QED BY <1>3, <2>1, <3>3, <3>4 DEF WrittenTaken, WrittenInOrder, Entry
  <2> QED BY <1>8, <2>2, <2>3
<1>11. ExitLast'
  <2> SUFFICES ASSUME NEW k \in Logs, NEW m \in taken'[k], mailbox[k][m].kind = "RemoveAllListeners"
               PROVE  actor'[k] = "exited" /\ \A j \in taken'[k] : j <= m
    BY <1>3 DEF ExitLast
  <2>1. CASE k # g BY <1>2, <2>1 DEF OrderInv, ExitLast
  <2>2. CASE k = g /\ m \in taken[g]
    BY <1>1, <2>2 DEF OrderInv, ExitLast
  <2>3. CASE k = g /\ m = n
    <3>1. actor'[g] = "exited" BY <2>3, ReceivedEffect
    <3>2. ASSUME NEW j \in taken[g] PROVE j <= n
      <4>1. j \in Nat /\ j # n BY <1>1, <1>b
      <4>2. ~(n < j) BY <1>1, <1>b DEF OrderInv, Downward
      <4> QED BY <1>1, <4>1, <4>2
    <3> QED BY <1>1, <1>2, <2>3, <3>1, <3>2
  <2> QED BY <1>2, <2>1, <2>2, <2>3
<1>12. KeptInv'
  <2> SUFFICES ASSUME activator \in Kept, attached, actor'[current] = "running",
                      NEW m \in taken'[current], Entry(current, m)
               PROVE  Appended(current, m)'
    BY <1>3 DEF KeptInv, Entry
  <2>1. current \in Logs BY DEF TypeInv, StageInv, Kept, Listening, Stages
  <2>2. CASE current # g BY <1>2, <1>3, <2>1, <2>2 DEF KeptInv, Appended
  <2>3. CASE current = g
    <3>1. m \in taken[g] => Appended(g, m) BY <1>1, <2>3 DEF KeptInv
    <3>2. CASE written'[g] = written[g] /\ (attached /\ Entry(g, n) => actor'[g] # "running")
      BY <1>2, <1>3, <2>3, <3>1, <3>2 DEF Appended
    <3>3. CASE written'[g] = Append(written[g], n)
      <4>1. written[g] \in Seq(Nat) BY <1>b
      <4>2. \A i \in DOMAIN written[g] : i \in DOMAIN written'[g] /\ written'[g][i] = written[g][i]
        BY <1>1, <3>3, <4>1
      <4>3. Len(written[g]) + 1 \in DOMAIN written'[g] /\ written'[g][Len(written[g]) + 1] = n
        BY <1>1, <3>3, <4>1
      <4> QED BY <1>2, <1>3, <2>3, <3>1, <4>2, <4>3 DEF Appended
    <3> QED BY <1>8, <3>2, <3>3
  <2> QED BY <2>2, <2>3
<1> QED BY <1>6, <1>7, <1>10, <1>11, <1>12 DEF OrderInv

LogInv == TypeInv /\ OrderInv /\ KeptInv

LEMMA LogInit ==
  ASSUME Init
  PROVE  LogInv
<1>1. TypeInv BY TypeInit
<1>2. KeptInv BY DEF Init, KeptInv, Kept, Listening
<1>3. OrderInv
  BY DEF Init, OrderInv, FreshInv, Downward, WrittenTaken, ExitLast, WrittenInOrder, Logs, None
<1> QED BY <1>1, <1>2, <1>3 DEF LogInv

LEMMA LogNext ==
  ASSUME LogInv, [Next]_vars
  PROVE  LogInv'
<1>1. TypeInv' BY TypeNext DEF LogInv
<1>2. CASE Activate \/ Notify \/ (\E c \in Clients : ClientStep(c)) \/ UNCHANGED vars
  BY <1>1, <1>2, SendingKeepsOrder DEF LogInv
<1>3. ASSUME NEW g \in Logs, Receive(g) PROVE OrderInv' /\ KeptInv'
  <2>1. PICK n \in DOMAIN mailbox[g] : Received(g, n) BY <1>3 DEF Receive, Received
  <2> QED BY <2>1, ReceivingKeepsOrder DEF LogInv
<1> QED BY <1>1, <1>2, <1>3 DEF Next, LogInv

(* Entries sent to one Log are appended in the order they were sent.       *)
THEOREM WrittenInOrderHolds == Spec => []WrittenInOrder
<1>1. Init => LogInv BY LogInit
<1>2. LogInv /\ [Next]_vars => LogInv' BY LogNext
<1>3. LogInv => WrittenInOrder BY DEF LogInv, OrderInv
<1> QED BY <1>1, <1>2, <1>3, PTL DEF Spec

(* No entry sent after close is appended, at this start or a later one.    *)
THEOREM ClosedIsFinalHolds == Spec => []ClosedIsFinal
<1>1. Init => LogInv BY LogInit
<1>2. LogInv /\ [Next]_vars => LogInv' BY LogNext
<1>3. LogInv => ClosedIsFinal
  <2> SUFFICES ASSUME LogInv, NEW g \in Logs, NEW i \in DOMAIN written[g], NEW n \in DOMAIN mailbox[g],
                      mailbox[g][n].kind = "RemoveAllListeners"
               PROVE  written[g][i] < n
    BY DEF ClosedIsFinal
  <2> DEFINE w == written[g][i]
  <2>1. w \in taken[g] /\ mailbox[g][w].kind = "LogEntryImpl" /\ w # n
    BY DEF LogInv, OrderInv, WrittenTaken, Entry
  <2>2. w \in Nat /\ n \in Nat
    BY <2>1 DEF LogInv, TypeInv, TypeOK
  <2>3. n \in taken[g] => w <= n
    BY <2>1 DEF LogInv, OrderInv, ExitLast
  <2>4. n < w => n \in taken[g]
    BY <2>1 DEF LogInv, OrderInv, Downward, Matched
  <2> HIDE DEF w
  <2>5. w < n BY <2>1, <2>2, <2>3, <2>4
  <2> QED BY <2>5 DEF w
<1> QED BY <1>1, <1>2, <1>3, PTL DEF Spec

(* Until stop resets the logger context, no entry of a running Log is lost. *)
THEOREM NothingLostHolds == Spec => []NothingLost
<1>1. Init => LogInv BY LogInit
<1>2. LogInv /\ [Next]_vars => LogInv' BY LogNext
<1>3. LogInv => NothingLost BY DEF LogInv, KeptInv, Kept, NothingLost
<1> QED BY <1>1, <1>2, <1>3, PTL DEF Spec

-----------------------------------------------------------------------------
(* What a caller of listListeners sees.                                    *)

(* A running actor still has every listener it received.                   *)
RegisteredInv ==
  \A g \in Logs : actor[g] = "running" =>
    \A n \in taken[g] : mailbox[g][n].kind = "RegisterListener" =>
      \E i \in DOMAIN listeners[g] : listeners[g][i] = mailbox[g][n].listener

Personal(m, c) == m = RegisterListener(c) \/ m = ListListeners(c)

(* The client of a call that is not answered waits for the Log it called, and *)
(* the call is the last thing of its own that it sent there.               *)
CallInv ==
  \A g \in Logs : \A n \in DOMAIN mailbox[g] \ taken[g], c \in Clients :
    mailbox[g][n] = ListListeners(c) =>
      /\ caller[c] = g
      /\ \A k \in DOMAIN mailbox[g] : Personal(mailbox[g][k], c) => k <= n

CallerInv == LogInv /\ RegisteredInv /\ CallInv

LEMMA PersonalMessages ==
  /\ \A m \in Impersonal, c \in Clients : ~Personal(m, c)
  /\ \A c \in Clients : /\ RegisterListener(c).kind = "RegisterListener"
                        /\ RegisterListener(c).listener = c
                        /\ ListListeners(c).kind = "ListListeners"
                        /\ ListListeners(c).sender = c
  /\ \A c, d \in Clients : /\ RegisterListener(c) # ListListeners(d)
                           /\ RegisterListener(c) = RegisterListener(d) => c = d
                           /\ ListListeners(c) = ListListeners(d) => c = d
<1>1. \A c \in Clients : /\ RegisterListener(c).kind = "RegisterListener"
                         /\ RegisterListener(c).listener = c
                         /\ ListListeners(c).kind = "ListListeners"
                         /\ ListListeners(c).sender = c
  BY DEF RegisterListener, ListListeners
<1>2. \A c, d \in Clients : /\ RegisterListener(c) # ListListeners(d)
                            /\ RegisterListener(c) = RegisterListener(d) => c = d
                            /\ ListListeners(c) = ListListeners(d) => c = d
  <2> SUFFICES ASSUME NEW c \in Clients, NEW d \in Clients
               PROVE  /\ RegisterListener(c) # ListListeners(d)
                      /\ RegisterListener(c) = RegisterListener(d) => c = d
                      /\ ListListeners(c) = ListListeners(d) => c = d
    OBVIOUS
  <2>1. RegisterListener(c).kind # ListListeners(d).kind BY <1>1
  <2>2. RegisterListener(c) = RegisterListener(d) => RegisterListener(c).listener = RegisterListener(d).listener
    OBVIOUS
  <2>3. ListListeners(c) = ListListeners(d) => ListListeners(c).sender = ListListeners(d).sender
    OBVIOUS
  <2> QED BY <1>1, <2>1, <2>2, <2>3
<1>3. \A m \in Impersonal, c \in Clients : ~Personal(m, c)
  BY <1>1 DEF Impersonal, Personal
<1> QED BY <1>1, <1>2, <1>3

(* A step that sends nothing personal and answers nobody.                  *)
LEMMA ImpersonalStep ==
  ASSUME TypeInv, CallInv, Grows, AddsImpersonal, UNCHANGED caller
  PROVE  CallInv'
<1> SUFFICES ASSUME NEW g \in Logs, NEW n \in DOMAIN mailbox'[g] \ taken'[g], NEW c \in Clients,
                    mailbox'[g][n] = ListListeners(c)
             PROVE  /\ caller[c] = g
                    /\ \A k \in DOMAIN mailbox'[g] : Personal(mailbox'[g][k], c) => k <= n
  BY DEF CallInv
<1>1. \A k \in DOMAIN mailbox'[g] : Personal(mailbox'[g][k], c) => k \in DOMAIN mailbox[g]
  BY PersonalMessages DEF AddsImpersonal
<1>2. n \in DOMAIN mailbox[g] \ taken[g]
  BY <1>1 DEF Personal, Grows
<1> QED BY <1>1, <1>2 DEF Grows, CallInv

LEMMA ClientKeepsCalls ==
  ASSUME TypeInv, CallInv, NEW c \in Clients, ClientStep(c)
  PROVE  CallInv'
<1>a. TypeOK BY DEF TypeInv
<1>b. mailbox \in [Logs -> Seq(Messages)] /\ caller \in [Clients -> 0 .. MaxStarts]
  BY <1>a DEF TypeOK
<1>c. Grows BY ClientTyped
<1>1. CASE getService(c)
  BY <1>1, <1>c, ImpersonalStep DEF getService, AddsImpersonal
<1>2. ASSUME NEW m \in Impersonal, Call(c, m), UNCHANGED caller PROVE CallInv'
  <2>1. Send(ref[c], m) /\ ref[c] \in Logs
    BY <1>2, CallTyped DEF Call, SendBounded, Impersonal
  <2> QED BY <1>2, <1>a, <1>c, <2>1, SendAdds, ImpersonalStep
<1>3. CASE log(c) \/ removeLogListener(c)
  BY <1>2, <1>3, ImpersonalMessages DEF log, removeLogListener
<1>4. ASSUME NEW s \in Services, logAbout(c, s) PROVE CallInv'
  <2>1. LogEntryImpl(HasBundle(s)) \in Impersonal BY ImpersonalMessages DEF HasBundle
  <2> QED BY <1>2, <1>4, <2>1 DEF logAbout
<1>5. ASSUME NEW m \in Messages, Call(c, m),
             \/ m = RegisterListener(c) /\ UNCHANGED caller
             \/ m = ListListeners(c) /\ caller' = [caller EXCEPT ![c] = ref[c]]
      PROVE  CallInv'
  <2> DEFINE r == ref[c]
             last == Len(mailbox[r]) + 1
  <2>1. /\ r \in Logs /\ caller[c] = None
        /\ mailbox' = [mailbox EXCEPT ![r] = Append(@, m)]
    BY <1>5, CallTyped
  <2>2. \A g \in Logs : g # r => mailbox'[g] = mailbox[g]
    BY <1>b, <2>1
  <2>3. \A n \in DOMAIN mailbox'[r] : \/ n \in DOMAIN mailbox[r] /\ mailbox'[r][n] = mailbox[r][n]
                                      \/ n = last /\ mailbox'[r][n] = m
    BY <1>b, <2>1
  <2>4. \A n \in DOMAIN mailbox'[r] : n \in Nat /\ n <= last
    <3>1. mailbox'[r] = Append(mailbox[r], m) /\ mailbox[r] \in Seq(Messages) BY <1>b, <2>1
    <3> QED BY <3>1
  <2>5. taken' = taken BY <1>c DEF Grows
  <2>6. \A g \in Logs : \A n \in DOMAIN mailbox[g] \ taken[g] : mailbox[g][n] # ListListeners(c)
    BY <2>1 DEF CallInv, Logs, None
  <2> SUFFICES ASSUME NEW g \in Logs, NEW n \in DOMAIN mailbox'[g] \ taken[g], NEW d \in Clients,
                      mailbox'[g][n] = ListListeners(d)
               PROVE  /\ caller'[d] = g
                      /\ \A k \in DOMAIN mailbox'[g] : Personal(mailbox'[g][k], d) => k <= n
    BY <2>5 DEF CallInv
  <2>7. CASE d # c
    <3>1. caller'[d] = caller[d] BY <1>5, <1>b, <2>7
    <3>2. ~Personal(m, d) BY <1>5, <2>7, PersonalMessages DEF Personal
    <3>3. m # ListListeners(d) BY <3>2 DEF Personal
    <3>4. \A k \in DOMAIN mailbox'[g] : Personal(mailbox'[g][k], d) =>
            k \in DOMAIN mailbox[g] /\ mailbox'[g][k] = mailbox[g][k]
      BY <2>2, <2>3, <3>2
    <3>5. n \in DOMAIN mailbox[g] /\ mailbox[g][n] = ListListeners(d)
      BY <3>4 DEF Personal
    <3> QED BY <3>1, <3>4, <3>5 DEF CallInv
  <2>8. CASE d = c
    <3>1. g = r /\ n = last /\ m = ListListeners(c)
      BY <2>2, <2>3, <2>6, <2>8
    <3>2. caller'[c] = r
      BY <1>5, <1>b, <3>1, PersonalMessages
    <3> QED BY <2>4, <2>8, <3>1, <3>2
  <2> QED BY <2>7, <2>8
<1>6. CASE addLogListener(c)
  BY <1>5, <1>6, MessageTypes DEF addLogListener
<1>7. CASE getLog(c)
  BY <1>5, <1>7, MessageTypes DEF getLog
<1> QED BY <1>1, <1>3, <1>4, <1>6, <1>7 DEF ClientStep

LEMMA SendingKeepsCalls ==
  ASSUME TypeInv, FreshInv, RegisteredInv, CallInv,
         Activate \/ Notify \/ (\E c \in Clients : ClientStep(c)) \/ UNCHANGED vars
  PROVE  RegisteredInv' /\ CallInv'
<1>a. TypeOK /\ current \in Nat BY DEF TypeInv, TypeOK
<1>1. Grows BY SendingStep
<1>2. CallInv'
  <2>1. CASE Activate BY <2>1, <1>1, ActivateAdds, ImpersonalStep
  <2>2. CASE Notify BY <2>2, <1>1, NotifyAdds, ImpersonalStep
  <2>3. CASE UNCHANGED vars
    BY <2>3, <1>1, ImpersonalStep DEF vars, clientVars, AddsImpersonal
  <2> QED BY <2>1, <2>2, <2>3, ClientKeepsCalls
<1>3. RegisteredInv'
  <2> SUFFICES ASSUME NEW g \in Logs, actor'[g] = "running", NEW n \in taken[g],
                      mailbox'[g][n].kind = "RegisterListener"
               PROVE  \E i \in DOMAIN listeners[g] : listeners[g][i] = mailbox'[g][n].listener
    BY <1>1 DEF RegisteredInv, Grows
  <2>1. mailbox'[g][n] = mailbox[g][n] BY <1>1, <1>a DEF Grows, TypeOK
  <2>2. g <= current BY <1>a, FreshTaken DEF Logs
  <2>3. actor[g] = "running"
    <3>1. g # current + 1 BY <1>a, <2>2 DEF Logs
    <3>2. actor \in [Logs -> {"none", "running", "dead", "exited"}] BY <1>a DEF TypeOK
    <3>3. UNCHANGED actor \/ actor' = [actor EXCEPT ![current + 1] = "running"] BY SendingStep
    <3> QED BY <3>1, <3>2, <3>3
  <2> QED BY <2>1, <2>3 DEF RegisteredInv
<1> QED BY <1>2, <1>3

LEMMA ReceivingKeepsCalls ==
  ASSUME TypeInv, RegisteredInv, CallInv,
         NEW g \in Logs, NEW n \in DOMAIN mailbox[g], Received(g, n)
  PROVE  RegisteredInv' /\ CallInv'
<1>a. TypeOK BY DEF TypeInv
<1>b. /\ taken \in [Logs -> SUBSET Nat] /\ listeners \in [Logs -> Seq(Clients)]
      /\ actor \in [Logs -> {"none", "running", "dead", "exited"}]
      /\ caller \in [Clients -> 0 .. MaxStarts]
  BY <1>a DEF TypeOK
<1>1. /\ UNCHANGED mailbox /\ n \in Nat /\ n \notin taken[g] /\ mailbox[g][n] \in Messages
      /\ taken' = [taken EXCEPT ![g] = taken[g] \cup {n}] /\ actor[g] = "running"
      /\ DOMAIN mailbox[g] \subseteq Nat
  BY <1>a, ReceivedEffect DEF TypeOK
<1>2. RegisteredInv'
  <2>1. ASSUME UNCHANGED listeners, mailbox[g][n].kind # "RegisterListener",
               UNCHANGED actor \/ actor' = [actor EXCEPT ![g] = "dead"]
        PROVE  RegisteredInv'
    <3> SUFFICES ASSUME NEW k \in Logs, actor'[k] = "running", NEW m \in taken'[k],
                        mailbox[k][m].kind = "RegisterListener"
                 PROVE  \E i \in DOMAIN listeners[k] : listeners[k][i] = mailbox[k][m].listener
      BY <1>1, <2>1 DEF RegisteredInv
    <3>1. actor[k] = "running"
      BY <1>b, <2>1
    <3>2. m \in taken[k]
      BY <1>b, <1>1, <2>1
    <3> QED BY <3>1, <3>2 DEF RegisteredInv
  <2>2. CASE ReceiveEntry(g, n) BY <2>1, <2>2 DEF ReceiveEntry, Take
  <2>3. CASE ReceiveNull(g, n) BY <2>1, <2>3 DEF ReceiveNull, Take
  <2>4. CASE ReceiveList(g, n) BY <2>1, <2>4 DEF ReceiveList, Take
  <2>5. CASE ReceiveRegister(g, n)
    <3>1. listeners' = [listeners EXCEPT ![g] = Append(@, mailbox[g][n].listener)] /\ UNCHANGED actor
      BY <2>5 DEF ReceiveRegister
    <3>2. mailbox[g][n].listener \in Clients
      BY <2>5, <1>1, FieldTypes DEF ReceiveRegister, Take
    <3>3. \A i \in DOMAIN listeners[g] : i \in DOMAIN listeners'[g] /\ listeners'[g][i] = listeners[g][i]
      BY <1>b, <3>1, <3>2
    <3>4. \E i \in DOMAIN listeners'[g] : listeners'[g][i] = mailbox[g][n].listener
      <4>1. Len(listeners[g]) + 1 \in DOMAIN listeners'[g]
        BY <1>b, <3>1, <3>2
      <4>2. listeners'[g][Len(listeners[g]) + 1] = mailbox[g][n].listener
        BY <1>b, <3>1, <3>2
      <4> QED BY <4>1, <4>2
    <3>5. \A k \in Logs : k # g => listeners'[k] = listeners[k] /\ taken'[k] = taken[k]
      BY <1>b, <1>1, <3>1
    <3>6. taken'[g] = taken[g] \cup {n}
      BY <1>b, <1>1
    <3>7. \A m \in taken[g] : mailbox[g][m].kind = "RegisterListener" =>
            \E i \in DOMAIN listeners'[g] : listeners'[g][i] = mailbox[g][m].listener
      BY <1>1, <3>3 DEF RegisteredInv
    <3> QED BY <1>1, <3>1, <3>4, <3>5, <3>6, <3>7 DEF RegisteredInv
  <2>6. CASE ReceiveRemoveAll(g, n)
    <3>1. /\ actor' = [actor EXCEPT ![g] = "exited"]
          /\ listeners' = [listeners EXCEPT ![g] = <<>>]
      BY <2>6 DEF ReceiveRemoveAll
    <3> QED BY <1>1, <1>b, <3>1 DEF RegisteredInv
  <2> QED BY <2>2, <2>3, <2>4, <2>5, <2>6 DEF Received
<1>3. CallInv'
  <2>1. CASE UNCHANGED caller
    BY <1>1, <1>b, <2>1 DEF CallInv
  <2>2. CASE ReceiveList(g, n)
    <3> DEFINE s == mailbox[g][n].sender
    <3>1. mailbox[g][n] = ListListeners(s) /\ s \in Clients
      BY <2>2, <1>1, FieldTypes DEF ReceiveList, Take
    <3>2. caller' = [caller EXCEPT ![s] = None]
      BY <2>2 DEF ReceiveList
    <3>3. \A k \in Logs : \A m \in DOMAIN mailbox[k] \ taken'[k] : mailbox[k][m] # ListListeners(s)
      <4> SUFFICES ASSUME NEW k \in Logs, NEW m \in DOMAIN mailbox[k] \ taken'[k],
                          mailbox[k][m] = ListListeners(s)
                   PROVE  FALSE
        OBVIOUS
      <4>1. m \in DOMAIN mailbox[k] \ taken[k] BY <1>1, <1>b
      <4>2. caller[s] = k /\ caller[s] = g BY <1>1, <3>1, <4>1 DEF CallInv
      <4>3. m <= n /\ n <= m BY <1>1, <3>1, <4>1, <4>2 DEF CallInv, Personal
      <4>4. m = n BY <1>1, <4>1, <4>2, <4>3
      <4> QED BY <1>1, <1>b, <4>2, <4>4
    <3> HIDE DEF s
    <3> SUFFICES ASSUME NEW k \in Logs, NEW m \in DOMAIN mailbox[k] \ taken'[k], NEW c \in Clients,
                        mailbox[k][m] = ListListeners(c)
                 PROVE  /\ caller'[c] = k
                        /\ \A j \in DOMAIN mailbox[k] : Personal(mailbox[k][j], c) => j <= m
      BY <1>1 DEF CallInv
    <3>4. c # s BY <3>3
    <3>5. caller'[c] = caller[c] BY <1>b, <3>1, <3>2, <3>4
    <3>6. m \in DOMAIN mailbox[k] \ taken[k] BY <1>1, <1>b
    <3> QED BY <3>5, <3>6 DEF CallInv
  <2> QED BY <2>1, <2>2 DEF Received, ReceiveEntry, ReceiveNull, ReceiveRegister, ReceiveRemoveAll
<1> QED BY <1>2, <1>3

LEMMA CallerNext ==
  ASSUME CallerInv, [Next]_vars
  PROVE  CallerInv'
<1>1. LogInv' BY LogNext DEF CallerInv
<1>2. CASE Activate \/ Notify \/ (\E c \in Clients : ClientStep(c)) \/ UNCHANGED vars
  BY <1>1, <1>2, SendingKeepsCalls DEF CallerInv, LogInv, OrderInv
<1>3. ASSUME NEW g \in Logs, Receive(g) PROVE RegisteredInv' /\ CallInv'
  <2>1. PICK n \in DOMAIN mailbox[g] : Received(g, n) BY <1>3 DEF Receive, Received
  <2> QED BY <2>1, ReceivingKeepsCalls DEF CallerInv, LogInv
<1> QED BY <1>1, <1>2, <1>3 DEF Next, CallerInv

(* The step that answers a client is the receipt of its one call.          *)
LEMMA AnswerStep ==
  ASSUME CallerInv, [Next]_vars, NEW c \in Clients, caller[c] # None, caller'[c] = None
  PROVE  \E g \in Logs : \E n \in DOMAIN mailbox[g] : ReceiveList(g, n) /\ mailbox[g][n] = ListListeners(c)
<1>a. TypeInv /\ FreshInv /\ TypeOK BY DEF CallerInv, LogInv, OrderInv, TypeInv
<1>b. caller \in [Clients -> 0 .. MaxStarts] BY <1>a DEF TypeOK
<1>1. CASE Activate BY <1>1, <1>a, ActivateAdds
<1>2. CASE Notify BY <1>2, <1>a, NotifyAdds
<1>3. ASSUME NEW d \in Clients, ClientStep(d) PROVE FALSE
  <2>1. UNCHANGED caller \/ (ref[d] # None /\ caller' = [caller EXCEPT ![d] = ref[d]])
    BY <1>3 DEF ClientStep, getService, log, logAbout, addLogListener, removeLogListener, getLog, Call
  <2> QED BY <1>b, <2>1
<1>4. CASE UNCHANGED vars BY <1>4 DEF vars, clientVars
<1>5. ASSUME NEW g \in Logs, Receive(g)
      PROVE  \E n \in DOMAIN mailbox[g] : ReceiveList(g, n) /\ mailbox[g][n] = ListListeners(c)
  <2>1. PICK n \in DOMAIN mailbox[g] : Received(g, n) BY <1>5 DEF Receive, Received
  <2>2. ReceiveList(g, n)
    BY <2>1 DEF Received, ReceiveEntry, ReceiveNull, ReceiveRegister, ReceiveRemoveAll
  <2>3. caller' = [caller EXCEPT ![mailbox[g][n].sender] = None] /\ mailbox[g][n].kind = "ListListeners"
    BY <2>2 DEF ReceiveList, Take
  <2>4. mailbox[g][n].sender = c BY <1>b, <2>3
  <2>5. mailbox[g][n] \in Messages BY <1>a, <2>1, ReceivedEffect
  <2> QED BY <2>2, <2>3, <2>4, <2>5, FieldTypes
<1> QED BY <1>1, <1>2, <1>3, <1>4, <1>5 DEF Next

(* A client that lists the listeners of a Log finds its own among them.    *)
THEOREM ReadsOwnRegistrationHolds == Spec => ReadsOwnRegistration
<1>1. Init => CallerInv
  <2>1. Init => RegisteredInv BY DEF Init, RegisteredInv
  <2>2. Init => CallInv BY DEF Init, CallInv
  <2> QED BY <2>1, <2>2, LogInit DEF CallerInv
<1>2. CallerInv /\ [Next]_vars => CallerInv' BY CallerNext
<1>3. ASSUME CallerInv, [Next]_vars, NEW c \in Clients, caller[c] # None, caller'[c] = None,
             NEW k \in DOMAIN mailbox[caller[c]], mailbox[caller[c]][k] = RegisterListener(c)
      PROVE  \E i \in DOMAIN listeners[caller[c]] : listeners[caller[c]][i] = c
  <2>a. TypeInv BY <1>3 DEF CallerInv, LogInv
  <2>0. PICK g \in Logs : \E m \in DOMAIN mailbox[g] : ReceiveList(g, m) /\ mailbox[g][m] = ListListeners(c)
    BY <1>3, AnswerStep
  <2>1. PICK n \in DOMAIN mailbox[g] : ReceiveList(g, n) /\ mailbox[g][n] = ListListeners(c)
    BY <2>0
  <2>2. /\ n \in Nat /\ n \notin taken[g] /\ actor[g] = "running"
        /\ \A j \in DOMAIN mailbox[g] : j < n /\ Matched(mailbox[g][j]) => j \in taken[g]
    BY <2>1, <2>a, TakeEffect DEF ReceiveList
  <2>3. caller[c] = g /\ \A j \in DOMAIN mailbox[g] : Personal(mailbox[g][j], c) => j <= n
    BY <1>3, <2>1, <2>2 DEF CallerInv, CallInv
  <2>4. k \in DOMAIN mailbox[g] /\ mailbox[g][k] = RegisterListener(c) /\ k <= n
    BY <1>3, <2>3 DEF Personal
  <2>5. k # n /\ Matched(mailbox[g][k])
    BY <1>3, <2>1, <2>4, PersonalMessages DEF Matched
  <2>6. k \in Nat
    BY <2>a, <2>4 DEF TypeInv, TypeOK
  <2>7. k \in taken[g]
    BY <2>2, <2>4, <2>5, <2>6
  <2> QED
    BY <1>3, <2>2, <2>3, <2>4, <2>7, PersonalMessages DEF CallerInv, RegisteredInv
<1>4. CallerInv /\ [Next]_vars =>
        \A c \in Clients :
          LET g == caller[c] IN
          g # None /\ caller'[c] = None =>
            \A n \in DOMAIN mailbox[g] :
              mailbox[g][n] = RegisterListener(c) => \E i \in DOMAIN listeners[g] : listeners[g][i] = c
  BY <1>3
<1> QED BY <1>1, <1>2, <1>4, PTL DEF Spec, ReadsOwnRegistration

-----------------------------------------------------------------------------
(* The refinement: the inductive invariant LogInv makes each step a step of    *)
(* the abstract log or a stutter of it.                                      *)

Sending == Activate \/ Notify \/ (\E c \in Clients : ClientStep(c)) \/ UNCHANGED vars

(* A step that sends, sends to one Log.                                    *)
LEMMA SendsToOne ==
  ASSUME TypeInv, FreshInv, Sending, Logs # {}
  PROVE  \E g \in Logs : \A k \in Logs : k # g => mailbox'[k] = mailbox[k]
<1>a. TypeOK /\ mailbox \in [Logs -> Seq(Messages)] BY DEF TypeInv, TypeOK
<1>1. CASE Activate \/ Notify
  <2>1. \A g \in Logs : g # current => mailbox'[g] = mailbox[g]
    BY <1>1, ActivateAdds, NotifyAdds
  <2>2. CASE current \in Logs BY <2>1, <2>2
  <2>3. CASE current \notin Logs BY <2>1, <2>3
  <2> QED BY <2>2, <2>3
<1>2. CASE UNCHANGED vars BY <1>2 DEF vars
<1>3. ASSUME NEW c \in Clients, ClientStep(c)
      PROVE  mailbox' = mailbox \/ \E m : Send(ref[c], m)
  BY <1>3 DEF ClientStep, getService, log, logAbout, addLogListener, removeLogListener, getLog,
             Call, SendBounded
<1>4. ASSUME NEW c \in Clients, NEW m, Send(ref[c], m)
      PROVE  \E g \in Logs : \A k \in Logs : k # g => mailbox'[k] = mailbox[k]
  <2>1. \A k \in Logs : k # ref[c] => mailbox'[k] = mailbox[k] BY <1>4, <1>a DEF Send
  <2>2. CASE ref[c] \in Logs BY <2>1, <2>2
  <2>3. CASE ref[c] \notin Logs BY <2>1, <2>3
  <2> QED BY <2>2, <2>3
<1> QED BY <1>1, <1>2, <1>3, <1>4 DEF Sending

LEMMA SendingAccepts ==
  ASSUME LogInv, LogInv', Sending
  PROVE  [Order!Next]_(Order!vars)
<1>a. TypeInv /\ FreshInv BY DEF LogInv, OrderInv
<1>b. mailbox \in [Logs -> Seq(Messages)] /\ mailbox' \in [Logs -> Seq(Messages)]
  BY DEF LogInv, TypeInv, TypeOK
<1>1. Grows BY <1>a, SendingStep DEF Sending
<1>2. written' = written BY <1>1 DEF Grows
<1>3. CASE \A k \in Logs : mailbox'[k] = mailbox[k]
  <2>1. mailbox' = mailbox BY <1>b, <1>3
  <2> QED BY <1>2, <2>1 DEF Order!vars, Requests
<1>4. ASSUME NEW h \in Logs, mailbox'[h] # mailbox[h]
      PROVE  Order!Next
  <2>1. PICK g \in Logs : \A k \in Logs : k # g => mailbox'[k] = mailbox[k]
    BY <1>a, <1>4, SendsToOne
  <2>2. mailbox'[g] # mailbox[g] BY <1>4, <2>1
  <2>3. /\ mailbox[g] \in Seq(Messages) /\ mailbox'[g] \in Seq(Messages)
        /\ DOMAIN mailbox[g] \subseteq DOMAIN mailbox'[g]
        /\ \A n \in DOMAIN mailbox[g] : mailbox'[g][n] = mailbox[g][n]
    BY <1>1, <1>b DEF Grows
  <2>4. Len(mailbox'[g]) \in Nat /\ Len(mailbox'[g]) > Len(mailbox[g])
    BY <2>2, <2>3
  <2>5. /\ Requests(g) \subseteq Requests(g)'
        /\ Requests(g)' \ Requests(g) \subseteq (Len(mailbox[g]) + 1) .. Len(mailbox'[g])
    BY <2>3 DEF Requests
  <2>6. \A k \in Logs : k # g => Len(mailbox'[k]) = Len(mailbox[k]) /\ Requests(k)' = Requests(k)
    BY <2>1 DEF Requests
  <2>7. Order!Accept(g)
    BY <1>2, <2>4, <2>5, <2>6 DEF Order!Accept
  <2> QED BY <2>7 DEF Order!Next
<1> QED BY <1>3, <1>4

LEMMA ReceivingWrites ==
  ASSUME LogInv, LogInv', NEW g \in Logs, NEW n \in DOMAIN mailbox[g], Received(g, n)
  PROVE  [Order!Next]_(Order!vars)
<1>a. TypeInv /\ OrderInv /\ WrittenInOrder' /\ ExitLast /\ TypeOK
  BY DEF LogInv, OrderInv, TypeInv
<1>b. /\ mailbox \in [Logs -> Seq(Messages)] /\ written \in [Logs -> Seq(Nat)]
      /\ taken[g] \subseteq DOMAIN mailbox[g]
  BY <1>a DEF TypeOK
<1>1. mailbox' = mailbox BY ReceivedEffect, <1>a
<1>2. CASE written' = written
  BY <1>1, <1>2 DEF Order!vars, Requests
<1>3. CASE written' = [written EXCEPT ![g] = Append(@, n)] /\ Entry(g, n)
  <2>1. n \in 1 .. Len(mailbox[g]) BY <1>b
  <2>2. ASSUME NEW i \in DOMAIN written[g] PROVE written[g][i] < n
    <3>1. written'[g] = Append(written[g], n) BY <1>3, <1>b
    <3>2. /\ i \in DOMAIN written'[g] /\ Len(written[g]) + 1 \in DOMAIN written'[g]
          /\ i < Len(written[g]) + 1
          /\ written'[g][i] = written[g][i] /\ written'[g][Len(written[g]) + 1] = n
      BY <3>1, <1>b, <2>2
    <3> QED BY <1>a, <3>2 DEF WrittenInOrder
  <2>3. ASSUME NEW c \in Requests(g) PROVE n < c
    <3>1. c \in Nat /\ n \in Nat /\ c # n BY <1>b, <1>3, <2>3 DEF Requests, Entry
    <3>2. ASSUME c < n PROVE FALSE
      <4>1. Matched(mailbox[g][c]) BY <2>3 DEF Requests, Matched
      <4>2. c \in taken[g] BY <1>a, <2>3, <3>2, <4>1, ReceivedEffect DEF Requests
      <4>3. actor[g] = "exited" BY <1>a, <2>3, <4>2 DEF ExitLast, Requests
      <4> QED BY <1>a, <4>3, ReceivedEffect
    <3> QED BY <3>1, <3>2
  <2>4. Order!Write(g, n)
    BY <1>1, <1>3, <2>1, <2>2, <2>3 DEF Order!Write, Requests
  <2> QED BY <2>1, <2>4 DEF Order!Next
<1> QED BY <1>a, <1>2, <1>3, ReceivedEffect

(* The log of dynamy.log is an ordered log: what a reader of one Log's file   *)
(* sees is a growing list of entries in sending order that ends at the close. *)
THEOREM ImplementsOrderedLog == Spec => OrderSpec
<1>1. Init => Order!Init
  BY DEF Init, Order!Init, Requests
<1>2. ASSUME LogInv, LogInv', [Next]_vars PROVE [Order!Next]_(Order!vars)
  <2>1. CASE Sending BY <1>2, <2>1, SendingAccepts
  <2>2. ASSUME NEW g \in Logs, Receive(g) PROVE [Order!Next]_(Order!vars)
    <3>1. PICK n \in DOMAIN mailbox[g] : Received(g, n) BY <2>2 DEF Receive, Received
    <3> QED BY <1>2, <3>1, ReceivingWrites
  <2> QED BY <1>2, <2>1, <2>2 DEF Next, Sending
<1>3. LogInv /\ [Next]_vars => LogInv' BY LogNext
<1> QED BY <1>1, <1>2, <1>3, LogInit, PTL DEF Spec, OrderSpec, Order!Spec


-----------------------------------------------------------------------------
(* The ends of a Log and of a call.                                        *)

(* LogActivator.stop has called close on Log g.                            *)
Closed(g) ==
  g < current \/ (g = current /\ activator \in {"closed", "reset", "down", "configured"})

CloseRequest(g, n) == mailbox[g][n].kind = "RemoveAllListeners"

(* A Log is closed by its own message and by nothing else, has an actor from  *)
(* the step that builds it, and an actor that exited received the message.  *)
CloseInv ==
  \A g \in Logs :
    /\ Closed(g) <=> \E n \in DOMAIN mailbox[g] : CloseRequest(g, n)
    /\ g <= current => actor[g] # "none"
    /\ actor[g] = "exited" => \E n \in taken[g] : CloseRequest(g, n)

(* The call a client waits for is still in the mailbox.                    *)
WaitInv ==
  \A c \in Clients : caller[c] # None =>
    \E n \in DOMAIN mailbox[caller[c]] \ taken[caller[c]] : mailbox[caller[c]][n] = ListListeners(c)

EndInv == CallerInv /\ CloseInv /\ WaitInv

AddsNoClose ==
  \A g \in Logs : \A n \in DOMAIN mailbox'[g] \ DOMAIN mailbox[g] :
    mailbox'[g][n].kind # "RemoveAllListeners"

LEMMA OtherKinds ==
  /\ \A b \in BOOLEAN : LogEntryImpl(b) \in Messages /\ LogEntryImpl(b).kind # "RemoveAllListeners"
  /\ \A c \in Clients :
       /\ RegisterListener(c) \in Messages /\ RegisterListener(c).kind # "RemoveAllListeners"
       /\ RemoveListener(c) \in Messages /\ RemoveListener(c).kind # "RemoveAllListeners"
       /\ ListListeners(c) \in Messages /\ ListListeners(c).kind # "RemoveAllListeners"
  /\ Own \in Messages /\ Own.kind # "RemoveAllListeners"
  /\ RemoveAllListeners.kind = "RemoveAllListeners"
  BY MessageTypes DEF Own, LogEntryImpl, RegisterListener, RemoveListener, ListListeners, RemoveAllListeners

LEMMA SendNoClose ==
  ASSUME TypeOK, NEW g \in Logs, NEW m \in Messages, m.kind # "RemoveAllListeners", Send(g, m)
  PROVE  AddsNoClose
<1>1. mailbox \in [Logs -> Seq(Messages)] BY DEF TypeOK
<1>2. mailbox'[g] = Append(mailbox[g], m) /\ \A k \in Logs : k # g => mailbox'[k] = mailbox[k]
  BY <1>1 DEF Send
<1>3. \A n \in DOMAIN mailbox'[g] \ DOMAIN mailbox[g] : mailbox'[g][n] = m BY <1>1, <1>2
<1> QED BY <1>2, <1>3 DEF AddsNoClose

(* Only the activator's Close asks a Log to end.                           *)
LEMMA OtherStepsAddNoClose ==
  ASSUME TypeInv, Sending, ~Close
  PROVE  AddsNoClose
<1>a. TypeOK /\ StageInv BY DEF TypeInv
<1>1. ASSUME UNCHANGED mailbox PROVE AddsNoClose BY <1>1 DEF AddsNoClose
<1>2. CASE Configure \/ NewLog \/ AddListeners \/ Reset \/ UNCHANGED vars
  BY <1>1, <1>2 DEF Configure, NewLog, AddListeners, Reset, vars
<1>3. CASE Welcome
  <2>1. current \in Logs BY <1>3, <1>a DEF Welcome, Stage, Stages, Listening, StageInv
  <2> QED BY <1>3, <1>a, <2>1, SendNoClose, OtherKinds DEF Welcome
<1>4. CASE Publish \/ Cleanup
  <2>1. current \in Logs BY <1>4, <1>a DEF Publish, Cleanup, Stage, Stages, Listening, StageInv
  <2>2. mailbox \in [Logs -> Seq(Messages)] BY <1>a DEF TypeOK
  <2>3. \A g \in Logs : g # current => mailbox'[g] = mailbox[g]
    BY <1>4, <2>1, <2>2 DEF Publish, Cleanup
  <2>4. \A n \in DOMAIN mailbox'[current] \ DOMAIN mailbox[current] : mailbox'[current][n] = Own
    BY <1>4, <2>1, <2>2, OtherKinds, OwnAdded DEF Publish, Cleanup
  <2> QED BY <2>3, <2>4, OtherKinds DEF AddsNoClose
<1>5. CASE Notify
  <2>1. ASSUME NEW b \in BOOLEAN, activator \in Listening, Send(current, LogEntryImpl(b))
        PROVE  AddsNoClose
    <3>1. current \in Logs BY <2>1, <1>a DEF Stages, Listening, StageInv
    <3> QED BY <1>a, <2>1, <3>1, SendNoClose, OtherKinds
  <2>2. ASSUME NEW s \in Services, Register(s) \/ Unregister(s) PROVE AddsNoClose
    BY <1>1, <2>2 DEF Register, Unregister
  <2>3. ASSUME NEW e \in events, serviceChanged(e) PROVE AddsNoClose
    BY <2>1, <2>3 DEF serviceChanged, SendBounded, HasBundle
  <2>4. ASSUME NEW e \in events, Unheard(e) PROVE AddsNoClose
    BY <1>1, <2>4 DEF Unheard
  <2>5. CASE bundleChanged
    BY <2>1, <2>5 DEF bundleChanged, SendBounded
  <2> QED BY <1>5, <2>2, <2>3, <2>4, <2>5 DEF Notify
<1>6. ASSUME NEW c \in Clients, ClientStep(c) PROVE AddsNoClose
  <2>1. ASSUME NEW m \in Messages, m.kind # "RemoveAllListeners", Call(c, m) PROVE AddsNoClose
    BY <1>a, <2>1, CallTyped, SendNoClose DEF Call, SendBounded
  <2>2. CASE getService(c) BY <1>1, <2>2 DEF getService
  <2>3. CASE log(c) \/ addLogListener(c) \/ removeLogListener(c) \/ getLog(c)
    BY <2>1, <2>3, OtherKinds DEF log, addLogListener, removeLogListener, getLog
  <2>4. ASSUME NEW s \in Services, logAbout(c, s) PROVE AddsNoClose
    BY <2>1, <2>4, OtherKinds DEF logAbout, HasBundle
  <2> QED BY <1>6, <2>2, <2>3, <2>4 DEF ClientStep
<1> QED BY <1>2, <1>3, <1>4, <1>5, <1>6 DEF Sending, Activate

(* The activator's stages against what it has closed.                      *)
LEMMA ClosedSteps ==
  ASSUME TypeInv, Sending
  PROVE  /\ Close => /\ current \in Logs
                     /\ \A g \in Logs : Closed(g)' <=> Closed(g) \/ g = current
         /\ ~Close => \A g \in Logs : Closed(g)' <=> Closed(g)
<1>a. TypeOK /\ StageInv /\ current \in Nat BY DEF TypeInv, TypeOK
<1> USE DEF Logs, Closed
<1>1. CASE Activate
  <2>1. CASE Close
    BY <1>a, <2>1 DEF Close, Stage, Stages, Listening, StageInv
  <2>2. CASE NewLog
    BY <1>a, <2>2 DEF NewLog, Stage, Close
  <2>3. CASE Configure \/ AddListeners \/ Publish \/ Welcome \/ Reset \/ Cleanup
    BY <1>a, <2>3 DEF Configure, AddListeners, Publish, Welcome, Reset, Cleanup, Stage, Close
  <2> QED BY <1>1, <2>1, <2>2, <2>3 DEF Activate
<1>2. CASE UNCHANGED <<activator, current>>
  BY <1>a, <1>2 DEF Close, Stage
<1>3. CASE Notify BY <1>2, <1>3, NotifyTyped
<1>4. ASSUME NEW c \in Clients, ClientStep(c) PROVE UNCHANGED <<activator, current>>
  BY <1>4 DEF ClientStep, getService, log, logAbout, addLogListener, removeLogListener, getLog, Call
<1>5. CASE UNCHANGED vars BY <1>2, <1>5 DEF vars
<1> QED BY <1>1, <1>2, <1>3, <1>4, <1>5 DEF Sending

LEMMA SendingKeepsCloses ==
  ASSUME LogInv, CloseInv, Sending
  PROVE  CloseInv'
<1>a. TypeInv /\ TypeOK /\ FreshInv /\ current \in Nat
  BY DEF LogInv, OrderInv, TypeInv, TypeOK
<1>b. mailbox \in [Logs -> Seq(Messages)] /\ \A g \in Logs : taken[g] \subseteq DOMAIN mailbox[g]
  BY <1>a DEF TypeOK
<1>1. Grows /\ \/ /\ current' = current + 1 /\ current' \in Logs
                  /\ actor' = [actor EXCEPT ![current'] = "running"]
               \/ UNCHANGED <<current, actor>>
  BY <1>a, SendingStep DEF Sending
<1>2. ASSUME NEW g \in Logs PROVE Closed(g)' <=> \E n \in DOMAIN mailbox'[g] : CloseRequest(g, n)'
  <2>1. CASE ~Close
    <3>1. AddsNoClose /\ (Closed(g)' <=> Closed(g))
      BY <1>a, <2>1, OtherStepsAddNoClose, ClosedSteps
    <3> QED BY <1>1, <3>1 DEF Grows, AddsNoClose, CloseRequest, CloseInv
  <2>2. CASE Close
    <3>1. current \in Logs /\ (Closed(g)' <=> Closed(g) \/ g = current)
      BY <1>a, <2>2, ClosedSteps
    <3>2. Send(current, RemoveAllListeners) BY <2>2 DEF Close
    <3>3. CASE g # current
      BY <1>b, <3>1, <3>2, <3>3 DEF Send, CloseRequest, CloseInv
    <3>4. CASE g = current
      <4> DEFINE last == Len(mailbox[g]) + 1
      <4>1. last \in DOMAIN mailbox'[g] /\ mailbox'[g][last] = RemoveAllListeners
        BY <1>b, <3>1, <3>2, <3>4 DEF Send
      <4> QED BY <3>1, <3>4, <4>1, OtherKinds DEF CloseRequest
    <3> QED BY <3>3, <3>4
  <2> QED BY <2>1, <2>2
<1>3. ASSUME NEW g \in Logs
      PROVE  /\ g <= current' => actor'[g] # "none"
             /\ actor'[g] = "exited" => actor[g] = "exited"
  <2>1. actor \in [Logs -> {"none", "running", "dead", "exited"}] /\ g \in Nat
    BY <1>a DEF TypeOK, Logs
  <2>2. g <= current => actor[g] # "none" BY DEF CloseInv
  <2>3. CASE UNCHANGED <<current, actor>> BY <2>2, <2>3
  <2>4. CASE current' = current + 1 /\ actor' = [actor EXCEPT ![current'] = "running"]
    <3>1. g <= current' => g = current' \/ g <= current BY <1>a, <2>1, <2>4
    <3>2. actor'[g] = "running" \/ (g # current' /\ actor'[g] = actor[g]) BY <2>1, <2>4
    <3>3. g = current' => actor'[g] = "running" BY <2>1, <2>4
    <3> QED BY <2>2, <3>1, <3>2, <3>3
  <2> QED BY <1>1, <2>3, <2>4
<1>4. \A g \in Logs : actor'[g] = "exited" => \E n \in taken'[g] : CloseRequest(g, n)'
  BY <1>1, <1>3, <1>b DEF Grows, CloseInv, CloseRequest
<1> QED BY <1>2, <1>3, <1>4 DEF CloseInv

LEMMA ReceivingKeepsCloses ==
  ASSUME LogInv, CloseInv, NEW g \in Logs, NEW n \in DOMAIN mailbox[g], Received(g, n)
  PROVE  CloseInv'
<1>a. TypeInv /\ TypeOK BY DEF LogInv, TypeInv
<1>1. /\ UNCHANGED <<activator, current, mailbox>>
      /\ taken' = [taken EXCEPT ![g] = taken[g] \cup {n}]
      /\ actor[g] = "running"
      /\ \A k \in Logs : k # g => actor'[k] = actor[k]
      /\ mailbox[g][n].kind = "RemoveAllListeners" => actor'[g] = "exited"
      /\ mailbox[g][n].kind # "RemoveAllListeners" => UNCHANGED actor \/ actor' = [actor EXCEPT ![g] = "dead"]
  BY <1>a, ReceivedEffect
<1>2. taken \in [Logs -> SUBSET Nat] /\ actor \in [Logs -> {"none", "running", "dead", "exited"}]
  BY <1>a DEF TypeOK
<1>3. actor'[g] # "none" /\ (actor'[g] = "exited" => CloseRequest(g, n))
  BY <1>1, <1>2 DEF CloseRequest
<1>4. n \in taken'[g] /\ \A k \in Logs : taken[k] \subseteq taken'[k]
  BY <1>1, <1>2
<1>5. \A k \in Logs : (Closed(k)' <=> Closed(k)) /\ \A m : CloseRequest(k, m)' <=> CloseRequest(k, m)
  BY <1>1 DEF Closed, CloseRequest
<1> QED BY <1>1, <1>3, <1>4, <1>5 DEF CloseInv

LEMMA SendingKeepsWaits ==
  ASSUME LogInv, WaitInv, Sending
  PROVE  WaitInv'
<1>a. TypeInv /\ TypeOK BY DEF LogInv, TypeInv
<1>b. mailbox \in [Logs -> Seq(Messages)] /\ caller \in [Clients -> 0 .. MaxStarts]
      /\ \A g \in Logs : taken[g] \subseteq DOMAIN mailbox[g]
  BY <1>a DEF TypeOK
<1>1. Grows BY <1>a, SendingStep DEF Sending, LogInv, OrderInv
<1>2. ASSUME NEW c \in Clients, caller'[c] = caller[c], caller'[c] # None
      PROVE  \E n \in DOMAIN mailbox'[caller'[c]] \ taken'[caller'[c]] :
               mailbox'[caller'[c]][n] = ListListeners(c)
  <2>1. caller[c] \in Logs BY <1>2, <1>b, BoundsAssumption DEF Logs, None
  <2> QED BY <1>1, <1>2, <2>1 DEF Grows, WaitInv
<1>3. ASSUME NEW c \in Clients, getLog(c) PROVE WaitInv'
  <2> DEFINE r == ref[c]
             last == Len(mailbox[r]) + 1
  <2>1. ListListeners(c) \in Messages /\ Call(c, ListListeners(c)) /\ caller' = [caller EXCEPT ![c] = r]
    BY <1>3, MessageTypes DEF getLog
  <2>2. r \in Logs /\ mailbox' = [mailbox EXCEPT ![r] = Append(@, ListListeners(c))]
    BY <1>a, <2>1, CallTyped
  <2>3. last \in DOMAIN mailbox'[r] /\ mailbox'[r][last] = ListListeners(c) /\ last \notin DOMAIN mailbox[r]
    BY <1>b, <2>2
  <2>4. last \notin taken'[r]
    BY <1>1, <1>b, <2>2, <2>3 DEF Grows
  <2>5. caller'[c] = r /\ \A d \in Clients : d # c => caller'[d] = caller[d]
    BY <1>b, <2>1
  <2> HIDE DEF r, last
  <2> QED BY <1>2, <2>3, <2>4, <2>5 DEF WaitInv
<1>4. CASE UNCHANGED caller BY <1>2, <1>4 DEF WaitInv
<1>5. ASSUME NEW c \in Clients, ClientStep(c) PROVE WaitInv'
  BY <1>3, <1>4, <1>5 DEF ClientStep, getService, log, logAbout, addLogListener, removeLogListener
<1>6. CASE Activate \/ Notify BY <1>a, <1>4, <1>6, ActivateAdds, NotifyAdds
<1>7. CASE UNCHANGED vars BY <1>4, <1>7 DEF vars, clientVars
<1> QED BY <1>5, <1>6, <1>7 DEF Sending

LEMMA ReceivingKeepsWaits ==
  ASSUME CallerInv, WaitInv, NEW g \in Logs, NEW n \in DOMAIN mailbox[g], Received(g, n)
  PROVE  WaitInv'
<1>a. TypeInv /\ TypeOK BY DEF CallerInv, LogInv, TypeInv
<1>b. taken \in [Logs -> SUBSET Nat] /\ caller \in [Clients -> 0 .. MaxStarts]
  BY <1>a DEF TypeOK
<1>1. /\ UNCHANGED mailbox /\ n \notin taken[g] /\ mailbox[g][n] \in Messages
      /\ taken' = [taken EXCEPT ![g] = taken[g] \cup {n}]
  BY <1>a, ReceivedEffect
<1>2. \/ ReceiveList(g, n)
      \/ UNCHANGED caller /\ mailbox[g][n].kind # "ListListeners"
  BY DEF Received, ReceiveEntry, ReceiveNull, ReceiveRegister, ReceiveRemoveAll, Take
<1> SUFFICES ASSUME NEW c \in Clients, caller'[c] # None
             PROVE  \E k \in DOMAIN mailbox[caller'[c]] \ taken'[caller'[c]] :
                      mailbox[caller'[c]][k] = ListListeners(c)
  BY <1>1 DEF WaitInv
<1>3. caller'[c] = caller[c] /\ mailbox[g][n] # ListListeners(c)
  <2>1. CASE ReceiveList(g, n)
    <3> DEFINE s == mailbox[g][n].sender
    <3>1. mailbox[g][n] = ListListeners(s) /\ s \in Clients
      BY <2>1, <1>1, FieldTypes DEF ReceiveList, Take
    <3>2. caller' = [caller EXCEPT ![s] = None]
      BY <2>1 DEF ReceiveList
    <3> HIDE DEF s
    <3>3. c # s BY <1>b, <3>1, <3>2
    <3> QED BY <1>b, <3>1, <3>2, <3>3, PersonalMessages
  <2>2. CASE UNCHANGED caller /\ mailbox[g][n].kind # "ListListeners"
    BY <2>2, PersonalMessages
  <2> QED BY <1>2, <2>1, <2>2
<1>4. caller[c] \in Logs BY <1>3, <1>b, BoundsAssumption DEF Logs, None
<1>5. PICK k \in DOMAIN mailbox[caller[c]] \ taken[caller[c]] : mailbox[caller[c]][k] = ListListeners(c)
  BY <1>3 DEF WaitInv
<1>6. k \notin taken'[caller[c]]
  BY <1>1, <1>b, <1>3, <1>4, <1>5
<1> QED BY <1>3, <1>5, <1>6

LEMMA EndInit ==
  ASSUME Init
  PROVE  EndInv
<1>1. RegisteredInv BY DEF Init, RegisteredInv
<1>2. CallInv BY DEF Init, CallInv
<1>3. WaitInv BY DEF Init, WaitInv
<1>4. CloseInv BY DEF Init, CloseInv, Closed, Logs, None
<1> QED BY <1>1, <1>2, <1>3, <1>4, LogInit DEF EndInv, CallerInv

LEMMA EndNext ==
  ASSUME EndInv, [Next]_vars
  PROVE  EndInv'
<1>1. CallerInv' BY CallerNext DEF EndInv
<1>2. CASE Sending
  BY <1>1, <1>2, SendingKeepsCloses, SendingKeepsWaits DEF EndInv, CallerInv
<1>3. ASSUME NEW g \in Logs, Receive(g) PROVE CloseInv' /\ WaitInv'
  <2>1. PICK n \in DOMAIN mailbox[g] : Received(g, n) BY <1>3 DEF Receive, Received
  <2> QED BY <2>1, ReceivingKeepsCloses, ReceivingKeepsWaits DEF EndInv, CallerInv
<1> QED BY <1>1, <1>2, <1>3 DEF Next, Sending, EndInv

(* A client that waits for a reply waits at a Log that has an actor, with its *)
(* call among the messages that actor will receive: nothing but the end of the *)
(* actor can leave it waiting, no message of another takes the call's place  *)
(* and no restart of the bundle loses it (Log.listListeners, LoggerActor.act). *)
AwaitsItsCall ==
  \A c \in Clients : caller[c] # None =>
    /\ actor[caller[c]] # "none"
    /\ \E n \in Ready(caller[c]) : mailbox[caller[c]][n] = ListListeners(c)

THEOREM AwaitsItsCallHolds == Spec => []AwaitsItsCall
<1>1. Init => EndInv BY EndInit
<1>2. EndInv /\ [Next]_vars => EndInv' BY EndNext
<1>3. EndInv => AwaitsItsCall
  <2> SUFFICES ASSUME EndInv, NEW c \in Clients, caller[c] # None
               PROVE  /\ actor[caller[c]] # "none"
                      /\ \E n \in Ready(caller[c]) : mailbox[caller[c]][n] = ListListeners(c)
    BY DEF AwaitsItsCall
  <2> DEFINE g == caller[c]
  <2>a. TypeOK /\ FreshInv /\ current \in Nat
    BY DEF EndInv, CallerInv, LogInv, OrderInv, TypeInv, TypeOK
  <2>1. g \in Logs BY <2>a, BoundsAssumption DEF TypeOK, Logs, None
  <2>2. PICK n \in DOMAIN mailbox[g] \ taken[g] : mailbox[g][n] = ListListeners(c)
    BY DEF EndInv, WaitInv
  <2>3. mailbox[g][n].kind = "ListListeners" BY <2>2, PersonalMessages
  <2>4. n \in Ready(g) BY <2>2, <2>3 DEF Ready, Matched
  <2>5. g <= current
    <3>1. mailbox[g] # <<>> BY <2>2
    <3> QED BY <2>a, <2>1, <3>1 DEF FreshInv, Logs
  <2> HIDE DEF g
  <2> QED BY <2>1, <2>2, <2>4, <2>5 DEF g, EndInv, CloseInv
<1> QED BY <1>1, <1>2, <1>3, PTL DEF Spec

(* An actor exits only after stop closed its own Log, so a restart of the    *)
(* bundle never ends the Log of another start; and an actor that still runs  *)
(* after the close has the request in front of it (Log.close).              *)
EndsWithItsLog ==
  \A g \in Logs :
    /\ actor[g] = "exited" => Closed(g)
    /\ Closed(g) /\ actor[g] = "running" => \E n \in Ready(g) : CloseRequest(g, n)

THEOREM EndsWithItsLogHolds == Spec => []EndsWithItsLog
<1>1. Init => EndInv BY EndInit
<1>2. EndInv /\ [Next]_vars => EndInv' BY EndNext
<1>3. EndInv => EndsWithItsLog
  <2> SUFFICES ASSUME EndInv, NEW g \in Logs
               PROVE  /\ actor[g] = "exited" => Closed(g)
                      /\ Closed(g) /\ actor[g] = "running" => \E n \in Ready(g) : CloseRequest(g, n)
    BY DEF EndsWithItsLog
  <2>a. taken[g] \subseteq DOMAIN mailbox[g]
    BY DEF EndInv, CallerInv, LogInv, TypeInv, TypeOK
  <2>1. actor[g] = "exited" => Closed(g)
    BY <2>a DEF EndInv, CloseInv
  <2>2. ASSUME Closed(g), actor[g] = "running" PROVE \E n \in Ready(g) : CloseRequest(g, n)
    <3>1. PICK n \in DOMAIN mailbox[g] : CloseRequest(g, n)
      BY <2>2 DEF EndInv, CloseInv
    <3>2. n \notin taken[g]
      BY <2>2, <3>1 DEF CloseRequest, EndInv, CallerInv, LogInv, OrderInv, ExitLast
    <3> QED BY <3>1, <3>2 DEF Ready, Matched, CloseRequest
  <2> QED BY <2>1, <2>2
<1> QED BY <1>1, <1>2, <1>3, PTL DEF Spec

=============================================================================
