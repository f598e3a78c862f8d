----------------------------- MODULE OrderedLog -----------------------------
(***************************************************************************)
(* What the log promises, with no actor and no mailbox: each log numbers    *)
(* the messages it accepts, its file only grows, by numbers above those it  *)
(* holds, and a request to close bars every number behind it for ever.      *)
(***************************************************************************)
EXTENDS Naturals, Sequences

CONSTANT Logs

VARIABLES
  sent,    \* log -> how many messages it has accepted
  closed,  \* log -> the numbers of the requests to close it
  file     \* log -> the numbers of the entries written, in writing order

vars == <<sent, closed, file>>

Init ==
  /\ sent = [g \in Logs |-> 0]
  /\ closed = [g \in Logs |-> {}]
  /\ file = [g \in Logs |-> <<>>]

\* Messages arrive, at any time and from anyone; some may be requests to close.
Accept(g) ==
  /\ sent'[g] \in Nat /\ sent'[g] > sent[g]
  /\ sent' = [sent EXCEPT ![g] = sent'[g]]
  /\ closed[g] \subseteq closed'[g]
  /\ closed'[g] \ closed[g] \subseteq (sent[g] + 1) .. sent'[g]
  /\ closed' = [closed EXCEPT ![g] = closed'[g]]
  /\ UNCHANGED file

\* Message n is appended: later than all in the file, earlier than any close.
Write(g, n) ==
  /\ n \in 1 .. sent[g]
  /\ \A i \in DOMAIN file[g] : file[g][i] < n
  /\ \A c \in closed[g] : n < c
  /\ file' = [file EXCEPT ![g] = Append(@, n)]
  /\ UNCHANGED <<sent, closed>>

Next == \E g \in Logs : Accept(g) \/ \E n \in 1 .. sent[g] : Write(g, n)

Spec == Init /\ [][Next]_vars

=============================================================================
