---------------------------- MODULE LogBroadcast ----------------------------
(***************************************************************************)
(* What one hub of the microservice promises: an append-only log of        *)
(* messages, and subscribers that each read it one message at a time from  *)
(* the point where they joined.  The publisher waits for the slowest       *)
(* subscriber, so no reader is ever more than one message behind.          *)
(***************************************************************************)
EXTENDS Integers, Sequences

CONSTANTS Messages, Readers

VARIABLES
  log,        \* every message published so far
  from,       \* from[r]: how many messages came before r's subscription
  inbox,      \* inbox[r]: the messages r has read
  subscribed  \* the readers that have joined

vars == <<log, from, inbox, subscribed>>

Position(r) == from[r] + Len(inbox[r])
CaughtUp(r) == Position(r) = Len(log)

Init ==
  /\ log = << >>
  /\ from = [r \in Readers |-> 0]
  /\ inbox = [r \in Readers |-> << >>]
  /\ subscribed = {}

\* A message is published once; all subscribers have read the ones before it
Publish(m) ==
  /\ \A k \in 1 .. Len(log) : log[k] # m
  /\ \A r \in subscribed : CaughtUp(r)
  /\ log' = Append(log, m)
  /\ UNCHANGED <<from, inbox, subscribed>>

Read(r) ==
  /\ r \in subscribed /\ ~ CaughtUp(r)
  /\ inbox' = [inbox EXCEPT ![r] = Append(@, log[Position(r) + 1])]
  /\ UNCHANGED <<log, from, subscribed>>

\* A reader joins at the end of the log, or in time for its last message if
\* nobody has read that yet
Subscribe(r) ==
  /\ r \notin subscribed
  /\ subscribed' = subscribed \cup {r}
  /\ \/ from' = [from EXCEPT ![r] = Len(log)]
     \/ /\ log # << >> /\ \A q \in subscribed : ~ CaughtUp(q)
        /\ from' = [from EXCEPT ![r] = Len(log) - 1]
  /\ UNCHANGED <<log, inbox>>

Next ==
  \/ \E m \in Messages : Publish(m)
  \/ \E r \in Readers : Read(r) \/ Subscribe(r)

Spec == Init /\ [][Next]_vars

\* Every subscriber gets every message published since it joined
FairSpec == Spec /\ \A r \in Readers : WF_vars(Read(r))
=============================================================================
