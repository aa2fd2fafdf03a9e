------------------------- MODULE MicroserviceProofs -------------------------
(***************************************************************************)
(* Proofs about Microservice, for every set of RPCs, every ACL and every   *)
(* metadata: the inductive invariant IInv, the safety properties that      *)
(* follow from it, and the refinement of LogBroadcast by both hubs.        *)
(*                                                                         *)
(* Layout: facts about sequences and lists; frames, which say what a step  *)
(* keeps if it leaves some variables alone; one lemma per action; the      *)
(* theorems.  Then, on top of IInv: what the interceptors tell the streams *)
(* of a list, in which order the senders close them, and that access       *)
(* control comes before everything else.                                   *)
(***************************************************************************)
EXTENDS Microservice, TLAPS

StreamStates == {"idle", "denied", "rlock", "notify", "lock",
                 "locking", "select", "sending", "returned"}

-----------------------------------------------------------------------------
(* Sequences, lists and loops.                                             *)

\* Append adds one element at the end and keeps the others
LEMMA AppendFacts ==
  ASSUME NEW S, NEW q \in Seq(S), NEW e \in S
  PROVE  /\ Append(q, e) \in Seq(S) /\ Len(Append(q, e)) = Len(q) + 1
         /\ \A k \in 1 .. Len(q) : Append(q, e)[k] = q[k]
         /\ Append(q, e)[Len(q) + 1] = e
OBVIOUS

\* The elements of the lists and of the histories have their types
LEMMA ListTypes ==
  ASSUME TypeOK, NEW h \in Hubs
  PROVE  /\ listeners[h] \in Seq(Streams) /\ accepted[h] \in Seq(Calls)
         /\ Len(listeners[h]) \in Nat /\ Len(accepted[h]) \in Nat
         /\ \A i \in 1 .. Len(listeners[h]) : listeners[h][i] \in Streams
         /\ \A k \in 1 .. Len(accepted[h]) : accepted[h][k] \in Calls
<1>1. listeners[h] \in Seq(Streams) /\ accepted[h] \in Seq(Calls)
  BY DEF TypeOK
<1> QED
  BY <1>1

\* A sender inside its range loop points at a stream of its list
LEMMA SenderTarget ==
  ASSUME IInv, NEW h \in Hubs, Iterating(h), InLoop(h)
  PROVE  next[h] \in 1 .. Len(listeners[h]) /\ listeners[h][next[h]] \in Streams
<1>1. next[h] \in 1 .. Len(listeners[h])
  BY ListTypes DEF IInv, TypeOK, ListStableWhileRead, CountsFromOne, InLoop
<1> QED
  BY <1>1, ListTypes DEF IInv

\* So does an interceptor inside its own
LEMMA StreamTarget ==
  ASSUME IInv, NEW s \in Streams, Notifying(s), InLoop(s)
  PROVE  next[s] \in 1 .. Len(listeners[Hub(s)]) /\ listeners[Hub(s)][next[s]] \in Streams
<1>1. Hub(s) \in Hubs
  BY DEF Hub, Hubs
<1>2. next[s] \in 1 .. Len(listeners[Hub(s)])
  BY <1>1, ListTypes DEF IInv, TypeOK, ListStableWhileRead, CountsFromOne, InLoop
<1> QED
  BY <1>1, <1>2, ListTypes DEF IInv

-----------------------------------------------------------------------------
(* Frames.                                                                 *)

\* The step neither registers a stream nor accepts or delivers a message
Quiet ==
  /\ UNCHANGED <<listeners, accepted, joined, got>>
  /\ \A s \in Streams : Registered(s)' <=> Registered(s)

LEMMA QuietKeepsLists ==
  ASSUME TypeOK, Lists, OnlyRegisteredReceive, Quiet
  PROVE  Lists' /\ OnlyRegisteredReceive'
<1> USE DEF Quiet
<1>1. ASSUME NEW h \in Hubs, NEW i \in 1 .. Len(listeners[h])
      PROVE  Registered(listeners[h][i])' /\ Hub(listeners[h][i])' = h
  BY ListTypes DEF Lists, Hub
<1>2. ASSUME NEW s \in Streams, Registered(s)'
      PROVE  \E i \in 1 .. Len(listeners[Hub(s)]) : listeners[Hub(s)][i] = s
  BY <1>2 DEF Lists
<1>3. Lists'
  BY <1>1, <1>2 DEF Lists, Hub
<1>4. OnlyRegisteredReceive'
  BY DEF OnlyRegisteredReceive
<1> QED
  BY <1>3, <1>4

LEMMA QuietKeepsDelivery ==
  ASSUME DeliveredInOrder, Quiet,
         \A h \in Hubs : \A i \in 1 .. Len(listeners[h]) : Pending(h, i)' = Pending(h, i)
  PROVE  DeliveredInOrder'
BY DEF DeliveredInOrder, Delivered, Quiet

LEMMA QuietKeepsCounts ==
  ASSUME OnlyAllowedProceed, LoggedAndCountedOnce, UNCHANGED <<accepted, call>>
  PROVE  OnlyAllowedProceed' /\ LoggedAndCountedOnce'
BY DEF OnlyAllowedProceed, LoggedAndCountedOnce, Allowed, Authenticated, Permitted, Admits, Passed

\* The step only moves a call that has not been accepted or has been by both hubs
LEMMA OutsideHubs ==
  ASSUME IInv, TypeOK', OnlyAllowedProceed',
         UNCHANGED <<stream, sender, listeners, lockVars, loopVars, accepted, joined, got>>,
         \A c \in Calls, h \in Hubs : call'[c] \in Passed(h) <=> call[c] \in Passed(h)
  PROVE  IInv' /\ Quiet
<1> USE DEF IInv, lockVars, loopVars
<1>1. Quiet
  BY DEF Quiet, Registered
<1>2. Locks' /\ ListStableWhileRead'
  BY DEF Locks, ListStableWhileRead, Iterating, Notifying
<1>3. CountsFromOne' /\ SendersHaveMessages'
  BY DEF CountsFromOne, SendersHaveMessages
<1>4. LoggedAndCountedOnce'
  BY DEF LoggedAndCountedOnce, Allowed, Authenticated, Permitted, Admits, Passed
<1>5. DeliveredInOrder'
  BY <1>1, QuietKeepsDelivery DEF Pending
<1> QED
  BY <1>1, <1>2, <1>3, <1>4, <1>5, QuietKeepsLists

-----------------------------------------------------------------------------
(* Unary RPCs and the shutdown goroutine.                                  *)

LEMMA InvokeIInv ==
  ASSUME IInv, NEW c \in Calls, Invoke(c)
  PROVE  IInv' /\ Quiet
<1>1. TypeOK'
  BY DEF IInv, TypeOK, Invoke, lockVars, loopVars, history
<1>2. OnlyAllowedProceed'
  <2>1. ASSUME NEW d \in Calls, call'[d] \notin {"idle", "denied"}
        PROVE  Allowed(d)
    BY <2>1 DEF IInv, TypeOK, OnlyAllowedProceed, Invoke
  <2> QED
    BY <2>1 DEF OnlyAllowedProceed, Allowed, Authenticated, Permitted, Admits
<1>3. \A d \in Calls, h \in Hubs : call'[d] \in Passed(h) <=> call[d] \in Passed(h)
  BY DEF IInv, TypeOK, Passed, Invoke
<1> QED
  BY <1>1, <1>2, <1>3, OutsideHubs DEF Invoke, history

LEMMA HandleIInv ==
  ASSUME IInv, NEW c \in Calls, Handle(c)
  PROVE  IInv' /\ Quiet
<1>1. TypeOK'
  BY DEF IInv, TypeOK, Handle, lockVars, loopVars, history
<1>2. OnlyAllowedProceed'
  <2>1. ASSUME NEW d \in Calls, call'[d] \notin {"idle", "denied"}
        PROVE  Allowed(d)
    BY <2>1 DEF IInv, TypeOK, OnlyAllowedProceed, Handle
  <2> QED
    BY <2>1 DEF OnlyAllowedProceed, Allowed, Authenticated, Permitted, Admits
<1>3. \A d \in Calls, h \in Hubs : call'[d] \in Passed(h) <=> call[d] \in Passed(h)
  BY DEF IInv, TypeOK, Passed, Handle
<1> QED
  BY <1>1, <1>2, <1>3, OutsideHubs DEF Handle, history

LEMMA ServerIInv ==
  ASSUME IInv, Cancel \/ StopServer \/ Serve \/ UNCHANGED vars
  PROVE  IInv' /\ Quiet
<1> USE DEF Cancel, StopServer, Serve, vars, lockVars, loopVars, history
<1>1. TypeOK'
  BY DEF IInv, TypeOK
<1>2. call' = call /\ OnlyAllowedProceed'
  BY DEF IInv, OnlyAllowedProceed, Allowed, Authenticated, Permitted, Admits
<1> QED
  BY <1>1, <1>2, OutsideHubs DEF Passed

-----------------------------------------------------------------------------
(* The senders.                                                            *)

LEMMA AcceptIInv ==
  ASSUME IInv, NEW h \in Hubs, NEW c \in Calls, Accept(h, c)
  PROVE  IInv'
<1> USE DEF IInv, Accept, lockVars, loopVars, history
<1>1. accepted'[h] = Append(accepted[h], c) /\ accepted[h] \in Seq(Calls)
  BY DEF TypeOK
<1>2. \A g \in Hubs \ {h} : accepted'[g] = accepted[g] /\ sender'[g] = sender[g]
  BY DEF TypeOK
<1>3. sender'[h] = "rlock" /\ sender[h] = "select"
  BY DEF TypeOK
<1>4. TypeOK'
  BY DEF TypeOK
<1>5. Locks' /\ ListStableWhileRead' /\ CountsFromOne'
  BY DEF Locks, ListStableWhileRead, CountsFromOne, Iterating, Notifying, TypeOK
<1>6. Lists' /\ OnlyRegisteredReceive'
  BY DEF Lists, Hub, OnlyRegisteredReceive, Registered
<1>7. SendersHaveMessages'
  BY <1>1, <1>2, AppendFacts DEF SendersHaveMessages
<1>8. OnlyAllowedProceed'
  <2>1. ASSUME NEW d \in Calls, call'[d] \notin {"idle", "denied"}
        PROVE  Allowed(d)
    BY <2>1 DEF TypeOK, OnlyAllowedProceed, Hubs
  <2> QED
    BY <2>1 DEF OnlyAllowedProceed, Allowed, Authenticated, Permitted, Admits
<1>9. LoggedAndCountedOnce'
  <2>1. Allowed(c) /\ c \notin {accepted[h][k] : k \in 1 .. Len(accepted[h])}
    BY DEF OnlyAllowedProceed, LoggedAndCountedOnce, Passed, Hubs
  <2>2. ASSUME NEW g \in Hubs, NEW d \in Calls
        PROVE  (\E k \in 1 .. Len(accepted'[g]) : accepted'[g][k] = d)
                 <=> Allowed(d) /\ call'[d] \in Passed(g)
    <3>1. CASE d = c /\ g = h
      <4>1. accepted'[g][Len(accepted[g]) + 1] = c /\ Len(accepted[g]) + 1 \in 1 .. Len(accepted'[g])
        BY <1>1, <3>1, AppendFacts
      <4>2. call'[c] \in Passed(h)
        BY DEF TypeOK, Passed, Hubs
      <4> QED
        BY <2>1, <3>1, <4>1, <4>2
    <3>2. CASE d = c /\ g # h
      <4>1. call'[c] \in Passed(g) <=> call[c] \in Passed(g)
        BY <3>2 DEF TypeOK, Passed, Hubs
      <4> QED
        BY <1>2, <3>2, <4>1 DEF LoggedAndCountedOnce
    <3>3. CASE d # c
      <4>1. call'[d] = call[d]
        BY <3>3 DEF TypeOK
      <4>2. (\E k \in 1 .. Len(accepted'[g]) : accepted'[g][k] = d)
              <=> (\E k \in 1 .. Len(accepted[g]) : accepted[g][k] = d)
        <5>1. CASE g = h
          BY <1>1, <3>3, <5>1, AppendFacts
        <5>2. CASE g # h
          BY <1>2, <5>2
        <5> QED
          BY <5>1, <5>2
      <4> QED
        BY <4>1, <4>2 DEF LoggedAndCountedOnce
    <3> QED
      BY <3>1, <3>2, <3>3
  <2>3. ASSUME NEW g \in Hubs, NEW j \in 1 .. Len(accepted'[g]),
               NEW k \in 1 .. Len(accepted'[g]), accepted'[g][j] = accepted'[g][k]
        PROVE  j = k
    <3>1. CASE g = h
      BY <1>1, <2>1, <2>3, <3>1, AppendFacts DEF LoggedAndCountedOnce
    <3>2. CASE g # h
      BY <1>2, <2>3, <3>2 DEF LoggedAndCountedOnce
    <3> QED
      BY <3>1, <3>2
  <2> QED
    BY <2>2, <2>3 DEF LoggedAndCountedOnce, Allowed, Authenticated, Permitted, Admits, Passed
<1>10. DeliveredInOrder'
  <2> SUFFICES ASSUME NEW g \in Hubs, NEW i \in 1 .. Len(listeners[g])
      PROVE  Delivered(g, i)'
    BY DEF DeliveredInOrder
  <2> DEFINE l == listeners[g][i]
  <2>1. l \in Streams /\ joined[l] \in Nat /\ got[l] \in Seq(Calls)
    BY ListTypes DEF TypeOK
  <2>2. /\ joined[l] + Len(got[l]) + Pending(g, i) = Len(accepted[g])
        /\ \A k \in 1 .. Len(got[l]) : got[l][k] = accepted[g][joined[l] + k]
    BY DEF DeliveredInOrder, Delivered
  <2>3. CASE g = h
    <3>1. Pending(g, i) = 0 /\ Pending(g, i)' = 1
      BY <1>3, <2>3 DEF Pending
    <3>2. Len(accepted'[g]) = Len(accepted[g]) + 1
      BY <1>1, <2>3, AppendFacts
    <3>3. ASSUME NEW k \in 1 .. Len(got[l])
          PROVE  got[l][k] = accepted'[g][joined[l] + k]
      <4>1. joined[l] + k \in 1 .. Len(accepted[g])
        BY <2>1, <2>2, <3>1
      <4> QED
        BY <1>1, <2>2, <2>3, <4>1, AppendFacts
    <3>4. joined[l] + Len(got[l]) + 1 = Len(accepted'[g])
      BY <2>1, <2>2, <3>1, <3>2
    <3>5. UNCHANGED <<listeners, joined, got>>
      OBVIOUS
    <3> QED
      BY <3>1, <3>3, <3>4, <3>5 DEF Delivered
  <2>4. CASE g # h
    <3>1. Pending(g, i)' = Pending(g, i)
      BY <1>2, <2>4 DEF Pending
    <3> QED
      BY <1>2, <2>2, <2>4, <3>1 DEF Delivered
  <2> QED
    BY <2>3, <2>4
<1> QED
  BY <1>4, <1>5, <1>6, <1>7, <1>8, <1>9, <1>10

LEMMA SenderRLockIInv ==
  ASSUME IInv, NEW h \in Hubs, SenderRLock(h)
  PROVE  IInv' /\ Quiet
<1> USE RpcAssumption DEF IInv, SenderRLock, RLock, EnterLoop, history
<1>1. TypeOK'
  BY DEF TypeOK
<1>2. Locks'
  BY DEF Locks, Iterating, Notifying, TypeOK, Rpcs
<1>3. ListStableWhileRead'
  BY <1>2 DEF ListStableWhileRead, Locks, Iterating, Notifying, TypeOK, Rpcs
<1>4. Quiet
  BY DEF Quiet, Registered, TypeOK
<1>5. CountsFromOne' /\ SendersHaveMessages'
  BY DEF CountsFromOne, SendersHaveMessages, TypeOK
<1>6. OnlyAllowedProceed' /\ LoggedAndCountedOnce'
  BY QuietKeepsCounts
<1>7. DeliveredInOrder'
  <2>1. ASSUME NEW g \in Hubs, NEW i \in 1 .. Len(listeners[g])
        PROVE  Pending(g, i)' = Pending(g, i)
    <3>1. CASE g = h
      BY <3>1 DEF Pending, TypeOK
    <3>2. CASE g # h
      BY <3>2 DEF Pending, TypeOK
    <3> QED
      BY <3>1, <3>2
  <2> QED
    BY <1>4, <2>1, QuietKeepsDelivery
<1> QED
  BY <1>1, <1>2, <1>3, <1>4, <1>5, <1>6, <1>7, QuietKeepsLists

LEMMA DispatchIInv ==
  ASSUME IInv, NEW h \in Hubs, Dispatch(h)
  PROVE  IInv'
<1> DEFINE l == listeners[h][next[h]]
<1>1. l \in Streams /\ next[h] \in 1 .. Len(listeners[h])
  BY SenderTarget DEF Dispatch, Iterating
<1>2. Len(accepted[h]) > 0 /\ accepted[h] \in Seq(Calls)
  BY ListTypes DEF IInv, SendersHaveMessages, Dispatch
<1>3. got'[l] = Append(got[l], Current(h)) /\ got[l] \in Seq(Calls) /\ Current(h) \in Calls
  <2>1. got \in [Streams -> Seq(Calls)] /\ got' = [got EXCEPT ![l] = Append(@, Current(h))]
    BY DEF Dispatch, IInv, TypeOK
  <2>2. Current(h) \in Calls
    BY <1>2 DEF Current
  <2> QED
    BY <1>1, <2>1, <2>2
<1>4. TypeOK'
  <2>1. stream' \in [Streams -> StreamStates]
    BY <1>1 DEF IInv, TypeOK, Dispatch, Consume, StreamStates
  <2>2. next' \in [Hubs \cup Streams -> Nat] /\ last' = last
    BY DEF IInv, TypeOK, Dispatch, Advance
  <2>3. got' \in [Streams -> Seq(Calls)]
    BY <1>1, <1>3, AppendFacts DEF IInv, TypeOK, Dispatch
  <2> QED
    BY <2>1, <2>2, <2>3 DEF IInv, TypeOK, Dispatch, lockVars, StreamStates
<1>5. ASSUME NEW g \in Hubs, NEW i \in 1 .. Len(listeners[g])
      PROVE  Delivered(g, i)'
  <2> DEFINE m == listeners[g][i]
  <2>1. Delivered(g, i) /\ m \in Streams
    BY <1>5, ListTypes DEF IInv, DeliveredInOrder
  <2>2. joined[m] \in Nat /\ got[m] \in Seq(Calls) /\ next[h] \in Nat /\ next'[h] = next[h] + 1
    BY <2>1 DEF IInv, TypeOK, Dispatch, Advance
  <2>3. UNCHANGED <<listeners, accepted, joined, sender>> /\ sender[h] = "send"
    BY DEF Dispatch
  <2>4. CASE m = l
    <3>1. g = h /\ i = next[h]
      BY <1>1, <2>4 DEF IInv, Lists
    <3>0. Len(got[m]) \in Nat
      BY <2>2
    <3>2. Pending(g, i) = 1 /\ Pending(g, i)' = 0
      BY <2>2, <2>3, <3>1 DEF Pending
    <3>3. joined[m] + Len(got[m]) + 1 = Len(accepted[h])
      BY <2>1, <3>1, <3>2 DEF Delivered
    <3>4. Len(got'[m]) = Len(got[m]) + 1
      BY <1>3, <2>4, AppendFacts
    <3>5. ASSUME NEW k \in 1 .. Len(got'[m])
          PROVE  got'[m][k] = accepted[h][joined[m] + k]
      <4>1. CASE k = Len(got[m]) + 1
        <5>1. got'[m][k] = accepted[h][Len(accepted[h])]
          BY <1>3, <2>4, <4>1, AppendFacts DEF Current
        <5>2. joined[m] + k = Len(accepted[h])
          <6>1. joined[m] \in Nat
            BY <2>2
          <6> HIDE DEF m
          <6> QED
            BY <3>0, <3>3, <4>1, <6>1
        <5> QED
          BY <5>1, <5>2
      <4>2. CASE k # Len(got[m]) + 1
        <5>1. k \in 1 .. Len(got[m])
          BY <2>2, <3>4, <4>2
        <5> QED
          <6>1. got'[m][k] = got[m][k]
            BY <1>3, <2>4, <5>1, AppendFacts
          <6>2. got[m][k] = accepted[h][joined[m] + k]
            BY <2>1, <3>1, <5>1 DEF Delivered
          <6> QED
            BY <6>1, <6>2
      <4> QED
        BY <4>1, <4>2
    <3>6. joined[m] + Len(got'[m]) + 0 = Len(accepted[h])
      BY <2>2, <3>0, <3>3, <3>4, SMTT(20)
    <3> QED
      BY <2>3, <3>1, <3>2, <3>5, <3>6 DEF Delivered
  <2>5. CASE m # l
    <3>1. got'[m] = got[m]
      BY <1>1, <2>1, <2>5 DEF Dispatch, IInv, TypeOK
    <3>2. Pending(g, i)' = Pending(g, i)
      <4>1. CASE g = h
        <5>1. i # next[h]
          BY <2>5, <4>1
        <5> QED
          BY <2>2, <2>3, <4>1, <5>1 DEF Pending
      <4>2. CASE g # h
        BY <4>2 DEF Pending, Dispatch, Advance, IInv, TypeOK
      <4> QED
        BY <4>1, <4>2
    <3> QED
      BY <2>1, <2>3, <3>1, <3>2 DEF Delivered
  <2> QED
    BY <2>4, <2>5
<1>6. DeliveredInOrder'
  BY <1>5 DEF DeliveredInOrder, Dispatch
<1>7. Locks'
  BY RpcAssumption DEF IInv, Dispatch, Consume, Advance, lockVars, Locks, Iterating, Notifying, TypeOK
<1>8. ListStableWhileRead'
  <2>1. UNCHANGED <<sender, last, listeners>>
    BY DEF Dispatch, Advance
  <2>2. \A s \in Streams : Notifying(s)' => Notifying(s)
    BY DEF IInv, Dispatch, Consume, Notifying, TypeOK
  <2> QED
    BY <1>7, <2>1, <2>2 DEF IInv, ListStableWhileRead, Locks, Iterating, Hub
<1>9. \A s \in Streams : Registered(s)' <=> Registered(s)
  BY DEF IInv, Dispatch, Consume, Registered, TypeOK
<1>10. Lists'
  <2>1. ASSUME NEW g \in Hubs, NEW i \in 1 .. Len(listeners[g])
        PROVE  Registered(listeners[g][i])' /\ Hub(listeners[g][i])' = g
    BY <1>9, ListTypes DEF IInv, Dispatch, Lists, Hub
  <2>2. ASSUME NEW s \in Streams, Registered(s)'
        PROVE  \E i \in 1 .. Len(listeners[Hub(s)]) : listeners[Hub(s)][i] = s
    BY <1>9, <2>2 DEF IInv, Lists
  <2> QED
    BY <2>1, <2>2 DEF IInv, Dispatch, Lists, Hub
<1>11. CountsFromOne' /\ SendersHaveMessages'
  BY DEF IInv, Dispatch, Advance, CountsFromOne, SendersHaveMessages, TypeOK
<1>12. OnlyAllowedProceed' /\ LoggedAndCountedOnce'
  BY QuietKeepsCounts DEF IInv, Dispatch
<1>13. OnlyRegisteredReceive'
  <2>1. Registered(l)
    BY <1>1 DEF IInv, Lists
  <2> QED
    BY <1>1, <1>9, <2>1 DEF IInv, Dispatch, OnlyRegisteredReceive, TypeOK
<1> QED
  BY <1>4, <1>6, <1>7, <1>8, <1>10, <1>11, <1>12, <1>13 DEF IInv

LEMMA SenderRUnlockIInv ==
  ASSUME IInv, NEW h \in Hubs, SenderRUnlock(h)
  PROVE  IInv' /\ Quiet
<1> USE RpcAssumption DEF IInv, SenderRUnlock, RUnlock, InLoop, loopVars, history
<1>1. TypeOK'
  BY DEF TypeOK
<1>2. Locks'
  BY DEF Locks, Iterating, Notifying, TypeOK, Rpcs
<1>3. ListStableWhileRead'
  BY <1>2 DEF ListStableWhileRead, Locks, Iterating, Notifying, TypeOK, Rpcs
<1>4. Quiet
  BY DEF Quiet, Registered, TypeOK
<1>5. CountsFromOne' /\ SendersHaveMessages'
  BY DEF CountsFromOne, SendersHaveMessages, TypeOK
<1>6. OnlyAllowedProceed' /\ LoggedAndCountedOnce'
  BY QuietKeepsCounts
<1>7. DeliveredInOrder'
  <2>1. ASSUME NEW g \in Hubs, NEW i \in 1 .. Len(listeners[g])
        PROVE  Pending(g, i)' = Pending(g, i)
    <3>1. CASE g = h
      <4>1. next[h] \in Nat /\ last[h] = Len(listeners[h]) /\ Len(listeners[h]) \in Nat
        BY ListTypes DEF TypeOK, ListStableWhileRead, Iterating
      <4>2. ~ (next[h] <= i)
        BY <3>1, <4>1
      <4> QED
        BY <3>1, <4>2 DEF Pending, TypeOK
    <3>2. CASE g # h
      BY <3>2 DEF Pending, TypeOK
    <3> QED
      BY <3>1, <3>2
  <2> QED
    BY <1>4, <2>1, QuietKeepsDelivery
<1> QED
  BY <1>1, <1>2, <1>3, <1>4, <1>5, <1>6, <1>7, QuietKeepsLists

LEMMA BeginCloseIInv ==
  ASSUME IInv, NEW h \in Hubs, BeginClose(h)
  PROVE  IInv' /\ Quiet
<1> USE RpcAssumption DEF IInv, BeginClose, lockVars, loopVars, history
<1>1. TypeOK'
  BY DEF TypeOK
<1>2. Locks'
  BY DEF Locks, Iterating, Notifying, TypeOK, Rpcs
<1>3. ListStableWhileRead'
  BY <1>2 DEF ListStableWhileRead, Locks, Iterating, Notifying, TypeOK, Rpcs
<1>4. Quiet
  BY DEF Quiet, Registered, TypeOK
<1>5. CountsFromOne' /\ SendersHaveMessages'
  BY DEF CountsFromOne, SendersHaveMessages, TypeOK
<1>6. OnlyAllowedProceed' /\ LoggedAndCountedOnce'
  BY QuietKeepsCounts
<1>7. DeliveredInOrder'
  BY <1>4, QuietKeepsDelivery DEF Pending, TypeOK
<1> QED
  BY <1>1, <1>2, <1>3, <1>4, <1>5, <1>6, <1>7, QuietKeepsLists

LEMMA CloseListenerIInv ==
  ASSUME IInv, NEW h \in Hubs, CloseListener(h)
  PROVE  IInv' /\ Quiet
<1> USE RpcAssumption DEF IInv, CloseListener, InLoop, Advance, HearsClose, lockVars, history
<1>1. TypeOK'
  <2>1. listeners[h][next[h]] \in Streams
    BY SenderTarget DEF Iterating
  <2>2. stream' \in [Streams -> StreamStates]
    BY <2>1 DEF TypeOK, StreamStates
  <2>3. next' \in [Hubs \cup Streams -> Nat] /\ last' = last
    BY DEF TypeOK
  <2> QED
    BY <2>2, <2>3 DEF TypeOK, StreamStates
<1>2. Locks'
  BY DEF Locks, Iterating, Notifying, TypeOK, Rpcs
<1>3. ListStableWhileRead'
  BY <1>2 DEF ListStableWhileRead, Locks, Iterating, Notifying, TypeOK, Rpcs
<1>4. Quiet
  BY DEF Quiet, Registered, TypeOK
<1>5. CountsFromOne' /\ SendersHaveMessages'
  BY DEF CountsFromOne, SendersHaveMessages, TypeOK
<1>6. OnlyAllowedProceed' /\ LoggedAndCountedOnce'
  BY QuietKeepsCounts
<1>7. DeliveredInOrder'
  BY <1>4, QuietKeepsDelivery DEF Pending, TypeOK
<1> QED
  BY <1>1, <1>2, <1>3, <1>4, <1>5, <1>6, <1>7, QuietKeepsLists

-----------------------------------------------------------------------------
(* The streams.                                                            *)

LEMMA OpenIInv ==
  ASSUME IInv, NEW s \in Streams, Open(s)
  PROVE  IInv' /\ Quiet
<1> USE RpcAssumption DEF IInv, Open, lockVars, loopVars, history
<1>1. TypeOK'
  BY DEF TypeOK
<1>2. Locks'
  BY DEF Locks, Iterating, Notifying, TypeOK, Rpcs
<1>3. ListStableWhileRead'
  BY <1>2 DEF ListStableWhileRead, Locks, Iterating, Notifying, TypeOK, Rpcs
<1>4. Quiet
  BY DEF Quiet, Registered, TypeOK
<1>5. CountsFromOne' /\ SendersHaveMessages'
  BY DEF CountsFromOne, SendersHaveMessages, TypeOK
<1>6. OnlyAllowedProceed' /\ LoggedAndCountedOnce'
  BY QuietKeepsCounts
<1>7. DeliveredInOrder'
  BY <1>4, QuietKeepsDelivery DEF Pending, TypeOK
<1> QED
  BY <1>1, <1>2, <1>3, <1>4, <1>5, <1>6, <1>7, QuietKeepsLists

LEMMA StreamRLockIInv ==
  ASSUME IInv, NEW s \in Streams, StreamRLock(s)
  PROVE  IInv' /\ Quiet
<1> USE RpcAssumption DEF IInv, StreamRLock, RLock, EnterLoop, history
<1>1. TypeOK'
  BY DEF TypeOK
<1>2. Locks'
  BY DEF Locks, Iterating, Notifying, TypeOK, Rpcs
<1>3. ListStableWhileRead'
  BY <1>2 DEF ListStableWhileRead, Locks, Iterating, Notifying, TypeOK, Rpcs
<1>4. Quiet
  BY DEF Quiet, Registered, TypeOK
<1>5. CountsFromOne' /\ SendersHaveMessages'
  BY DEF CountsFromOne, SendersHaveMessages, TypeOK
<1>6. OnlyAllowedProceed' /\ LoggedAndCountedOnce'
  BY QuietKeepsCounts
<1>7. DeliveredInOrder'
  <2>1. \A h \in Hubs : next'[h] = next[h]
    BY DEF TypeOK, Rpcs
  <2> QED
    BY <1>4, <2>1, QuietKeepsDelivery DEF Pending
<1> QED
  BY <1>1, <1>2, <1>3, <1>4, <1>5, <1>6, <1>7, QuietKeepsLists

LEMMA NotifyIInv ==
  ASSUME IInv, NEW s \in Streams, Notify(s)
  PROVE  IInv' /\ Quiet
<1> USE RpcAssumption DEF IInv, Notify, InLoop, Advance, Consume, lockVars
<1>1. TypeOK'
  <2>1. listeners[Hub(s)][next[s]] \in Streams
    BY StreamTarget DEF Notifying
  <2>2. stream' \in [Streams -> StreamStates]
    BY <2>1 DEF TypeOK, StreamStates
  <2>3. next' \in [Hubs \cup Streams -> Nat] /\ last' = last
    BY SMTT(20) DEF TypeOK
  <2>4. heard' \in [Streams -> SUBSET Streams]
    BY <2>1 DEF TypeOK
  <2> QED
    BY <2>2, <2>3, <2>4 DEF TypeOK, StreamStates
<1>2. Locks'
  BY DEF Locks, Iterating, Notifying, TypeOK, Rpcs
<1>3. ListStableWhileRead'
  BY <1>2 DEF ListStableWhileRead, Locks, Iterating, Notifying, TypeOK, Rpcs
<1>4. Quiet
  BY DEF Quiet, Registered, TypeOK
<1>5. CountsFromOne' /\ SendersHaveMessages'
  BY SMTT(20) DEF CountsFromOne, SendersHaveMessages, TypeOK
<1>6. OnlyAllowedProceed' /\ LoggedAndCountedOnce'
  BY QuietKeepsCounts
<1>7. DeliveredInOrder'
  <2>1. \A h \in Hubs : next'[h] = next[h]
    BY DEF TypeOK, Rpcs
  <2> QED
    BY <1>4, <2>1, QuietKeepsDelivery DEF Pending
<1> QED
  BY <1>1, <1>2, <1>3, <1>4, <1>5, <1>6, <1>7, QuietKeepsLists

LEMMA StreamRUnlockIInv ==
  ASSUME IInv, NEW s \in Streams, StreamRUnlock(s)
  PROVE  IInv' /\ Quiet
<1> USE RpcAssumption DEF IInv, StreamRUnlock, RUnlock, InLoop, loopVars, history
<1>1. TypeOK'
  BY DEF TypeOK
<1>2. Locks'
  BY DEF Locks, Iterating, Notifying, TypeOK, Rpcs
<1>3. ListStableWhileRead'
  BY <1>2 DEF ListStableWhileRead, Locks, Iterating, Notifying, TypeOK, Rpcs
<1>4. Quiet
  BY DEF Quiet, Registered, TypeOK
<1>5. CountsFromOne' /\ SendersHaveMessages'
  BY DEF CountsFromOne, SendersHaveMessages, TypeOK
<1>6. OnlyAllowedProceed' /\ LoggedAndCountedOnce'
  BY QuietKeepsCounts
<1>7. DeliveredInOrder'
  BY <1>4, QuietKeepsDelivery DEF Pending, TypeOK
<1> QED
  BY <1>1, <1>2, <1>3, <1>4, <1>5, <1>6, <1>7, QuietKeepsLists

LEMMA LockIInv ==
  ASSUME IInv, NEW s \in Streams, Lock(s)
  PROVE  IInv' /\ Quiet
<1> USE RpcAssumption DEF IInv, Lock, loopVars, history
<1>1. TypeOK'
  BY DEF TypeOK
<1>2. Locks'
  BY DEF Locks, Iterating, Notifying, TypeOK, Rpcs
<1>3. ListStableWhileRead'
  BY <1>2 DEF ListStableWhileRead, Locks, Iterating, Notifying, TypeOK, Rpcs
<1>4. Quiet
  BY DEF Quiet, Registered, TypeOK
<1>5. CountsFromOne' /\ SendersHaveMessages'
  BY DEF CountsFromOne, SendersHaveMessages, TypeOK
<1>6. OnlyAllowedProceed' /\ LoggedAndCountedOnce'
  BY QuietKeepsCounts
<1>7. DeliveredInOrder'
  BY <1>4, QuietKeepsDelivery DEF Pending, TypeOK
<1> QED
  BY <1>1, <1>2, <1>3, <1>4, <1>5, <1>6, <1>7, QuietKeepsLists

LEMMA RegisterIInv ==
  ASSUME IInv, NEW s \in Streams, Register(s)
  PROVE  IInv'
<1> DEFINE g == Hub(s)
           n == Len(listeners[g]) + 1
<1> USE RpcAssumption DEF IInv
<1>1. g \in Hubs
  BY DEF Hub, Hubs
<1>2. /\ listeners[g] \in Seq(Streams)
      /\ listeners'[g] = Append(listeners[g], s)
      /\ \A h \in Hubs \ {g} : listeners'[h] = listeners[h]
  BY <1>1, ListTypes DEF Register, TypeOK
<1>3. ~ Registered(s) /\ ~ Iterating(g)
  BY <1>1 DEF Register, Registered, Locks
<1>4. /\ \A r \in Streams \ {s} : Registered(r)' <=> Registered(r)
      /\ Registered(s)'
  <2>1. stream'[s] = "select" /\ \A r \in Streams \ {s} : stream'[r] = stream[r]
    BY DEF Register, TypeOK
  <2> QED
    BY <2>1 DEF Registered
<1>5. /\ joined'[s] = Len(accepted[g]) - (IF sender[g] = "rlock" THEN 1 ELSE 0)
      /\ joined'[s] \in Nat /\ Len(accepted[g]) \in Nat
      /\ \A r \in Streams \ {s} : joined'[r] = joined[r]
  <2>1. accepted[g] \in Seq(Calls) /\ Len(accepted[g]) \in Nat
    BY <1>1, ListTypes
  <2>2. sender[g] = "rlock" => Len(accepted[g]) > 0
    BY <1>1, <2>1 DEF SendersHaveMessages
  <2>3. joined'[s] = Len(accepted[g]) - (IF sender[g] = "rlock" THEN 1 ELSE 0)
    BY DEF Register, TypeOK
  <2>4. \A r \in Streams \ {s} : joined'[r] = joined[r]
    BY DEF Register, TypeOK
  <2> QED
    BY <2>1, <2>2, <2>3, <2>4
<1>6. TypeOK'
  <2>1. stream' \in [Streams -> {"idle", "denied", "rlock", "notify", "lock",
                                 "locking", "select", "sending", "returned"}]
    BY DEF Register, TypeOK
  <2>2. listeners' \in [Hubs -> Seq(Streams)]
    BY <1>1, <1>2, AppendFacts DEF Register, TypeOK
  <2>3. joined' \in [Streams -> Nat]
    BY <1>5 DEF Register, TypeOK
  <2> QED
    BY <2>1, <2>2, <2>3 DEF Register, TypeOK, loopVars, StreamStates
<1>7. Lists'
  <2>1. ASSUME NEW h \in Hubs, NEW i \in 1 .. Len(listeners'[h])
        PROVE  \/ i \in 1 .. Len(listeners[h]) /\ listeners'[h][i] = listeners[h][i]
               \/ h = g /\ i = n /\ listeners'[h][i] = s
    <3>1. CASE h = g
      BY <1>2, <3>1, AppendFacts
    <3>2. CASE h # g
      BY <1>2, <3>2
    <3> QED
      BY <3>1, <3>2
  <2>2. ASSUME NEW h \in Hubs, NEW i \in 1 .. Len(listeners[h])
        PROVE  listeners[h][i] \in Streams \ {s}
    BY <1>3, ListTypes DEF Lists
  <2>3. ASSUME NEW h \in Hubs, NEW i \in 1 .. Len(listeners'[h])
        PROVE  Registered(listeners[h][i])' /\ Hub(listeners[h][i])' = h
    <3>1. CASE i \in 1 .. Len(listeners[h]) /\ listeners'[h][i] = listeners[h][i]
      <4>1. Registered(listeners[h][i]) /\ Hub(listeners[h][i]) = h
        BY <3>1 DEF Lists
      <4> QED
        BY <1>4, <2>2, <3>1, <4>1 DEF Hub, Registered
    <3>2. CASE h = g /\ listeners'[h][i] = s
      BY <1>4, <3>2 DEF Hub, Registered
    <3> QED
      BY <2>1, <3>1, <3>2
  <2>4. ASSUME NEW h \in Hubs, NEW i \in 1 .. Len(listeners'[h]),
               NEW j \in 1 .. Len(listeners'[h]), listeners'[h][i] = listeners'[h][j]
        PROVE  i = j
    BY <2>1, <2>2, <2>4 DEF Lists
  <2>5. ASSUME NEW r \in Streams, Registered(r)'
        PROVE  \E i \in 1 .. Len(listeners'[Hub(r)]) : listeners'[Hub(r)][i] = r
    <3>1. CASE r = s
      BY <1>2, <3>1, AppendFacts
    <3>2. CASE r # s
      <4>1. PICK i \in 1 .. Len(listeners[Hub(r)]) : listeners[Hub(r)][i] = r
        BY <1>4, <2>5, <3>2 DEF Lists
      <4>2. Hub(r) \in Hubs
        BY DEF Hub, Hubs
      <4> QED
        BY <1>2, <4>1, <4>2, AppendFacts
    <3> QED
      BY <3>1, <3>2
  <2> QED
    BY <2>3, <2>4, <2>5 DEF Lists, Hub
<1>8. ASSUME NEW h \in Hubs, NEW i \in 1 .. Len(listeners'[h])
      PROVE  Delivered(h, i)'
  <2>1. Pending(h, i)' = Pending(h, i)
    BY DEF Pending, Register, loopVars
  <2>2. got' = got /\ accepted' = accepted
    BY DEF Register
  <2>3. CASE i \in 1 .. Len(listeners[h]) /\ listeners'[h][i] = listeners[h][i]
    <3>1. listeners[h][i] \in Streams \ {s}
      BY <1>3, <2>3, ListTypes DEF Lists
    <3>2. Delivered(h, i)
      BY <2>3 DEF DeliveredInOrder
    <3> QED
      BY <1>5, <2>1, <2>2, <2>3, <3>1, <3>2 DEF Delivered
  <2>4. CASE h = g /\ i = n /\ listeners'[h][i] = s
    <3>1. got[s] = << >>
      BY <1>3 DEF OnlyRegisteredReceive
    <3>2. Pending(h, i) = IF sender[g] = "rlock" THEN 1 ELSE 0
      BY <1>3, <2>4 DEF Pending, Iterating
    <3>3. joined'[s] + 0 + Pending(h, i) = Len(accepted[g])
      BY <1>5, <3>2
    <3> QED
      BY <2>1, <2>2, <2>4, <3>1, <3>3 DEF Delivered
  <2> QED
    BY <1>2, <2>3, <2>4, AppendFacts, ListTypes
<1>9. DeliveredInOrder'
  BY <1>8 DEF DeliveredInOrder
<1>10. Locks' /\ ListStableWhileRead'
  BY DEF Register, loopVars, Locks, ListStableWhileRead, Iterating, Notifying, TypeOK
<1>11. CountsFromOne' /\ SendersHaveMessages' /\ OnlyRegisteredReceive'
  BY <1>4 DEF Register, loopVars, CountsFromOne, SendersHaveMessages, OnlyRegisteredReceive
<1>12. OnlyAllowedProceed' /\ LoggedAndCountedOnce'
  BY QuietKeepsCounts DEF Register
<1> QED
  BY <1>6, <1>7, <1>9, <1>10, <1>11, <1>12

LEMMA TickIInv ==
  ASSUME IInv, NEW s \in Streams, Tick(s)
  PROVE  IInv' /\ Quiet
<1> USE RpcAssumption DEF IInv, Tick, lockVars, loopVars, history
<1>1. TypeOK'
  BY DEF TypeOK
<1>2. Locks'
  BY DEF Locks, Iterating, Notifying, TypeOK, Rpcs
<1>3. ListStableWhileRead'
  BY <1>2 DEF ListStableWhileRead, Locks, Iterating, Notifying, TypeOK, Rpcs
<1>4. Quiet
  BY DEF Quiet, Registered, TypeOK
<1>5. CountsFromOne' /\ SendersHaveMessages'
  BY DEF CountsFromOne, SendersHaveMessages, TypeOK
<1>6. OnlyAllowedProceed' /\ LoggedAndCountedOnce'
  BY QuietKeepsCounts
<1>7. DeliveredInOrder'
  BY <1>4, QuietKeepsDelivery DEF Pending, TypeOK
<1> QED
  BY <1>1, <1>2, <1>3, <1>4, <1>5, <1>6, <1>7, QuietKeepsLists

LEMMA SendReturnsIInv ==
  ASSUME IInv, NEW s \in Streams, SendReturns(s)
  PROVE  IInv' /\ Quiet
<1> USE RpcAssumption DEF IInv, SendReturns, lockVars, loopVars, history
<1>1. TypeOK'
  BY DEF TypeOK
<1>2. Locks'
  BY DEF Locks, Iterating, Notifying, TypeOK, Rpcs
<1>3. ListStableWhileRead'
  BY <1>2 DEF ListStableWhileRead, Locks, Iterating, Notifying, TypeOK, Rpcs
<1>4. Quiet
  BY DEF Quiet, Registered, TypeOK
<1>5. CountsFromOne' /\ SendersHaveMessages'
  BY DEF CountsFromOne, SendersHaveMessages, TypeOK
<1>6. OnlyAllowedProceed' /\ LoggedAndCountedOnce'
  BY QuietKeepsCounts
<1>7. DeliveredInOrder'
  BY <1>4, QuietKeepsDelivery DEF Pending, TypeOK
<1> QED
  BY <1>1, <1>2, <1>3, <1>4, <1>5, <1>6, <1>7, QuietKeepsLists

-----------------------------------------------------------------------------
(* The invariant.                                                          *)

LEMMA InitIInv == Init => IInv
<1> SUFFICES ASSUME Init PROVE IInv
  OBVIOUS
<1> USE RpcAssumption DEF Init, Streams, Rpcs, Hubs
<1>1. TypeOK
  BY DEF TypeOK
<1>2. Locks /\ ListStableWhileRead
  BY DEF Locks, ListStableWhileRead, Iterating, Notifying
<1>3. Lists /\ OnlyRegisteredReceive
  BY DEF Lists, OnlyRegisteredReceive, Registered, Hub
<1>4. CountsFromOne /\ SendersHaveMessages /\ OnlyAllowedProceed
  BY DEF CountsFromOne, SendersHaveMessages, OnlyAllowedProceed
<1>5. LoggedAndCountedOnce
  BY DEF LoggedAndCountedOnce, Passed
<1>6. DeliveredInOrder
  BY DEF DeliveredInOrder, Delivered, Pending
<1> QED
  BY <1>1, <1>2, <1>3, <1>4, <1>5, <1>6 DEF IInv

LEMMA NextIInv == IInv /\ [Next]_vars => IInv'
<1> SUFFICES ASSUME IInv, [Next]_vars PROVE IInv'
  OBVIOUS
<1>1. CASE \E c \in Calls : CallStep(c)
  BY <1>1, InvokeIInv, AcceptIInv, HandleIInv DEF CallStep
<1>2. CASE \E h \in Hubs : SenderStep(h)
  BY <1>2, SenderRLockIInv, DispatchIInv, SenderRUnlockIInv, BeginCloseIInv,
     CloseListenerIInv DEF SenderStep
<1>3. CASE \E s \in Streams : StreamStep(s)
  BY <1>3, OpenIInv, StreamRLockIInv, NotifyIInv, StreamRUnlockIInv, LockIInv,
     RegisterIInv, TickIInv, SendReturnsIInv DEF StreamStep
<1>4. CASE Cancel \/ StopServer \/ Serve \/ UNCHANGED vars
  BY <1>4, ServerIInv
<1> QED
  BY <1>1, <1>2, <1>3, <1>4 DEF Next

\* IInv holds in every reachable state.
THEOREM Invariance == Spec => []IInv
BY InitIInv, NextIInv, PTL DEF Spec

\* Every variable of the microservice keeps its type, whatever the RPCs, their
\* metadata and the ACL are.
THEOREM TypeCorrectness == Spec => []TypeOK
<1>1. IInv => TypeOK
  BY DEF IInv
<1> QED
  BY <1>1, Invariance, PTL

\* No list of listeners grows while a sender or an interceptor ranges over it.
THEOREM ListStability == Spec => []ListStableWhileRead
<1>1. IInv => ListStableWhileRead
  BY DEF IInv
<1> QED
  BY <1>1, Invariance, PTL

\* Every registered stream receives every call that its hub accepts from then on,
\* in order and once, and is never more than the message being sent behind.
THEOREM Delivery == Spec => []DeliveredInOrder
<1>1. IInv => DeliveredInOrder
  BY DEF IInv
<1> QED
  BY <1>1, Invariance, PTL

\* Each admitted call is logged once and counted once before its handler runs, a
\* refused one never.
THEOREM CountingOnce == Spec => []LoggedAndCountedOnce
<1>1. IInv => LoggedAndCountedOnce
  BY DEF IInv
<1> QED
  BY <1>1, Invariance, PTL

-----------------------------------------------------------------------------
(* Refinement: each hub is a LogBroadcast.                                 *)

\* Hub h seen as a log that the streams S read; LogHub and StatHub are its two
\* instances
Side(h, S) == INSTANCE LogBroadcast WITH
  Messages <- Calls, Readers <- S,
  log <- accepted[h],
  from <- Mapped(S, joined), inbox <- Mapped(S, got),
  subscribed <- {s \in S : Registered(s)}

ReadersOf(h) == {s \in Streams : Hub(s) = h}

LEMMA QuietStutters ==
  ASSUME NEW h \in Hubs, Quiet
  PROVE  UNCHANGED Side(h, ReadersOf(h))!vars
BY DEF Quiet, Side!vars, Mapped, ReadersOf

\* A registered stream is as far as its place in the list of the hub says
LEMMA PositionInHub ==
  ASSUME IInv, NEW h \in Hubs, NEW s \in ReadersOf(h), Registered(s)
  PROVE  \E i \in 1 .. Len(listeners[h]) :
           /\ listeners[h][i] = s
           /\ Side(h, ReadersOf(h))!Position(s) + Pending(h, i) = Len(accepted[h])
<1>1. PICK i \in 1 .. Len(listeners[h]) : listeners[h][i] = s
  BY DEF ReadersOf, IInv, Lists
<1>2. Delivered(h, i)
  BY DEF IInv, DeliveredInOrder
<1> QED
  BY <1>1, <1>2 DEF Delivered, Side!Position, Mapped

\* A call that the sender of the hub takes is published
LEMMA AcceptPublishes ==
  ASSUME IInv, NEW h \in Hubs, NEW c \in Calls, Accept(h, c)
  PROVE  Side(h, ReadersOf(h))!Publish(c)
<1>1. \A k \in 1 .. Len(accepted[h]) : accepted[h][k] # c
  BY DEF IInv, LoggedAndCountedOnce, Accept, Passed, Hubs
<1>2. ASSUME NEW r \in ReadersOf(h), Registered(r)
      PROVE  Side(h, ReadersOf(h))!CaughtUp(r)
  <2>1. PICK i \in 1 .. Len(listeners[h]) :
             Side(h, ReadersOf(h))!Position(r) + Pending(h, i) = Len(accepted[h])
    BY <1>2, PositionInHub
  <2>2. Pending(h, i) = 0
    BY DEF Accept, Pending
  <2>3. Side(h, ReadersOf(h))!Position(r) \in Nat
    BY SMTT(20) DEF Side!Position, Mapped, IInv, TypeOK, ReadersOf
  <2> QED
    BY <2>1, <2>2, <2>3 DEF Side!CaughtUp
<1>3. accepted'[h] = Append(accepted[h], c)
  BY DEF Accept, IInv, TypeOK
<1>4. UNCHANGED <<Mapped(ReadersOf(h), joined), Mapped(ReadersOf(h), got),
                  {s \in ReadersOf(h) : Registered(s)}>>
  BY DEF Accept, Mapped, Registered, ReadersOf, Hub
<1> QED
  BY <1>1, <1>2, <1>3, <1>4 DEF Side!Publish

\* A message that a stream of the hub receives is read
LEMMA DispatchReads ==
  ASSUME IInv, NEW h \in Hubs, Dispatch(h)
  PROVE  Side(h, ReadersOf(h))!Read(listeners[h][next[h]])
<1> DEFINE l == listeners[h][next[h]]
           S == ReadersOf(h)
<1>1. l \in Streams /\ next[h] \in 1 .. Len(listeners[h])
  BY SenderTarget DEF Dispatch, Iterating
<1>2. l \in S /\ Registered(l)
  BY <1>1 DEF IInv, Lists, ReadersOf
<1>3. Delivered(h, next[h]) /\ Pending(h, next[h]) = 1
  BY <1>1 DEF IInv, DeliveredInOrder, TypeOK, Dispatch, Pending
<1>4. joined[l] \in Nat /\ Len(got[l]) \in Nat /\ got \in [Streams -> Seq(Calls)]
  <2>1. joined[l] \in Nat /\ got[l] \in Seq(Calls) /\ got \in [Streams -> Seq(Calls)]
    BY <1>1 DEF IInv, TypeOK
  <2> QED
    BY <2>1
<1>5. Side(h, S)!Position(l) = joined[l] + Len(got[l])
  BY <1>2 DEF Side!Position, Mapped
<1>6. joined[l] + Len(got[l]) + 1 = Len(accepted[h])
  BY <1>3 DEF Delivered
<1>7. ~ Side(h, S)!CaughtUp(l) /\ Current(h) = accepted[h][Side(h, S)!Position(l) + 1]
  BY <1>4, <1>5, <1>6 DEF Side!CaughtUp, Current
<1>8. Mapped(S, got)' = [Mapped(S, got) EXCEPT ![l] = Append(@, Current(h))]
  BY <1>1, <1>2, <1>4 DEF Dispatch, Mapped, ReadersOf, Hub
<1>9. UNCHANGED <<accepted[h], Mapped(S, joined), {s \in S : Registered(s)}>>
  BY DEF Dispatch, Consume, Mapped, Registered, ReadersOf, Hub, IInv, TypeOK
<1> QED
  BY <1>2, <1>7, <1>8, <1>9 DEF Side!Read

\* A stream that registers with the hub subscribes
LEMMA RegisterSubscribes ==
  ASSUME IInv, NEW s \in Streams, Register(s)
  PROVE  Side(Hub(s), ReadersOf(Hub(s)))!Subscribe(s)
<1> DEFINE h == Hub(s)
           S == ReadersOf(h)
           J == Mapped(S, joined)
<1>1. h \in Hubs /\ s \in S /\ ~ Registered(s)
  BY DEF Hub, Hubs, ReadersOf, Register, Registered
<1>2. {r \in S : Registered(r)}' = {r \in S : Registered(r)} \cup {s}
  BY <1>1 DEF Register, Registered, ReadersOf, Hub, IInv, TypeOK
<1>3. UNCHANGED <<accepted[h], Mapped(S, got)>>
  BY DEF Register, Mapped, ReadersOf, Hub
<1>4. \A v : joined' = [joined EXCEPT ![s] = v] => J' = [J EXCEPT ![s] = v]
  BY <1>1 DEF Mapped, ReadersOf, Hub, IInv, TypeOK
<1>5. Len(accepted[h]) \in Nat /\ accepted[h] \in Seq(Calls)
  BY <1>1, ListTypes DEF IInv
<1>6. CASE sender[h] = "rlock"
  <2>1. J' = [J EXCEPT ![s] = Len(accepted[h]) - 1]
    BY <1>4, <1>6 DEF Register
  <2>2. accepted[h] # << >>
    BY <1>1, <1>6 DEF IInv, SendersHaveMessages
  <2>3. ASSUME NEW q \in S, Registered(q)
        PROVE  ~ Side(h, S)!CaughtUp(q)
    <3>1. PICK i \in 1 .. Len(listeners[h]) :
               Side(h, S)!Position(q) + Pending(h, i) = Len(accepted[h])
      BY <1>1, <2>3, PositionInHub
    <3>2. Pending(h, i) = 1
      BY <1>6 DEF Pending
    <3>3. Side(h, S)!Position(q) \in Nat
      <4>1. joined[q] \in Nat /\ got[q] \in Seq(Calls)
        BY DEF IInv, TypeOK, ReadersOf
      <4> QED
        BY <4>1 DEF Side!Position, Mapped
    <3> QED
      BY <3>1, <3>2, <3>3 DEF Side!CaughtUp
  <2> QED
    BY <1>1, <1>2, <1>3, <2>1, <2>2, <2>3 DEF Side!Subscribe
<1>7. CASE sender[h] # "rlock"
  <2>1. joined' = [joined EXCEPT ![s] = Len(accepted[h]) - 0]
    BY <1>7 DEF Register
  <2>2. J' = [J EXCEPT ![s] = Len(accepted[h]) - 0]
    BY <1>4, <2>1
  <2>3. Len(accepted[h]) - 0 = Len(accepted[h])
    BY <1>5
  <2> QED
    BY <1>1, <1>2, <1>3, <2>2, <2>3 DEF Side!Subscribe
<1> QED
  BY <1>6, <1>7

\* Every step of the microservice is a step or a stutter of each hub
LEMMA HubStep ==
  ASSUME IInv, [Next]_vars, NEW h \in Hubs
  PROVE  [Side(h, ReadersOf(h))!Next]_(Side(h, ReadersOf(h))!vars)
<1> DEFINE S == ReadersOf(h)
<1>1. CASE Quiet
  BY <1>1, QuietStutters
<1>2. ASSUME NEW g \in Hubs, NEW c \in Calls, Accept(g, c)
      PROVE  [Side(h, S)!Next]_(Side(h, S)!vars)
  <2>1. CASE g = h
    BY <1>2, <2>1, AcceptPublishes DEF Side!Next
  <2>2. CASE g # h
    BY <1>2, <2>2 DEF Accept, Side!vars, Mapped, Registered, ReadersOf, Hub, IInv, TypeOK
  <2> QED
    BY <2>1, <2>2
<1>3. ASSUME NEW g \in Hubs, Dispatch(g)
      PROVE  [Side(h, S)!Next]_(Side(h, S)!vars)
  <2>1. listeners[g][next[g]] \in ReadersOf(g)
    BY <1>3, SenderTarget DEF Dispatch, Iterating, IInv, Lists, ReadersOf
  <2>2. CASE g = h
    BY <1>3, <2>1, <2>2, DispatchReads DEF Side!Next
  <2>3. CASE g # h
    <3>1. \A r \in S : got'[r] = got[r] /\ (Registered(r)' <=> Registered(r))
      BY <1>3, <2>1, <2>3 DEF Dispatch, Consume, Registered, ReadersOf, IInv, TypeOK
    <3> QED
      BY <1>3, <3>1 DEF Dispatch, Side!vars, Mapped, ReadersOf, Hub
  <2> QED
    BY <2>2, <2>3
<1>4. ASSUME NEW s \in Streams, Register(s)
      PROVE  [Side(h, S)!Next]_(Side(h, S)!vars)
  <2>1. CASE Hub(s) = h
    BY <1>4, <2>1, RegisterSubscribes DEF Side!Next, ReadersOf
  <2>2. CASE Hub(s) # h
    <3>1. \A r \in S : joined'[r] = joined[r] /\ (Registered(r)' <=> Registered(r))
      BY <1>4, <2>2 DEF Register, Registered, ReadersOf, IInv, TypeOK
    <3> QED
      BY <1>4, <3>1 DEF Register, Side!vars, Mapped, ReadersOf, Hub
  <2> QED
    BY <2>1, <2>2
<1>5. CASE \E c \in Calls : CallStep(c)
  BY <1>1, <1>2, <1>5, InvokeIInv, HandleIInv DEF CallStep
<1>6. CASE \E g \in Hubs : SenderStep(g)
  BY <1>1, <1>3, <1>6, SenderRLockIInv, SenderRUnlockIInv, BeginCloseIInv,
     CloseListenerIInv DEF SenderStep
<1>7. CASE \E s \in Streams : StreamStep(s)
  BY <1>1, <1>4, <1>7, OpenIInv, StreamRLockIInv, NotifyIInv, StreamRUnlockIInv,
     LockIInv, TickIInv, SendReturnsIInv DEF StreamStep
<1>8. CASE Cancel \/ StopServer \/ Serve \/ UNCHANGED vars
  BY <1>1, <1>8, ServerIInv
<1> QED
  BY <1>5, <1>6, <1>7, <1>8 DEF Next

LEMMA HubInit ==
  ASSUME Init, NEW h \in Hubs
  PROVE  Side(h, ReadersOf(h))!Init
BY DEF Init, Side!Init, Mapped, ReadersOf, Registered

LEMMA HubReaders == ReadersOf("log") = Loggers /\ ReadersOf("stat") = Stats
BY RpcAssumption DEF ReadersOf, Hub, Streams

\* The interceptors, logsSender, the RWMutex and the Logging handlers implement
\* one log that every logger reads in order from where it joined.
THEOREM LogHubRefinement == Spec => LogHubIsBroadcast
<1>1. Init => LogHub!Init
  BY HubInit, HubReaders DEF Hubs, LogHub!Init, Side!Init
<1>2. IInv /\ [Next]_vars => [LogHub!Next]_LogHub!vars
  <2> SUFFICES ASSUME IInv, [Next]_vars PROVE [LogHub!Next]_LogHub!vars
    OBVIOUS
  <2>1. [Side("log", Loggers)!Next]_(Side("log", Loggers)!vars)
    BY HubStep, HubReaders DEF Hubs
  <2> QED
    BY <2>1 DEF LogHub!Next, LogHub!vars, LogHub!Publish, LogHub!Read, LogHub!Subscribe,
       LogHub!CaughtUp, LogHub!Position, Side!Next, Side!vars, Side!Publish, Side!Read,
       Side!Subscribe, Side!CaughtUp, Side!Position
<1> QED
  BY <1>1, <1>2, Invariance, PTL DEF Spec, LogHubIsBroadcast, LogHub!Spec

\* So do statsSender and the Statistics handlers with the statistics messages.
THEOREM StatHubRefinement == Spec => StatHubIsBroadcast
<1>1. Init => StatHub!Init
  BY HubInit, HubReaders DEF Hubs, StatHub!Init, Side!Init
<1>2. IInv /\ [Next]_vars => [StatHub!Next]_StatHub!vars
  <2> SUFFICES ASSUME IInv, [Next]_vars PROVE [StatHub!Next]_StatHub!vars
    OBVIOUS
  <2>1. [Side("stat", Stats)!Next]_(Side("stat", Stats)!vars)
    BY HubStep, HubReaders DEF Hubs
  <2> QED
    BY <2>1 DEF StatHub!Next, StatHub!vars, StatHub!Publish, StatHub!Read, StatHub!Subscribe,
       StatHub!CaughtUp, StatHub!Position, Side!Next, Side!vars, Side!Publish, Side!Read,
       Side!Subscribe, Side!CaughtUp, Side!Position
<1> QED
  BY <1>1, <1>2, Invariance, PTL DEF Spec, StatHubIsBroadcast, StatHub!Spec

-----------------------------------------------------------------------------
(* Notices, the order of closing and access control.                       *)

LEMMA NatSuccessor == \A a, b \in Nat : a < b + 1 <=> (a < b \/ a = b)
OBVIOUS

-----------------------------------------------------------------------------
(* Frames: what most steps keep.                                           *)

\* No stream moves between the phases that the notices depend on
SamePhases ==
  \A s \in Streams :
    /\ stream'[s] = "notify" <=> stream[s] = "notify"
    /\ stream'[s] \in {"lock", "locking"} <=> stream[s] \in {"lock", "locking"}
    /\ Registered(s)' <=> Registered(s)

LEMMA NoticesFrame ==
  ASSUME NoticesIInv, SamePhases, UNCHANGED <<listeners, heard>>,
         \A s \in Streams : next'[s] = next[s] /\ last'[s] = last[s]
  PROVE  NoticesIInv'
<1>1. \A s \in Streams : \A i : Told(s, i)' <=> Told(s, i)
  BY DEF Told, SamePhases
<1>2. LoopsEndWithinLists' /\ OnlyRegisteredHear'
  BY DEF NoticesIInv, LoopsEndWithinLists, OnlyRegisteredHear, SamePhases, Hub
<1>3. NoticesFollowTheListAsRead'
  BY <1>1 DEF NoticesIInv, NoticesFollowTheListAsRead, Hub
<1> QED
  BY <1>2, <1>3 DEF NoticesIInv

\* No handler returns, and a sender that closes its list or has closed it stays
LEMMA ClosingFrame ==
  ASSUME ClosingIInv, UNCHANGED listeners,
         \A s \in Streams : stream'[s] = "returned" <=> stream[s] = "returned",
         \A h \in Hubs : \A i \in 1 .. Len(listeners[h]) : listeners[h][i] \in Streams,
         \A h \in Hubs :
           \/ {sender[h], sender'[h]} \cap {"close", "done"} = {}
           \/ sender'[h] = sender[h] /\ next'[h] = next[h] /\ last'[h] = last[h]
  PROVE  ClosingIInv'
<1>1. ASSUME NEW h \in Hubs, NEW i \in 1 .. Len(listeners[h])
      PROVE  stream'[listeners[h][i]] = "returned" <=>
               \/ sender'[h] = "close" /\ i < next'[h]
               \/ sender'[h] = "done" /\ i <= last'[h]
  <2>1. /\ stream'[listeners[h][i]] = "returned" <=> stream[listeners[h][i]] = "returned"
        /\ stream[listeners[h][i]] = "returned" <=>
             \/ sender[h] = "close" /\ i < next[h]
             \/ sender[h] = "done" /\ i <= last[h]
    BY DEF ClosingIInv, ClosedInListOrder
  <2>2. CASE {sender[h], sender'[h]} \cap {"close", "done"} = {}
    BY <2>1, <2>2
  <2>3. CASE sender'[h] = sender[h] /\ next'[h] = next[h] /\ last'[h] = last[h]
    BY <2>1, <2>3
  <2> QED
    BY <2>2, <2>3
<1>2. ASSUME NEW h \in Hubs, sender'[h] = "done"
      PROVE  last'[h] <= Len(listeners[h])
  BY <1>2 DEF ClosingIInv
<1> QED
  BY <1>1, <1>2 DEF ClosingIInv, ClosedInListOrder

\* What Register makes of the lists
LEMMA RegisterAppends ==
  ASSUME TypeOK, NEW s \in Streams, Register(s)
  PROVE  /\ \A h \in Hubs : /\ Len(listeners[h]) \in Nat /\ Len(listeners'[h]) \in Nat
                            /\ Len(listeners[h]) <= Len(listeners'[h])
         /\ \A h \in Hubs : \A i \in 1 .. Len(listeners'[h]) :
              \/ i \in 1 .. Len(listeners[h]) /\ listeners'[h][i] = listeners[h][i]
              \/ h = Hub(s) /\ i = Len(listeners[h]) + 1 /\ listeners'[h][i] = s
<1>1. ASSUME NEW h \in Hubs
      PROVE  /\ Len(listeners[h]) \in Nat /\ Len(listeners'[h]) \in Nat
             /\ Len(listeners[h]) <= Len(listeners'[h])
             /\ \A i \in 1 .. Len(listeners'[h]) :
                  \/ i \in 1 .. Len(listeners[h]) /\ listeners'[h][i] = listeners[h][i]
                  \/ h = Hub(s) /\ i = Len(listeners[h]) + 1 /\ listeners'[h][i] = s
  <2>1. listeners[h] \in Seq(Streams) /\ Len(listeners[h]) \in Nat
    BY ListTypes
  <2>2. CASE h = Hub(s)
    <3>1. listeners'[h] = Append(listeners[h], s)
      BY <2>2 DEF Register, TypeOK
    <3> QED
      BY <2>1, <2>2, <3>1, AppendFacts
  <2>3. CASE h # Hub(s)
    <3>1. listeners'[h] = listeners[h]
      BY <2>3 DEF Register, TypeOK
    <3> QED
      BY <2>1, <3>1
  <2> QED
    BY <2>2, <2>3
<1> QED
  BY <1>1

-----------------------------------------------------------------------------
(* Notices.                                                                *)

LEMMA SendersKeepNotices ==
  ASSUME IInv, NoticesIInv, NEW h \in Hubs, SenderStep(h)
  PROVE  NoticesIInv'
<1> USE RpcAssumption DEF IInv, TypeOK
<1>0. h \notin Streams
  BY DEF Rpcs
<1>1. CASE SenderRLock(h)
  BY <1>0, <1>1, NoticesFrame DEF SenderRLock, RLock, EnterLoop, history, SamePhases, Registered
<1>2. CASE Dispatch(h)
  <2>1. listeners[h][next[h]] \in Streams
    BY <1>2, SenderTarget DEF Dispatch, Iterating
  <2>2. SamePhases
    BY <1>2, <2>1 DEF Dispatch, Consume, SamePhases, Registered
  <2> QED
    BY <1>0, <1>2, <2>2, NoticesFrame DEF Dispatch, Advance
<1>3. CASE SenderRUnlock(h) \/ BeginClose(h)
  BY <1>3, NoticesFrame DEF SenderRUnlock, RUnlock, BeginClose, lockVars, loopVars, history,
     SamePhases, Registered
<1>4. CASE CloseListener(h)
  <2>1. listeners[h][next[h]] \in Streams
    BY <1>4, SenderTarget DEF CloseListener, Iterating
  <2>2. SamePhases
    BY <1>4, <2>1 DEF CloseListener, SamePhases, Registered
  <2> QED
    BY <1>0, <1>4, <2>2, NoticesFrame DEF CloseListener, Advance, history
<1> QED
  BY <1>1, <1>2, <1>3, <1>4 DEF SenderStep

\* Taking the read lock, a stream that has told nobody begins with position 1
LEMMA StreamRLockNotices ==
  ASSUME IInv, NoticesIInv, NEW s \in Streams, StreamRLock(s)
  PROVE  NoticesIInv'
<1> USE DEF IInv, TypeOK
<1>1. /\ stream[s] = "rlock" /\ stream'[s] = "notify" /\ next'[s] = 1
      /\ UNCHANGED <<listeners, heard>>
      /\ \A r \in Streams \ {s} :
           stream'[r] = stream[r] /\ next'[r] = next[r] /\ last'[r] = last[r]
  BY DEF StreamRLock, EnterLoop, history
<1>2. LoopsEndWithinLists' /\ OnlyRegisteredHear'
  BY <1>1 DEF NoticesIInv, LoopsEndWithinLists, OnlyRegisteredHear, Registered, Hub
<1>3. ASSUME NEW r \in Streams, NEW i \in 1 .. Len(listeners[Hub(r)])
      PROVE  LET l == listeners[Hub(r)][i]
             IN  (r \in heard[l] <=> Told(r, i)') /\ (l = r => last'[r] < i)
  <2>1. Hub(r) \in Hubs /\ i >= 1
    BY ListTypes DEF Hub, Hubs
  <2>2. CASE r = s
    <3>0. ~ Registered(s) /\ ~ (i < 1)
      BY <1>1, <2>1 DEF Registered
    <3>1. ~ Told(r, i) /\ ~ Told(r, i)'
      BY <1>1, <2>2, <3>0 DEF Told, Registered
    <3>2. listeners[Hub(r)][i] # r
      BY <2>1, <2>2, <3>0, SMTT(20) DEF Lists
    <3> QED
      BY <3>1, <3>2 DEF NoticesIInv, NoticesFollowTheListAsRead
  <2>3. CASE r # s
    <3>1. Told(r, i)' <=> Told(r, i)
      BY <1>1, <2>3 DEF Told, Registered
    <3> QED
      BY <1>1, <2>3, <3>1 DEF NoticesIInv, NoticesFollowTheListAsRead
  <2> QED
    BY <2>2, <2>3
<1>4. NoticesFollowTheListAsRead'
  BY <1>1, <1>3 DEF NoticesFollowTheListAsRead, Hub
<1> QED
  BY <1>2, <1>4 DEF NoticesIInv

\* A notice reaches one position, the one that the loop has come to
LEMMA NotifyNotices ==
  ASSUME IInv, NoticesIInv, NEW s \in Streams, Notify(s)
  PROVE  NoticesIInv'
<1> DEFINE g == Hub(s)
           l == listeners[g][next[s]]
<1> USE DEF IInv, TypeOK
<1>1. g \in Hubs /\ next[s] \in 1 .. Len(listeners[g]) /\ l \in Streams /\ Registered(l)
  BY StreamTarget DEF Notify, Notifying, Hub, Hubs, Lists
<1>2. /\ stream[s] = "notify" /\ next'[s] = next[s] + 1 /\ next[s] \in Nat
      /\ heard'[l] = heard[l] \cup {s} /\ \A r \in Streams \ {l} : heard'[r] = heard[r]
      /\ \A r \in Streams \ {s} : next'[r] = next[r]
      /\ UNCHANGED <<listeners, last>>
  BY <1>1 DEF Notify, Advance
<1>3. SamePhases
  BY <1>1 DEF Notify, Consume, SamePhases, Registered
<1>4. LoopsEndWithinLists' /\ OnlyRegisteredHear'
  BY <1>1, <1>2, <1>3 DEF NoticesIInv, LoopsEndWithinLists, OnlyRegisteredHear, SamePhases, Hub
<1>5. ASSUME NEW r \in Streams, NEW i \in 1 .. Len(listeners[Hub(r)])
      PROVE  /\ r \in heard'[listeners[Hub(r)][i]] <=> Told(r, i)'
             /\ listeners[Hub(r)][i] = r => last[r] < i
  <2> DEFINE m == listeners[Hub(r)][i]
  <2>0. Hub(r) \in Hubs /\ m \in Streams /\ i \in Nat
    BY ListTypes DEF Hub, Hubs
  <2>1. (r \in heard[m] <=> Told(r, i)) /\ (m = r => last[r] < i)
    BY DEF NoticesIInv, NoticesFollowTheListAsRead
  <2>2. CASE r # s
    <3>1. Told(r, i)' <=> Told(r, i)
      BY <1>2, <1>3, <2>2 DEF Told, SamePhases
    <3>2. r \in heard'[m] <=> r \in heard[m]
      BY <1>2, <2>0, <2>2
    <3> QED
      BY <2>1, <3>1, <3>2
  <2>3. CASE r = s
    <3>1. Told(r, i)' <=> i < next[s] + 1
      BY <1>2, <1>3, <2>3 DEF Told, SamePhases, Registered
    <3>2. Told(r, i) <=> i < next[s]
      BY <1>2, <2>3 DEF Told, Registered
    <3>3. m = l <=> i = next[s]
      BY <1>1, <2>3 DEF Lists
    <3>4. r \in heard'[m] <=> (r \in heard[m] \/ i = next[s])
      BY <1>2, <2>0, <2>3, <3>3
    <3>5. i < next[s] + 1 <=> (i < next[s] \/ i = next[s])
      BY <1>2, <2>0, NatSuccessor
    <3>6. r \in heard'[m] <=> Told(r, i)'
      BY <2>1, <3>1, <3>2, <3>4, <3>5
    <3> QED
      BY <2>1, <3>6
  <2> QED
    BY <2>2, <2>3
<1>6. NoticesFollowTheListAsRead'
  BY <1>2, <1>5 DEF NoticesFollowTheListAsRead, Hub
<1> QED
  BY <1>4, <1>6 DEF NoticesIInv

\* When the loop is over, it has told every position of the list as it was
LEMMA StreamRUnlockNotices ==
  ASSUME IInv, NoticesIInv, NEW s \in Streams, StreamRUnlock(s)
  PROVE  NoticesIInv'
<1> USE DEF IInv, TypeOK
<1>1. /\ stream[s] = "notify" /\ stream'[s] = "lock"
      /\ UNCHANGED <<listeners, heard, next, last>>
      /\ \A r \in Streams \ {s} : stream'[r] = stream[r]
  BY DEF StreamRUnlock, loopVars, history
<1>2. Hub(s) \in Hubs /\ Len(listeners[Hub(s)]) \in Nat
  BY ListTypes DEF Hub, Hubs
<1>3. next[s] \in Nat /\ last[s] = Len(listeners[Hub(s)]) /\ last[s] < next[s]
  <2>1. last[s] = Len(listeners[Hub(s)]) /\ ~ InLoop(s)
    BY <1>1 DEF StreamRUnlock, ListStableWhileRead, Notifying
  <2> QED
    BY <1>2, <2>1 DEF InLoop
<1>4. LoopsEndWithinLists'
  BY <1>1, <1>2, <1>3, SMTT(20) DEF NoticesIInv, LoopsEndWithinLists, Registered, Hub
<1>5. OnlyRegisteredHear'
  BY <1>1 DEF NoticesIInv, OnlyRegisteredHear, Registered
<1>6. ASSUME NEW r \in Streams, NEW i \in 1 .. Len(listeners[Hub(r)])
      PROVE  Told(r, i)' <=> Told(r, i)
  <2>1. CASE r = s
    <3>1. Told(r, i) <=> i < next[s]
      BY <1>1, <2>1 DEF Told, Registered
    <3>2. Told(r, i)' <=> i <= last[s]
      BY <1>1, <2>1 DEF Told, Registered
    <3> QED
      BY <1>2, <1>3, <2>1, <3>1, <3>2
  <2>2. CASE r # s
    BY <1>1, <2>2 DEF Told, Registered
  <2> QED
    BY <2>1, <2>2
<1>7. NoticesFollowTheListAsRead'
  BY <1>1, <1>6 DEF NoticesIInv, NoticesFollowTheListAsRead, Hub
<1> QED
  BY <1>4, <1>5, <1>7 DEF NoticesIInv

\* The newcomer stands behind all that any interceptor has gone through
LEMMA RegisterNotices ==
  ASSUME IInv, NoticesIInv, NEW s \in Streams, Register(s)
  PROVE  NoticesIInv'
<1> DEFINE g == Hub(s)
           n == Len(listeners[g])
<1> USE DEF IInv, TypeOK
<1>1. g \in Hubs /\ listeners[g] \in Seq(Streams) /\ n \in Nat
  BY ListTypes DEF Hub, Hubs
<1>2. /\ stream[s] = "locking" /\ stream'[s] = "select"
      /\ UNCHANGED <<heard, next, last>> /\ readers = {}
      /\ \A r \in Streams \ {s} : stream'[r] = stream[r]
  BY DEF Register, loopVars
<1>4. \A r \in Streams : /\ Hub(r) \in Hubs /\ last[r] \in Nat
                         /\ Len(listeners[Hub(r)]) \in Nat
                         /\ Len(listeners'[Hub(r)]) \in Nat
                         /\ Len(listeners[Hub(r)]) <= Len(listeners'[Hub(r)])
  <2>1. \A r \in Streams : Hub(r) \in Hubs /\ last[r] \in Nat
    BY DEF Hub, Hubs
  <2> QED
    BY <2>1, RegisterAppends
<1>5. LoopsEndWithinLists'
  <2>1. ASSUME NEW r \in Streams, stream'[r] \in {"lock", "locking"} \/ Registered(r)'
        PROVE  last[r] <= Len(listeners[Hub(r)])
    BY <1>2, <2>1 DEF NoticesIInv, LoopsEndWithinLists, Registered
  <2> QED
    BY <1>2, <1>4, <2>1, SMTT(20) DEF LoopsEndWithinLists, Hub
<1>6. OnlyRegisteredHear'
  BY <1>2 DEF NoticesIInv, OnlyRegisteredHear, Registered
<1>7. \A r \in Streams : \A i : Told(r, i)' <=> Told(r, i)
  BY <1>2 DEF Told, Registered
<1>8. ASSUME NEW r \in Streams, NEW i \in 1 .. Len(listeners'[Hub(r)])
      PROVE  /\ r \in heard[listeners'[Hub(r)][i]] <=> Told(r, i)
             /\ listeners'[Hub(r)][i] = r => last[r] < i
  <2>0. \/ i \in 1 .. Len(listeners[Hub(r)]) /\ listeners'[Hub(r)][i] = listeners[Hub(r)][i]
        \/ Hub(r) = g /\ i = n + 1 /\ listeners'[Hub(r)][i] = s
    BY <1>4, RegisterAppends
  <2>1. CASE i \in 1 .. Len(listeners[Hub(r)]) /\ listeners'[Hub(r)][i] = listeners[Hub(r)][i]
    BY <2>1 DEF NoticesIInv, NoticesFollowTheListAsRead
  <2>2. CASE Hub(r) = g /\ i = n + 1 /\ listeners'[Hub(r)][i] = s
    <3>1. Hub(r) = g /\ i = n + 1 /\ listeners'[Hub(r)][i] = s
      BY <2>2
    <3>2. heard[s] = {}
      BY <1>2 DEF NoticesIInv, OnlyRegisteredHear, Registered
    <3>3. stream[r] # "notify"
      BY <1>2 DEF Locks, Notifying
    <3>4. (stream[r] \in {"lock", "locking"} \/ Registered(r)) => last[r] < i
      BY <1>1, <1>4, <3>1 DEF NoticesIInv, LoopsEndWithinLists
    <3>5. ~ Told(r, i)
      BY <1>4, <3>3, <3>4, SMTT(20) DEF Told
    <3>6. r = s => last[r] < i
      BY <1>2, <3>4
    <3> QED
      BY <3>1, <3>2, <3>5, <3>6
  <2> QED
    BY <2>0, <2>1, <2>2
<1>9. NoticesFollowTheListAsRead'
  <2>1. \A r \in Streams : \A i \in 1 .. Len(listeners'[Hub(r)]) :
          /\ r \in heard'[listeners'[Hub(r)][i]] <=> Told(r, i)'
          /\ listeners'[Hub(r)][i] = r => last'[r] < i
    BY <1>2, <1>4, <1>7, <1>8
  <2> QED
    BY <2>1 DEF NoticesFollowTheListAsRead, Hub
<1> QED
  BY <1>5, <1>6, <1>9 DEF NoticesIInv

LEMMA StreamsKeepNotices ==
  ASSUME IInv, NoticesIInv, NEW s \in Streams, StreamStep(s)
  PROVE  NoticesIInv'
<1>1. CASE Open(s) \/ Lock(s) \/ Tick(s) \/ SendReturns(s)
  <2>1. SamePhases
    BY <1>1 DEF IInv, TypeOK, Open, Lock, Tick, SendReturns, SamePhases, Registered
  <2> QED
    BY <1>1, <2>1, NoticesFrame DEF Open, Lock, Tick, SendReturns, loopVars, history
<1> QED
  BY <1>1, StreamRLockNotices, NotifyNotices, StreamRUnlockNotices, RegisterNotices
     DEF StreamStep

LEMMA OthersKeepStreams ==
  ASSUME \/ \E c \in Calls : CallStep(c)
         \/ Cancel \/ StopServer \/ Serve \/ UNCHANGED vars
  PROVE  /\ UNCHANGED <<stream, listeners, next, last, heard>>
         /\ sender' = sender \/ \E h \in Hubs : /\ sender[h] = "select"
                                                /\ sender' = [sender EXCEPT ![h] = "rlock"]
<1>1. CASE Cancel \/ StopServer \/ Serve \/ UNCHANGED vars
  BY <1>1 DEF Cancel, StopServer, Serve, vars, loopVars, history
<1>2. ASSUME NEW c \in Calls, Invoke(c) \/ Handle(c)
      PROVE  UNCHANGED <<stream, sender, listeners, next, last, heard>>
  BY <1>2 DEF Invoke, Handle, loopVars, history
<1>3. ASSUME NEW c \in Calls, NEW h \in Hubs, Accept(h, c)
      PROVE  /\ UNCHANGED <<stream, listeners, next, last, heard>>
             /\ sender[h] = "select" /\ sender' = [sender EXCEPT ![h] = "rlock"]
  BY <1>3 DEF Accept, loopVars
<1> QED
  BY <1>1, <1>2, <1>3 DEF CallStep

\* The notices follow from what holds at the start and what each step keeps
LEMMA NextNotices == IInv /\ NoticesIInv /\ [Next]_vars => NoticesIInv'
<1> SUFFICES ASSUME IInv, NoticesIInv, [Next]_vars PROVE NoticesIInv'
  OBVIOUS
<1>1. CASE (\E c \in Calls : CallStep(c)) \/ Cancel \/ StopServer \/ Serve \/ UNCHANGED vars
  <2>1. UNCHANGED <<stream, listeners, next, last, heard>>
    BY <1>1, OthersKeepStreams
  <2> QED
    BY <2>1, NoticesFrame DEF SamePhases, Registered
<1> QED
  BY <1>1, SendersKeepNotices, StreamsKeepNotices DEF Next

LEMMA InitNotices == Init => NoticesIInv
BY DEF Init, NoticesIInv, LoopsEndWithinLists, OnlyRegisteredHear, NoticesFollowTheListAsRead,
   Registered, Hub, Hubs

-----------------------------------------------------------------------------
(* Closing.                                                                *)

LEMMA SendersKeepClosing ==
  ASSUME IInv, ClosingIInv, NEW h \in Hubs, SenderStep(h)
  PROVE  ClosingIInv'
<1> USE RpcAssumption DEF IInv, TypeOK
<1>0. /\ \A g \in Hubs : Len(listeners[g]) \in Nat
      /\ \A g \in Hubs : \A i \in 1 .. Len(listeners[g]) : listeners[g][i] \in Streams
  BY ListTypes
<1>1. CASE SenderRLock(h) /\ sender[h] = "rlock"
  BY <1>0, <1>1, ClosingFrame DEF SenderRLock, EnterLoop, history
<1>2. CASE SenderRLock(h) /\ sender[h] = "closeRLock"
  <2>1. /\ sender'[h] = "close" /\ next'[h] = 1 /\ UNCHANGED <<stream, listeners>>
        /\ \A g \in Hubs \ {h} :
             sender'[g] = sender[g] /\ next'[g] = next[g] /\ last'[g] = last[g]
    BY <1>2 DEF SenderRLock, EnterLoop, history
  <2>2. ASSUME NEW g \in Hubs, NEW i \in 1 .. Len(listeners[g])
        PROVE  stream[listeners[g][i]] = "returned" <=>
                 \/ sender'[g] = "close" /\ i < next'[g]
                 \/ sender'[g] = "done" /\ i <= last'[g]
    <3>0. stream[listeners[g][i]] = "returned" <=>
            \/ sender[g] = "close" /\ i < next[g]
            \/ sender[g] = "done" /\ i <= last[g]
      BY DEF ClosingIInv, ClosedInListOrder
    <3>1. CASE g = h
      <4>1. stream[listeners[g][i]] # "returned"
        BY <1>2, <3>0, <3>1
      <4>2. ~ (i < 1)
        BY <1>0
      <4> QED
        BY <2>1, <3>1, <4>1, <4>2
    <3>2. CASE g # h
      BY <2>1, <3>0, <3>2
    <3> QED
      BY <3>1, <3>2
  <2>3. \A g \in Hubs : sender'[g] = "done" => last'[g] <= Len(listeners[g])
    BY <2>1 DEF ClosingIInv
  <2> QED
    BY <2>1, <2>2, <2>3 DEF ClosingIInv, ClosedInListOrder
<1>3. CASE Dispatch(h)
  <2>1. listeners[h][next[h]] \in Streams
    BY <1>3, SenderTarget DEF Dispatch, Iterating
  <2>2. \A s \in Streams : stream'[s] = "returned" <=> stream[s] = "returned"
    BY <1>3, <2>1 DEF Dispatch, Consume
  <2> QED
    BY <1>0, <1>3, <2>2, ClosingFrame DEF Dispatch, Advance
<1>4. CASE SenderRUnlock(h) /\ sender[h] = "send"
  BY <1>0, <1>4, ClosingFrame DEF SenderRUnlock, loopVars, history
<1>5. CASE SenderRUnlock(h) /\ sender[h] = "close"
  <2>1. /\ sender'[h] = "done" /\ UNCHANGED <<stream, listeners, next, last>>
        /\ \A g \in Hubs \ {h} : sender'[g] = sender[g]
    BY <1>5 DEF SenderRUnlock, loopVars, history
  <2>2. last[h] = Len(listeners[h]) /\ last[h] < next[h] /\ next[h] \in Nat
    <3>1. last[h] = Len(listeners[h]) /\ next[h] \in Nat /\ ~ InLoop(h)
      BY <1>5 DEF SenderRUnlock, ListStableWhileRead, Iterating
    <3> QED
      BY <1>0, <3>1 DEF InLoop
  <2>3. ASSUME NEW g \in Hubs, NEW i \in 1 .. Len(listeners[g])
        PROVE  stream[listeners[g][i]] = "returned" <=>
                 \/ sender'[g] = "close" /\ i < next[g]
                 \/ sender'[g] = "done" /\ i <= last[g]
    <3>0. stream[listeners[g][i]] = "returned" <=>
            \/ sender[g] = "close" /\ i < next[g]
            \/ sender[g] = "done" /\ i <= last[g]
      BY DEF ClosingIInv, ClosedInListOrder
    <3>1. CASE g = h
      <4>1. stream[listeners[h][i]] = "returned" <=> i < next[h]
        BY <1>5, <3>0, <3>1
      <4>2. i < next[h] /\ i <= last[h]
        BY <1>0, <2>2, <3>1
      <4> QED
        BY <2>1, <3>1, <4>1, <4>2
    <3>2. CASE g # h
      BY <2>1, <3>0, <3>2
    <3> QED
      BY <3>1, <3>2
  <2>4. \A g \in Hubs : sender'[g] = "done" => last[g] <= Len(listeners[g])
    BY <1>0, <2>1, <2>2 DEF ClosingIInv
  <2>5. stream' = stream /\ listeners' = listeners /\ next' = next /\ last' = last
    BY <2>1
  <2>6. ClosedInListOrder'
    BY <2>3, <2>5, SMTT(20) DEF ClosedInListOrder
  <2>7. (\A g \in Hubs : sender[g] = "done" => last[g] <= Len(listeners[g]))'
    BY <2>4, <2>5
  <2> QED
    BY <2>6, <2>7, Zenon DEF ClosingIInv
<1>6. CASE BeginClose(h)
  BY <1>0, <1>6, ClosingFrame DEF BeginClose, loopVars, history
<1>7. CASE CloseListener(h)
  <2> DEFINE l == listeners[h][next[h]]
  <2>1. next[h] \in 1 .. Len(listeners[h]) /\ l \in Streams
    BY <1>7, SenderTarget DEF CloseListener, Iterating
  <2>2. /\ sender[h] = "close" /\ stream'[l] = "returned" /\ next'[h] = next[h] + 1
        /\ \A s \in Streams \ {l} : stream'[s] = stream[s]
        /\ \A g \in Hubs \ {h} : next'[g] = next[g]
        /\ UNCHANGED <<sender, listeners, last>>
    BY <1>7, <2>1 DEF CloseListener, Advance, history
  <2>3. ASSUME NEW g \in Hubs, NEW i \in 1 .. Len(listeners[g])
        PROVE  stream'[listeners[g][i]] = "returned" <=>
                 \/ sender[g] = "close" /\ i < next'[g]
                 \/ sender[g] = "done" /\ i <= last[g]
    <3>1. CASE g = h /\ i = next[h]
      <4>1. next[h] < next'[h]
        BY <1>0, <2>1, <2>2
      <4> QED
        BY <2>2, <3>1, <4>1
    <3>2. CASE ~ (g = h /\ i = next[h])
      <4>1. listeners[g][i] # l
        <5>1. CASE g = h
          BY <2>1, <3>2, <5>1 DEF Lists
        <5>2. CASE g # h
          <6>1. Hub(listeners[g][i]) = g /\ Hub(l) = h
            BY <2>1 DEF Lists
          <6> QED
            BY <5>2, <6>1
        <5> QED
          BY <5>1, <5>2
      <4>2. stream'[listeners[g][i]] = stream[listeners[g][i]]
        BY <1>0, <2>2, <4>1
      <4>3. sender[g] = "close" => (i < next'[g] <=> i < next[g])
        <5>1. CASE g = h
          <6>1. i \in Nat /\ next[h] \in Nat /\ i # next[h] /\ next'[h] = next[h] + 1
            BY <1>0, <2>1, <2>2, <3>2, <5>1
          <6>2. i < next[h] + 1 <=> (i < next[h] \/ i = next[h])
            BY <6>1, NatSuccessor, Zenon
          <6> QED
            BY <5>1, <6>1, <6>2, Zenon
        <5>2. CASE g # h
          BY <2>2, <5>2
        <5> QED
          BY <5>1, <5>2
      <4>4. stream[listeners[g][i]] = "returned" <=>
              \/ sender[g] = "close" /\ i < next[g]
              \/ sender[g] = "done" /\ i <= last[g]
        BY DEF ClosingIInv, ClosedInListOrder
      <4> QED
        BY <4>2, <4>3, <4>4
    <3> QED
      BY <3>1, <3>2
  <2>4. \A g \in Hubs : sender'[g] = "done" => last'[g] <= Len(listeners'[g])
    BY <2>2 DEF ClosingIInv
  <2>5. ClosedInListOrder'
    <3>1. /\ listeners' = listeners /\ sender' = sender /\ last' = last
      BY <2>2
    <3>2. \A g \in Hubs : \A i \in 1 .. Len(listeners'[g]) :
            stream'[listeners'[g][i]] = "returned" <=>
              \/ sender'[g] = "close" /\ i < next'[g]
              \/ sender'[g] = "done" /\ i <= last'[g]
      <4>1. \A g \in Hubs : \A i \in 1 .. Len(listeners[g]) :
              stream'[listeners[g][i]] = "returned" <=>
                \/ sender[g] = "close" /\ i < next'[g]
                \/ sender[g] = "done" /\ i <= last[g]
        BY <2>3
      <4> HIDE DEF TypeOK, IInv
      <4> QED
        BY <3>1, <4>1
    <3> QED
      BY <3>2, Zenon DEF ClosedInListOrder
  <2> QED
    BY <2>4, <2>5 DEF ClosingIInv
<1> QED
  BY <1>1, <1>2, <1>3, <1>4, <1>5, <1>6, <1>7 DEF SenderStep, SenderRLock, SenderRUnlock

\* Who registers while a list is closed waits for the lock, and is not closed
LEMMA RegisterClosing ==
  ASSUME IInv, ClosingIInv, NEW s \in Streams, Register(s)
  PROVE  ClosingIInv'
<1> DEFINE g == Hub(s)
           n == Len(listeners[g])
<1> USE DEF IInv, TypeOK
<1>1. g \in Hubs /\ listeners[g] \in Seq(Streams) /\ n \in Nat
  BY ListTypes DEF Hub, Hubs
<1>2. /\ stream[s] = "locking" /\ stream'[s] = "select"
      /\ UNCHANGED <<sender, next, last>> /\ readers = {}
      /\ \A r \in Streams \ {s} : stream'[r] = stream[r]
  BY DEF Register, loopVars
<1>4. \A h \in Hubs : /\ sender[h] # "close" /\ Len(listeners[h]) \in Nat /\ last[h] \in Nat
                      /\ Len(listeners[h]) <= Len(listeners'[h])
                      /\ sender[h] = "done" => last[h] <= Len(listeners[h])
  <2>1. \A h \in Hubs : sender[h] # "close"
    BY <1>2 DEF Locks, Iterating
  <2>2. \A h \in Hubs : Len(listeners[h]) \in Nat /\ last[h] \in Nat
    BY ListTypes
  <2>3. \A h \in Hubs : Len(listeners[h]) <= Len(listeners'[h])
    BY RegisterAppends
  <2> QED
    BY <2>1, <2>2, <2>3 DEF ClosingIInv
<1>5. ASSUME NEW h \in Hubs, NEW i \in 1 .. Len(listeners'[h])
      PROVE  stream'[listeners'[h][i]] = "returned" <=> sender[h] = "done" /\ i <= last[h]
  <2>0. \/ i \in 1 .. Len(listeners[h]) /\ listeners'[h][i] = listeners[h][i]
        \/ h = g /\ i = n + 1 /\ listeners'[h][i] = s
    BY RegisterAppends
  <2>1. CASE i \in 1 .. Len(listeners[h]) /\ listeners'[h][i] = listeners[h][i]
    <3>1. listeners'[h][i] = listeners[h][i] /\ listeners[h][i] \in Streams
      BY <2>1, ListTypes
    <3>2. listeners[h][i] # s
      <4>1. ~ Registered(s) /\ Registered(listeners[h][i])
        BY <1>2, <2>1 DEF Lists, Registered
      <4> QED
        BY <4>1
    <3>3. stream[listeners[h][i]] = "returned" <=> sender[h] = "done" /\ i <= last[h]
      BY <1>4, <2>1 DEF ClosingIInv, ClosedInListOrder
    <3> QED
      BY <1>2, <3>1, <3>2, <3>3
  <2>2. CASE h = g /\ i = n + 1 /\ listeners'[h][i] = s
    <3>1. h = g /\ i = n + 1 /\ listeners'[h][i] = s
      BY <2>2
    <3>2. ~ (sender[h] = "done" /\ i <= last[h])
      BY <1>1, <1>4, <3>1
    <3> QED
      BY <1>2, <3>1, <3>2
  <2> QED
    BY <2>0, <2>1, <2>2
<1>6. \A h \in Hubs : sender'[h] = "done" => last'[h] <= Len(listeners'[h])
  <2>1. ASSUME NEW h \in Hubs, sender[h] = "done"
        PROVE  last[h] <= Len(listeners'[h])
    <3>1. /\ last[h] \in Nat /\ Len(listeners[h]) \in Nat
          /\ last[h] <= Len(listeners[h]) /\ Len(listeners[h]) <= Len(listeners'[h])
      BY <1>4, <2>1
    <3>2. Len(listeners'[h]) \in Nat
      BY RegisterAppends
    <3> QED
      BY <3>1, <3>2
  <2> QED
    BY <1>2, <2>1
<1> QED
  BY <1>2, <1>4, <1>5, <1>6 DEF ClosingIInv, ClosedInListOrder

LEMMA StreamsKeepClosing ==
  ASSUME IInv, ClosingIInv, NEW s \in Streams, StreamStep(s)
  PROVE  ClosingIInv'
<1> USE RpcAssumption DEF IInv, TypeOK
<1>0. \A g \in Hubs : g # s /\ \A i \in 1 .. Len(listeners[g]) : listeners[g][i] \in Streams
  BY ListTypes DEF Rpcs
<1>1. CASE Open(s) \/ Lock(s) \/ Tick(s) \/ SendReturns(s) \/ StreamRUnlock(s)
  <2>1. \A r \in Streams : stream'[r] = "returned" <=> stream[r] = "returned"
    BY <1>1 DEF Open, Lock, Tick, SendReturns, StreamRUnlock
  <2> QED
    BY <1>0, <1>1, <2>1, ClosingFrame
       DEF Open, Lock, Tick, SendReturns, StreamRUnlock, loopVars, history
<1>2. CASE StreamRLock(s)
  BY <1>0, <1>2, ClosingFrame DEF StreamRLock, EnterLoop, history
<1>3. CASE Notify(s)
  <2>1. listeners[Hub(s)][next[s]] \in Streams
    BY <1>3, StreamTarget DEF Notify, Notifying
  <2>2. \A r \in Streams : stream'[r] = "returned" <=> stream[r] = "returned"
    BY <1>3, <2>1 DEF Notify, Consume
  <2> QED
    BY <1>0, <1>3, <2>2, ClosingFrame DEF Notify, Advance
<1> QED
  BY <1>1, <1>2, <1>3, RegisterClosing DEF StreamStep

LEMMA NextClosing == IInv /\ ClosingIInv /\ [Next]_vars => ClosingIInv'
<1> SUFFICES ASSUME IInv, ClosingIInv, [Next]_vars PROVE ClosingIInv'
  OBVIOUS
<1>1. CASE (\E c \in Calls : CallStep(c)) \/ Cancel \/ StopServer \/ Serve \/ UNCHANGED vars
  <2>1. UNCHANGED <<stream, listeners, next, last>>
    BY <1>1, OthersKeepStreams
  <2>2. \A h \in Hubs : \/ {sender[h], sender'[h]} \cap {"close", "done"} = {}
                        \/ sender'[h] = sender[h]
    BY <1>1, OthersKeepStreams DEF IInv, TypeOK
  <2>3. \A h \in Hubs : \A i \in 1 .. Len(listeners[h]) : listeners[h][i] \in Streams
    BY ListTypes DEF IInv
  <2> QED
    BY <2>1, <2>2, <2>3, ClosingFrame
<1> QED
  BY <1>1, SendersKeepClosing, StreamsKeepClosing DEF Next

LEMMA InitClosing == Init => ClosingIInv
BY DEF Init, ClosingIInv, ClosedInListOrder, Hubs

-----------------------------------------------------------------------------
(* Access control.                                                         *)

\* The code admits what the ACL is meant to grant
LEMMA AllowedIsGranted == \A r : Allowed(r) <=> Granted(r)
BY DEF Allowed, Authenticated, Permitted, Admits, Granted

\* A stream leaves "idle" and "denied" only by Open, and for "denied" only there
LEMMA AccessFrame ==
  ASSUME AccessIInv, UNCHANGED <<call, heard>>,
         \A s \in Streams : stream'[s] # stream[s] =>
           stream[s] \notin {"idle", "denied"} /\ stream'[s] # "denied"
  PROVE  AccessIInv'
BY DEF AccessIInv, Allowed, Authenticated, Permitted

LEMMA CallsKeepAccess ==
  ASSUME TypeOK, AccessIInv, NEW c \in Calls, CallStep(c)
  PROVE  AccessIInv'
<1>1. UNCHANGED <<stream, heard>>
  BY DEF CallStep, Invoke, Accept, Handle, history
<1>2. \A d \in Calls : call'[d] = "denied" => call[d] = "denied" \/ ~ Allowed(d)
  BY DEF CallStep, Invoke, Accept, Handle, TypeOK
<1> QED
  BY <1>1, <1>2 DEF AccessIInv, Allowed, Authenticated, Permitted

LEMMA SendersKeepAccess ==
  ASSUME IInv, AccessIInv, NEW h \in Hubs, SenderStep(h)
  PROVE  AccessIInv'
<1>1. UNCHANGED <<call, heard>>
  BY DEF SenderStep, SenderRLock, Dispatch, SenderRUnlock, BeginClose, CloseListener, history
<1>2. CASE UNCHANGED stream
  BY <1>1, <1>2, AccessFrame
<1>3. CASE Dispatch(h) \/ CloseListener(h)
  <2> DEFINE l == listeners[h][next[h]]
  <2>1. stream[l] = "select" /\ stream' \in {stream, [stream EXCEPT ![l] = "sending"],
                                             [stream EXCEPT ![l] = "returned"]}
    BY <1>3 DEF Dispatch, CloseListener, Consume
  <2> QED
    BY <1>1, <2>1, AccessFrame DEF IInv, TypeOK
<1> QED
  BY <1>2, <1>3 DEF SenderStep, SenderRLock, SenderRUnlock, BeginClose

LEMMA StreamsKeepAccess ==
  ASSUME IInv, AccessIInv, NEW s \in Streams, StreamStep(s)
  PROVE  AccessIInv'
<1>1. CASE Open(s)
  <2>1. UNCHANGED <<call, heard>>
    BY <1>1 DEF Open, history
  <2>2. \A t \in Streams : \/ stream'[t] = stream[t]
                           \/ t = s /\ stream'[t] = IF Allowed(s) THEN "rlock" ELSE "denied"
    BY <1>1 DEF Open, IInv, TypeOK
  <2> QED
    BY <2>1, <2>2 DEF AccessIInv, Allowed, Authenticated, Permitted
<1>2. CASE Notify(s)
  <2> DEFINE l == listeners[Hub(s)][next[s]]
  <2>1. stream[s] = "notify" /\ UNCHANGED call
    BY <1>2 DEF Notify
  <2>2. \A t \in Streams : stream'[t] # stream[t] =>
          stream[t] \notin {"idle", "denied"} /\ stream'[t] # "denied"
    BY <1>2 DEF Notify, Consume, IInv, TypeOK
  <2>3. Allowed(s)
    BY <2>1 DEF AccessIInv
  <2>4. \A t \in Streams : heard'[t] \subseteq heard[t] \cup {s}
    BY <1>2 DEF Notify, IInv, TypeOK
  <2> QED
    BY <2>1, <2>2, <2>3, <2>4 DEF AccessIInv, Allowed, Authenticated, Permitted
<1>3. CASE \/ StreamRLock(s) \/ StreamRUnlock(s) \/ Lock(s) \/ Register(s)
           \/ Tick(s) \/ SendReturns(s)
  <2>1. UNCHANGED <<call, heard>>
    BY <1>3 DEF StreamRLock, StreamRUnlock, Lock, Register, Tick, SendReturns, history
  <2>2. \A t \in Streams : stream'[t] # stream[t] =>
          stream[t] \notin {"idle", "denied"} /\ stream'[t] # "denied"
    BY <1>3 DEF StreamRLock, StreamRUnlock, Lock, Register, Tick, SendReturns, IInv, TypeOK
  <2> QED
    BY <2>1, <2>2, AccessFrame
<1> QED
  BY <1>1, <1>2, <1>3 DEF StreamStep

LEMMA NextAccess == IInv /\ AccessIInv /\ [Next]_vars => AccessIInv'
<1> SUFFICES ASSUME IInv, AccessIInv, [Next]_vars PROVE AccessIInv'
  OBVIOUS
<1>1. CASE Cancel \/ StopServer \/ Serve \/ UNCHANGED vars
  <2>1. UNCHANGED <<call, stream, heard>>
    BY <1>1 DEF Cancel, StopServer, Serve, vars, history
  <2> QED
    BY <2>1, AccessFrame
<1> QED
  BY <1>1, CallsKeepAccess, SendersKeepAccess, StreamsKeepAccess DEF Next, IInv

LEMMA InitAccess == Init => AccessIInv
BY DEF Init, AccessIInv

-----------------------------------------------------------------------------

\* streamInterceptor tells exactly the streams that were in the list when it took the
\* read lock, and registers behind them, whatever registers or shuts down meanwhile.
THEOREM Notices == Spec => []NoticesFollowTheListAsRead
<1>1. NoticesIInv => NoticesFollowTheListAsRead
  BY DEF NoticesIInv
<1> QED
  BY <1>1, InitNotices, NextNotices, Invariance, PTL DEF Spec

\* The handlers that have returned are a prefix of their list as it was when the round
\* of closing began; one that registers after that round is never closed.
THEOREM ClosingOrder == Spec => []ClosedInListOrder
<1>1. ClosingIInv => ClosedInListOrder
  BY DEF ClosingIInv
<1> QED
  BY <1>1, InitClosing, NextClosing, Invariance, PTL DEF Spec

\* What the ACL does not grant leaves no trace in the senders, the lists and the other
\* streams, and what it grants is never refused, for any ACL and any metadata.
THEOREM Refusal == Spec => []RefusedLeavesNoTrace
<1>1. IInv /\ NoticesIInv /\ AccessIInv => RefusedLeavesNoTrace
  <2> SUFFICES ASSUME IInv, NoticesIInv, AccessIInv PROVE RefusedLeavesNoTrace
    OBVIOUS
  <2>1. ASSUME NEW c \in Calls, ~ Granted(c)
        PROVE  /\ call[c] \in {"idle", "denied"}
               /\ \A h \in Hubs : \A k \in 1 .. Len(accepted[h]) : accepted[h][k] # c
    BY <2>1, AllowedIsGranted DEF IInv, OnlyAllowedProceed, LoggedAndCountedOnce
  <2>2. ASSUME NEW s \in Streams, ~ Granted(s)
        PROVE  /\ stream[s] \in {"idle", "denied"} /\ got[s] = << >> /\ heard[s] = {}
               /\ \A h \in Hubs : \A i \in 1 .. Len(listeners[h]) : listeners[h][i] # s
               /\ \A t \in Streams : s \notin heard[t]
    <3>1. stream[s] \in {"idle", "denied"} /\ \A t \in Streams : s \notin heard[t]
      BY <2>2, AllowedIsGranted DEF AccessIInv
    <3>2. ~ Registered(s)
      BY <3>1 DEF Registered
    <3> QED
      BY <3>1, <3>2 DEF IInv, NoticesIInv, Lists, OnlyRegisteredReceive, OnlyRegisteredHear
  <2> QED
    BY <2>1, <2>2, AllowedIsGranted DEF RefusedLeavesNoTrace, AccessIInv
<1> QED
  BY <1>1, InitNotices, NextNotices, InitAccess, NextAccess, Invariance, PTL DEF Spec
=============================================================================
