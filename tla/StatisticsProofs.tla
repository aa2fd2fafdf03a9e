-------------------------- MODULE StatisticsProofs --------------------------
(***************************************************************************)
(* What a statistics stream reports, for any number of messages, reports,  *)
(* consumers, methods and intervals, and for every width of a Duration.    *)
(***************************************************************************)
EXTENDS Statistics, FiniteSetTheorems, TLAPS

\* What a Duration can hold is not changed by the conversion
LEMMA DurationExact ==
  ASSUME NEW u \in Nat, Representable(u)
  PROVE  Duration(u) = Second * u /\ Duration(u) > 0
<1>. DEFINE x == Second * u
<1>1. x \in Nat /\ 0 < x /\ x < Half
  <2>1. x \in Nat
    BY StatisticsAssumption
  <2>2. x # 0
    BY StatisticsAssumption DEF Representable
  <2>. QED  BY <2>1, <2>2 DEF Representable
<1>2. Half \in Nat
  BY StatisticsAssumption
<1>3. x % (2 * Half) = x
  <2>. HIDE DEF x
  <2>. QED  BY <1>1, <1>2
<1>. QED  BY <1>1, <1>2, <1>3 DEF Duration

\* Every Duration is a whole number
LEMMA DurationType == \A u \in Nat : Duration(u) \in Int
<1>. TAKE u \in Nat
<1>. DEFINE x == (Second * u) % (2 * Half)
<1>1. Second * u \in Nat /\ Half \in Nat /\ 2 * Half \in Nat /\ 2 * Half > 0
  BY StatisticsAssumption
<1>2. x \in Int
  BY <1>1
<1>. QED  BY <1>1, <1>2 DEF Duration

-----------------------------------------------------------------------------
(* Counting messages.                                                      *)

\* Nothing is counted in an empty interval
LEMMA CountedNothing ==
  ASSUME NEW s, NEW i \in Nat
  PROVE  Counted(s, i, i) = Nothing
<1>1. i + 1 .. i = {}
  OBVIOUS
<1>2. Cardinality({}) = 0
  BY FS_EmptySet
<1>3. \A k \in Consumers : {n \in i + 1 .. i : s[n].consumer = k} = {}
  BY <1>1
<1>4. \A k \in Methods : {n \in i + 1 .. i : s[n].method = k} = {}
  BY <1>1
<1>. QED  BY <1>2, <1>3, <1>4, Zenon DEF Counted, Nothing

\* A part of an interval is finite, and one more number adds at most one
LEMMA OneMore ==
  \A i, j \in Nat : \A T \in SUBSET (i + 1 .. j) :
    /\ Cardinality(T) \in Nat
    /\ Cardinality(T \cup {j + 1}) = Cardinality(T) + 1
<1>. TAKE i, j \in Nat
<1>. TAKE T \in SUBSET (i + 1 .. j)
<1>1. IsFiniteSet(i + 1 .. j)
  BY FS_Interval
<1>2. IsFiniteSet(T)
  BY <1>1, FS_Subset
<1>3. j + 1 \notin T
  OBVIOUS
<1>. QED  BY <1>2, <1>3, FS_AddElement, FS_CardinalityType

\* Messages that come later do not change what an earlier interval counts
LEMMA CountedStable ==
  ASSUME NEW s \in Seq(Message), NEW msg \in Message,
         NEW i \in Nat, NEW j \in Nat, j <= Len(s)
  PROVE  Counted(Append(s, msg), i, j) = Counted(s, i, j)
<1>1. \A n \in i + 1 .. j : Append(s, msg)[n] = s[n]
  OBVIOUS
<1>2. \A k \in Consumers : {n \in i + 1 .. j : Append(s, msg)[n].consumer = k}
                              = {n \in i + 1 .. j : s[n].consumer = k}
  BY <1>1
<1>3. \A k \in Methods : {n \in i + 1 .. j : Append(s, msg)[n].method = k}
                            = {n \in i + 1 .. j : s[n].method = k}
  BY <1>1
<1>. QED  BY <1>2, <1>3, Zenon DEF Counted

\* A message adds one to its consumer and one to its method
LEMMA CountedMore ==
  ASSUME NEW s \in Seq(Message), NEW msg \in Message, NEW i \in Nat, i <= Len(s)
  PROVE  LET old == Counted(s, i, Len(s))
         IN  Counted(Append(s, msg), i, Len(s) + 1) =
               [byConsumer |-> [old.byConsumer EXCEPT ![msg.consumer] = @ + 1],
                byMethod |-> [old.byMethod EXCEPT ![msg.method] = @ + 1]]
<1>. DEFINE t == Append(s, msg)
            C(k) == {n \in i + 1 .. Len(s) : s[n].consumer = k}
            D(k) == {n \in i + 1 .. Len(s) : s[n].method = k}
            CC(k) == {n \in i + 1 .. Len(s) + 1 : t[n].consumer = k}
            DD(k) == {n \in i + 1 .. Len(s) + 1 : t[n].method = k}
<1>1. /\ \A n \in i + 1 .. Len(s) : t[n] = s[n]
      /\ t[Len(s) + 1] = msg
      /\ \A n : n \in i + 1 .. Len(s) + 1 <=> n \in i + 1 .. Len(s) \/ n = Len(s) + 1
      /\ Len(s) \in Nat
  OBVIOUS
<1>2. \A k : CC(k) = IF k = msg.consumer THEN C(k) \cup {Len(s) + 1} ELSE C(k)
  <2>. HIDE DEF t
  <2>. QED  BY <1>1
<1>3. \A k : DD(k) = IF k = msg.method THEN D(k) \cup {Len(s) + 1} ELSE D(k)
  <2>. HIDE DEF t
  <2>. QED  BY <1>1
<1>4. \A k : /\ Cardinality(C(k) \cup {Len(s) + 1}) = Cardinality(C(k)) + 1
             /\ Cardinality(D(k) \cup {Len(s) + 1}) = Cardinality(D(k)) + 1
  <2>. TAKE k
  <2>1. C(k) \subseteq i + 1 .. Len(s) /\ D(k) \subseteq i + 1 .. Len(s)
    OBVIOUS
  <2>2. C(k) \in SUBSET (i + 1 .. Len(s)) /\ D(k) \in SUBSET (i + 1 .. Len(s))
    BY <2>1
  <2>. HIDE DEF C, D
  <2>. QED  BY <1>1, <2>2, OneMore, ZenonT(30)
<1>5. /\ msg.consumer \in Consumers /\ msg.method \in Methods
  BY DEF Message
<1>6. Counted(s, i, Len(s)) = [byConsumer |-> [k \in Consumers |-> Cardinality(C(k))],
                               byMethod |-> [k \in Methods |-> Cardinality(D(k))]]
  BY DEF Counted
<1>7. Counted(t, i, Len(s) + 1) = [byConsumer |-> [k \in Consumers |-> Cardinality(CC(k))],
                                   byMethod |-> [k \in Methods |-> Cardinality(DD(k))]]
  BY DEF Counted
<1>8. [k \in Consumers |-> Cardinality(CC(k))] =
        [[k \in Consumers |-> Cardinality(C(k))] EXCEPT ![msg.consumer] = @ + 1]
  <2>. HIDE DEF C, CC, D, DD, t
  <2>. QED  BY <1>2, <1>4, <1>5
<1>9. [k \in Methods |-> Cardinality(DD(k))] =
        [[k \in Methods |-> Cardinality(D(k))] EXCEPT ![msg.method] = @ + 1]
  <2>. HIDE DEF C, CC, D, DD, t
  <2>. QED  BY <1>3, <1>4, <1>5
<1>. HIDE DEF C, CC, D, DD
<1>. QED  BY <1>6, <1>7, <1>8, <1>9

-----------------------------------------------------------------------------
(* The inductive invariant.                                                *)

\* An interval begins at a number of messages
LEMMA SinceType ==
  ASSUME StatTypeOK
  PROVE  /\ Len(reports) \in Nat /\ Len(received) \in Nat
         /\ \A r \in 1 .. Len(reports) : reports[r].upTo \in Nat
         /\ \A r \in 1 .. Len(reports) + 1 : Since(r) \in Nat
<1>1. /\ Len(reports) \in Nat /\ Len(received) \in Nat
      /\ \A r \in 1 .. Len(reports) : reports[r] \in Report
  BY DEF StatTypeOK
<1>2. \A r \in 1 .. Len(reports) : reports[r].upTo \in Nat
  BY <1>1 DEF Report
<1>3. ASSUME NEW r \in 1 .. Len(reports) + 1
      PROVE  Since(r) \in Nat
  <2>1. CASE r = 1
    BY <2>1 DEF Since
  <2>2. CASE r # 1
    <3>1. r - 1 \in 1 .. Len(reports)
      BY <1>1, <2>2
    <3>. QED  BY <1>2, <2>2, <3>1 DEF Since
  <2>. QED  BY <2>1, <2>2
<1>. QED  BY <1>1, <1>2, <1>3

LEMMA StatInitInv == StatInit => StatIInv
<1>. SUFFICES ASSUME StatInit PROVE StatIInv
  OBVIOUS
<1>1. StatTypeOK
  <2>1. << >> \in Seq(Message) /\ << >> \in Seq(Report)
    OBVIOUS
  <2>2. Nothing \in Counts /\ Nothing.byConsumer \in [Consumers -> Nat]
          /\ Nothing.byMethod \in [Methods -> Nat]
    BY DEF Nothing, Counts
  <2>3. received \in Seq(Message) /\ reports \in Seq(Report)
    BY <2>1 DEF StatInit
  <2>4. c \in [Consumers -> Nat] /\ m \in [Methods -> Nat] /\ statEvent \in Counts
    BY <2>2, Zenon DEF StatInit
  <2>5. /\ handler \in {"idle", "select", "sending", "panicked"}
        /\ interval \in Nat /\ period \in Int
    BY DEF StatInit
  <2>6. fired \in BOOLEAN
    BY Zenon DEF StatInit
  <2>. QED  BY <2>3, <2>4, <2>5, <2>6 DEF StatTypeOK
<1>2. SendingTheMaps /\ PeriodIsTheInterval
  BY DEF StatInit, SendingTheMaps, PeriodIsTheInterval
<1>3. ReportsPartitionTheMessages
  <2>1. Counted(received, 0, 0) = Nothing
    BY CountedNothing
  <2>. QED  BY <2>1 DEF StatInit, ReportsPartitionTheMessages, Since, Nothing
<1>. QED  BY <1>1, <1>2, <1>3 DEF StatIInv, MessagesReportedOnce

LEMMA StatTypeNext == StatTypeOK /\ [StatNext]_statVars => StatTypeOK'
<1>. SUFFICES ASSUME StatTypeOK, [StatNext]_statVars PROVE StatTypeOK'
  OBVIOUS
<1>0. Nothing \in Counts /\ Nothing.byConsumer \in [Consumers -> Nat]
        /\ Nothing.byMethod \in [Methods -> Nat]
  BY DEF Nothing, Counts
<1>1. CASE \E u \in Intervals : StatOpen(u)
  <2>. PICK u \in Intervals : StatOpen(u)
    BY <1>1
  <2>1. u \in Nat
    BY StatisticsAssumption
  <2>2. Duration(u) \in Int
    BY <2>1, DurationType
  <2>. QED  BY <2>1, <2>2 DEF StatOpen, StatTypeOK, counters
<1>2. CASE Fire
  BY <1>2 DEF Fire, StatTypeOK, counters
<1>3. CASE Tick
  BY <1>3 DEF Tick, StatTypeOK, counters, Counts
<1>4. CASE \E msg \in Message : Receive(msg)
  BY <1>4 DEF Receive, StatTypeOK, Message
<1>5. CASE \E sent \in BOOLEAN : SendReturns(sent)
  <2>. PICK sent \in BOOLEAN : SendReturns(sent)
    BY <1>5
  <2>1. [counts |-> statEvent, upTo |-> Len(received), sent |-> sent] \in Report
    BY DEF StatTypeOK, Report
  <2>. QED  BY <1>0, <2>1 DEF SendReturns, StatTypeOK
<1>6. CASE UNCHANGED statVars
  BY <1>6 DEF statVars, counters, StatTypeOK
<1>. QED  BY <1>1, <1>2, <1>3, <1>4, <1>5, <1>6 DEF StatNext

LEMMA StatInvNext == StatIInv /\ [StatNext]_statVars => StatIInv'
<1>. SUFFICES ASSUME StatIInv, [StatNext]_statVars PROVE StatIInv'
  OBVIOUS
<1>. USE DEF StatIInv, MessagesReportedOnce
<1>0. StatTypeOK'
  BY StatTypeNext
<1>1. CASE \E u \in Intervals : StatOpen(u)
  <2>. PICK u \in Intervals : StatOpen(u)
    BY <1>1
  <2>1. u \in Nat
    BY StatisticsAssumption
  <2>2. PeriodIsTheInterval'
    BY <2>1, DurationExact DEF StatOpen, PeriodIsTheInterval, Representable
  <2>3. SendingTheMaps'
    BY DEF StatOpen, SendingTheMaps
  <2>4. ReportsPartitionTheMessages'
    BY DEF StatOpen, counters, ReportsPartitionTheMessages, Since
  <2>. QED  BY <1>0, <2>2, <2>3, <2>4
<1>2. CASE Fire
  BY <1>0, <1>2 DEF Fire, counters, PeriodIsTheInterval, Representable, SendingTheMaps,
                    ReportsPartitionTheMessages, Since
<1>3. CASE Tick
  BY <1>0, <1>3 DEF Tick, counters, PeriodIsTheInterval, Representable, SendingTheMaps,
                    ReportsPartitionTheMessages, Since
<1>4. CASE \E msg \in Message : Receive(msg)
  <2>. PICK msg \in Message : Receive(msg)
    BY <1>4
  <2>1. PeriodIsTheInterval' /\ SendingTheMaps'
    BY DEF Receive, PeriodIsTheInterval, Representable, SendingTheMaps
  <2>2. ReportsPartitionTheMessages'
    <3>. DEFINE i == Since(Len(reports) + 1)
    <3>1. i \in Nat /\ i <= Len(received)
      <4>1. CASE Len(reports) = 0
        BY <4>1, SinceType DEF Since
      <4>2. CASE Len(reports) # 0
        <5>1. Len(reports) \in 1 .. Len(reports) /\ i = reports[Len(reports)].upTo
          BY <4>2, SinceType DEF Since
        <5>. QED  BY <5>1, SinceType DEF ReportsPartitionTheMessages
      <4>. QED  BY <4>1, <4>2
    <3>2. received \in Seq(Message) /\ received' = Append(received, msg)
            /\ Len(received') = Len(received) + 1 /\ reports' = reports
      BY DEF StatTypeOK, Receive
    <3>3. \A r : Since(r)' = Since(r)
      BY <3>2 DEF Since
    <3>4. ASSUME NEW r \in 1 .. Len(reports)
          PROVE  /\ Since(r) <= reports[r].upTo /\ reports[r].upTo <= Len(received')
                 /\ reports[r].counts = Counted(received', Since(r), reports[r].upTo)
      <4>1. /\ Since(r) <= reports[r].upTo /\ reports[r].upTo <= Len(received)
            /\ reports[r].counts = Counted(received, Since(r), reports[r].upTo)
        BY DEF ReportsPartitionTheMessages
      <4>2. Since(r) \in Nat /\ reports[r].upTo \in Nat /\ Len(received) \in Nat
        BY SinceType
      <4>3. Counted(received', Since(r), reports[r].upTo)
              = Counted(received, Since(r), reports[r].upTo)
        BY <3>2, <4>1, <4>2, CountedStable
      <4>. QED  BY <3>2, <4>1, <4>2, <4>3
    <3>5. [byConsumer |-> c, byMethod |-> m] = Counted(received, i, Len(received))
      BY DEF ReportsPartitionTheMessages
    <3>6. Counted(received', i, Len(received) + 1) =
            [byConsumer |-> [c EXCEPT ![msg.consumer] = @ + 1],
             byMethod |-> [m EXCEPT ![msg.method] = @ + 1]]
      <4>. HIDE DEF i
      <4>1. c = Counted(received, i, Len(received)).byConsumer
              /\ m = Counted(received, i, Len(received)).byMethod
        BY <3>5
      <4>. QED  BY <3>1, <3>2, <4>1, CountedMore
    <3>7. [byConsumer |-> c', byMethod |-> m'] = Counted(received', i, Len(received'))
      BY <3>2, <3>6 DEF Receive
    <3>. QED  BY <3>2, <3>3, <3>4, <3>7 DEF ReportsPartitionTheMessages
  <2>. QED  BY <1>0, <2>1, <2>2
<1>5. CASE \E sent \in BOOLEAN : SendReturns(sent)
  <2>. PICK sent \in BOOLEAN : SendReturns(sent)
    BY <1>5
  <2>1. PeriodIsTheInterval' /\ SendingTheMaps'
    BY DEF SendReturns, PeriodIsTheInterval, Representable, SendingTheMaps
  <2>2. ReportsPartitionTheMessages'
    <3>. PICK last : last = Len(reports) + 1
      OBVIOUS
    <3>. PICK new : new = [counts |-> statEvent, upTo |-> Len(received), sent |-> sent]
      OBVIOUS
    <3>1. /\ reports \in Seq(Report) /\ reports' = Append(reports, new)
          /\ received' = received /\ Len(received) \in Nat
      BY DEF SendReturns, StatTypeOK
    <3>2. /\ Len(reports') = last /\ last \in Nat /\ reports'[last] = new
          /\ \A r \in 1 .. Len(reports) : reports'[r] = reports[r]
      BY <3>1
    <3>3. \A r \in 1 .. last : Since(r)' = Since(r)
      BY <3>1, <3>2 DEF Since
    <3>4. Since(last + 1)' = Len(received)
      <4>1. last + 1 # 1 /\ last + 1 - 1 = last /\ new.upTo = Len(received)
        BY <3>2
      <4>. QED  BY <3>2, <4>1 DEF Since
    <3>5. statEvent = Counted(received, Since(last), Len(received))
      BY DEF SendingTheMaps, ReportsPartitionTheMessages, SendReturns
    <3>6. Since(last) <= Len(received)
      BY <3>1 DEF Since, ReportsPartitionTheMessages, StatTypeOK, Report
    <3>7. [byConsumer |-> c', byMethod |-> m'] = Counted(received, Len(received), Len(received))
      <4>1. Counted(received, Len(received), Len(received)) = Nothing
        BY <3>1, CountedNothing
      <4>. QED  BY <4>1 DEF SendReturns, Nothing
    <3>8. ASSUME NEW r \in 1 .. last
          PROVE  /\ Since(r)' <= reports'[r].upTo /\ reports'[r].upTo <= Len(received)
                 /\ reports'[r].counts = Counted(received, Since(r)', reports'[r].upTo)
      <4>1. CASE r = last
        <5>1. Since(r)' = Since(last) /\ reports'[r] = new
          BY <3>2, <3>3, <4>1
        <5>. QED  BY <3>1, <3>5, <3>6, <5>1
      <4>2. CASE r \in 1 .. Len(reports)
        BY <3>2, <3>3, <4>2 DEF ReportsPartitionTheMessages
      <4>3. r = last \/ r \in 1 .. Len(reports)
        BY <3>1
      <4>. QED  BY <4>1, <4>2, <4>3
    <3>9. [byConsumer |-> c', byMethod |-> m']
            = Counted(received', Since(Len(reports) + 1)', Len(received'))
      BY <3>1, <3>2, <3>4, <3>7
    <3>. QED  BY <3>1, <3>2, <3>8, <3>9 DEF ReportsPartitionTheMessages
  <2>. QED  BY <1>0, <2>1, <2>2
<1>6. CASE UNCHANGED statVars
  BY <1>0, <1>6 DEF statVars, counters, PeriodIsTheInterval, Representable, SendingTheMaps,
                    ReportsPartitionTheMessages, Since
<1>. QED  BY <1>1, <1>2, <1>3, <1>4, <1>5, <1>6 DEF StatNext

-----------------------------------------------------------------------------
\* The inductive invariant holds throughout: types, and while a report is being
\* sent the maps are still what it carries.
THEOREM StatInvariance == StatSpec => []StatIInv
BY StatInitInv, StatInvNext, PTL DEF StatSpec

\* Every message a statistics stream receives is in exactly one report or still in
\* the maps, whatever the ticks and the client do, and the ticker's period is the
\* interval asked for if a Duration can hold it (admin_handler.go:32-84).
THEOREM Accounting == StatSpec => []MessagesReportedOnce
<1>1. StatIInv => MessagesReportedOnce
  BY DEF StatIInv
<1>. QED  BY <1>1, StatInvariance, PTL
=============================================================================
