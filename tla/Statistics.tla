----------------------------- MODULE Statistics -----------------------------
(***************************************************************************)
(* part_2/hw7_microservice/admin_handler.go, Statistics: one statistics    *)
(* stream, seen from inside its handler.  Microservice has the stream's    *)
(* place in the program (its Consume, Tick and SendReturns are Receive,    *)
(* Tick and SendReturns here) and leaves the counters out; here are the    *)
(* counters, the ticker and the reports, and the senders of messages are   *)
(* the environment.  closeCh is local to the handler and nobody sends on   *)
(* it, so the select has two cases.                                        *)
(***************************************************************************)
EXTENDS Integers, Sequences, FiniteSets

CONSTANTS
  Consumers, Methods,   \* the names a message carries
  Intervals,            \* the values of IntervalSeconds a client may ask for
  Second, Half,         \* time.Second; a Duration is in -Half .. Half - 1
  MaxMessages, MaxReports   \* bounds of the environment: messages, ticks that fire

ASSUME StatisticsAssumption ==
  /\ Intervals \subseteq Nat /\ Second \in Nat \ {0} /\ Half \in Nat \ {0}
  /\ MaxMessages \in Nat /\ MaxReports \in Nat

VARIABLES
  handler,    \* "idle", "select", "sending"; "panicked": the process has died
  interval,   \* interval.IntervalSeconds, the argument of the handler
  period,     \* the period of the ticker
  fired,      \* ticker.C, a channel with one place, holds a tick
  c, m,       \* the counters; 0 stands for a key that is not in the map
  statEvent,  \* the maps that are being sent
  received,   \* history: every message the handler has received
  reports     \* history: every report sent, and up to which message it goes

counters == <<c, m>>
statVars == <<handler, interval, period, fired, c, m, statEvent, received, reports>>

Message == [consumer : Consumers, method : Methods]
Counts == [byConsumer : [Consumers -> Nat], byMethod : [Methods -> Nat]]

Nothing == [byConsumer |-> [k \in Consumers |-> 0], byMethod |-> [k \in Methods |-> 0]]

\* time.Second * time.Duration(u), in two's complement
Duration(u) ==
  LET bits == (Second * u) % (2 * Half)
  IN  IF bits >= Half THEN bits - 2 * Half ELSE bits

StatInit ==
  /\ handler = "idle" /\ interval = 0 /\ period = 0 /\ fired = FALSE
  /\ c = Nothing.byConsumer /\ m = Nothing.byMethod
  /\ statEvent = Nothing
  /\ received = << >> /\ reports = << >>

\* time.NewTicker panics for a period that is not positive; gRPC does not
\* recover a handler's panic, so the process ends before addStatListener
StatOpen(u) ==
  /\ handler = "idle"
  /\ interval' = u /\ period' = Duration(u)
  /\ handler' = IF Duration(u) > 0 THEN "select" ELSE "panicked"
  /\ UNCHANGED <<fired, counters, statEvent, received, reports>>

\* A tick that finds the channel full is dropped
Fire ==
  /\ handler \in {"select", "sending"} /\ ~ fired
  /\ Len(reports) < MaxReports
  /\ fired' = TRUE
  /\ UNCHANGED <<handler, interval, period, counters, statEvent, received, reports>>

\* statMsg := <-sl.statCh
Receive(msg) ==
  /\ handler = "select" /\ Len(received) < MaxMessages
  /\ c' = [c EXCEPT ![msg.consumer] = @ + 1]
  /\ m' = [m EXCEPT ![msg.method] = @ + 1]
  /\ received' = Append(received, msg)
  /\ UNCHANGED <<handler, interval, period, fired, statEvent, reports>>

\* <-ticker.C: the event refers to the maps, and Send encodes it before it returns
Tick ==
  /\ handler = "select" /\ fired
  /\ fired' = FALSE /\ handler' = "sending"
  /\ statEvent' = [byConsumer |-> c, byMethod |-> m]
  /\ UNCHANGED <<interval, period, counters, received, reports>>

\* Fault: only one of the maps is replaced
SendReturnsKeepingMethods(sent) ==
  /\ handler = "sending"
  /\ handler' = "select"
  /\ reports' = Append(reports, [counts |-> statEvent, upTo |-> Len(received), sent |-> sent])
  /\ c' = Nothing.byConsumer
  /\ UNCHANGED <<interval, period, fired, m, statEvent, received>>

\* srv.Send returns; the maps are replaced whether the client got them or not
SendReturns(sent) ==
  /\ handler = "sending"
  /\ handler' = "select"
  /\ reports' = Append(reports, [counts |-> statEvent, upTo |-> Len(received), sent |-> sent])
  /\ c' = Nothing.byConsumer /\ m' = Nothing.byMethod
  /\ UNCHANGED <<interval, period, fired, statEvent, received>>

StatNext ==
  \/ \E u \in Intervals : StatOpen(u)
  \/ Fire \/ Tick
  \/ \E msg \in Message : Receive(msg)
  \/ \E sent \in BOOLEAN : SendReturns(sent)

StatSpec == StatInit /\ [][StatNext]_statVars

-----------------------------------------------------------------------------
(* Safety.                                                                 *)

Report == [counts : Counts, upTo : Nat, sent : BOOLEAN]

\* Every variable has its type
StatTypeOK ==
  /\ handler \in {"idle", "select", "sending", "panicked"}
  /\ interval \in Nat /\ period \in Int /\ fired \in BOOLEAN
  /\ c \in [Consumers -> Nat] /\ m \in [Methods -> Nat]
  /\ statEvent \in Counts
  /\ received \in Seq(Message) /\ reports \in Seq(Report)

\* The messages of s from number i + 1 to number j, counted by consumer and by method
Counted(s, i, j) ==
  [byConsumer |-> [k \in Consumers |-> Cardinality({n \in i + 1 .. j : s[n].consumer = k})],
   byMethod |-> [k \in Methods |-> Cardinality({n \in i + 1 .. j : s[n].method = k})]]

\* Where the interval of report r begins
Since(r) == IF r = 1 THEN 0 ELSE reports[r - 1].upTo

\* The reports cut the messages into consecutive intervals, and each counts those
\* of its own; the maps count what came after the last report
ReportsPartitionTheMessages ==
  /\ \A r \in 1 .. Len(reports) :
       /\ Since(r) <= reports[r].upTo /\ reports[r].upTo <= Len(received)
       /\ reports[r].counts = Counted(received, Since(r), reports[r].upTo)
  /\ [byConsumer |-> c, byMethod |-> m] =
       Counted(received, Since(Len(reports) + 1), Len(received))

\* The intervals a Duration can hold, and NewTicker accepts
Representable(u) == 0 < u /\ Second * u < Half

PeriodIsTheInterval ==
  handler # "idle" /\ Representable(interval) =>
    period = Second * interval /\ handler # "panicked"

\* Every message a statistics stream receives is in exactly one report or still in
\* the maps, by consumer and by method, never in two and never in none: however
\* late the tick is taken from the channel, and whether or not the Send succeeds.
\* The ticker has the period the client asked for, and the handler survives, as
\* long as the interval is positive and fits a Duration.
MessagesReportedOnce == ReportsPartitionTheMessages /\ PeriodIsTheInterval

\* What is being sent is what the maps hold
SendingTheMaps ==
  handler = "sending" => statEvent = [byConsumer |-> c, byMethod |-> m]

StatIInv == StatTypeOK /\ SendingTheMaps /\ MessagesReportedOnce
=============================================================================
