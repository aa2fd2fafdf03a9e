---------------------------- MODULE Microservice ----------------------------
(***************************************************************************)
(* The gRPC microservice of part_2/hw7_microservice: the goroutine of each *)
(* RPC, the two sender goroutines, the stop goroutine and the Serve        *)
(* goroutine, which share two lists of listeners under one RWMutex and     *)
(* talk over unbuffered channels.                                          *)
(*                                                                         *)
(* The log side and the statistics side have the same shape, so a "hub" is *)
(* "log" or "stat": its incoming channel, its close channel, its list of   *)
(* listeners and its sender goroutine.  A send on an unbuffered channel is *)
(* one joint step of the sender and the receiver.                          *)
(***************************************************************************)
EXTENDS Integers, Sequences

CONSTANTS
  Calls,      \* unary RPCs (Biz.Check, Biz.Add, Biz.Test), one id per invocation
  Loggers,    \* Admin.Logging streams, one id per invocation
  Stats,      \* Admin.Statistics streams, one id per invocation
  Consumer,   \* Consumer[r]: the values of the "consumer" metadata key of RPC r
  Method,     \* Method[r]: info.FullMethod of RPC r, split at "/"
  Acl,        \* the parsed ACL: consumer -> the set of its patterns, split at "/"
  NoStream    \* no goroutine holds or awaits the write lock

Streams == Loggers \cup Stats
Rpcs == Calls \cup Streams
Hubs == {"log", "stat"}
Hub(s) == IF s \in Loggers THEN "log" ELSE "stat"

ASSUME RpcAssumption ==
  /\ Calls \cap Streams = {} /\ Loggers \cap Stats = {}
  /\ Hubs \cap Rpcs = {} /\ NoStream \notin Rpcs

VARIABLES
  call,       \* call[c]: where the goroutine of unary RPC c is
  stream,     \* stream[s]: where the goroutine of streaming RPC s is
  sender,     \* sender[h]: where logsSender / statsSender is
  stop,       \* where the goroutine that waits for ctx.Done() is
  srv,        \* the grpc server, with the goroutine that calls Serve
  listeners,  \* listeners[h]: service.listeners / service.statListeners
  readers,    \* goroutines that hold service.m for reading
  writer,     \* the stream inside Lock()..Unlock() of service.m, or NoStream
  next, last, \* range loop of goroutine p: next index, length at loop entry
  accepted,   \* history: calls received by the sender of each hub, in order
  joined,     \* history: how much of accepted[h] precedes s's subscription
  got,        \* history: calls whose message s has received, in order
  heard       \* history: streams whose connection message s has received

lockVars == <<readers, writer>>
loopVars == <<next, last>>
history  == <<accepted, joined, got, heard>>
vars == <<call, stream, sender, stop, srv, listeners, lockVars, loopVars, history>>

-----------------------------------------------------------------------------
(* Access control, done first by both interceptors.                        *)

\* getConsumerNameFromContext: exactly one value under the "consumer" key
Authenticated(r) == Len(Consumer[r]) = 1

\* Fault: a pattern is matched up to the service name only
AdmitsService(pattern, method) == pattern[2] = method[2]

\* One pattern of the ACL: a third part "*" admits every method
Admits(pattern, method) ==
  \/ Len(pattern) = 3 /\ pattern[3] = "*"
  \/ pattern = method

\* checkBizPermission
Permitted(consumer, method) ==
  /\ consumer \in DOMAIN Acl
  /\ \E pattern \in Acl[consumer] : Admits(pattern, method)

Allowed(r) == Authenticated(r) /\ Permitted(Consumer[r][1], Method[r])

-----------------------------------------------------------------------------
(* sync.RWMutex: a goroutine that has called Lock() holds back new readers *)
(* and enters once the present ones have left.  The critical section of    *)
(* Lock() is one append, and is one step with its Unlock().                *)

RLock(p) ==
  /\ writer = NoStream
  /\ readers' = readers \cup {p}
  /\ UNCHANGED writer

RUnlock(p) ==
  /\ readers' = readers \ {p}
  /\ UNCHANGED writer

\* Fault: the loop bound is one short
EnterLoopShort(p, list) ==
  /\ next' = [next EXCEPT ![p] = 1]
  /\ last' = [last EXCEPT ![p] = Len(list) - 1]

\* Goroutine p enters `for _, l := range list`
EnterLoop(p, list) ==
  /\ next' = [next EXCEPT ![p] = 1]
  /\ last' = [last EXCEPT ![p] = Len(list)]

\* Fault: the range stops before its last element
InLoopShort(p) == next[p] < last[p]

InLoop(p) == next[p] <= last[p]

Advance(p) == next' = [next EXCEPT ![p] = @ + 1] /\ UNCHANGED last

\* A handler in its select receives a message: Logging goes on to srv.Send,
\* Statistics counts it and stays in the select
Consume(l) ==
  /\ stream[l] = "select"
  /\ stream' = IF l \in Loggers THEN [stream EXCEPT ![l] = "sending"] ELSE stream

-----------------------------------------------------------------------------
Init ==
  /\ call = [c \in Calls |-> "idle"]
  /\ stream = [s \in Streams |-> "idle"]
  /\ sender = [h \in Hubs |-> "select"]
  /\ stop = "running"
  /\ srv = "new"
  /\ listeners = [h \in Hubs |-> << >>]
  /\ readers = {} /\ writer = NoStream
  /\ next = [p \in Hubs \cup Streams |-> 1]
  /\ last = [p \in Hubs \cup Streams |-> 0]
  /\ accepted = [h \in Hubs |-> << >>]
  /\ joined = [s \in Streams |-> 0]
  /\ got = [s \in Streams |-> << >>]
  /\ heard = [s \in Streams |-> {}]

-----------------------------------------------------------------------------
(* Unary RPCs: unaryInterceptor, then Check, Add or Test.                  *)

Invoke(c) ==
  /\ call[c] = "idle" /\ srv = "serving"
  /\ call' = [call EXCEPT ![c] = IF Allowed(c) THEN "log" ELSE "denied"]
  /\ UNCHANGED <<stream, sender, stop, srv, listeners, lockVars, loopVars, history>>

\* Fault: the interceptor forgets the statistics message
AcceptLogOnly(h, c) ==
  /\ call[c] = h /\ sender[h] = "select"
  /\ call' = [call EXCEPT ![c] = "handler"]
  /\ sender' = [sender EXCEPT ![h] = "rlock"]
  /\ accepted' = [accepted EXCEPT ![h] = Append(@, c)]
  /\ UNCHANGED <<stream, stop, srv, listeners, lockVars, loopVars, joined, got, heard>>

\* s.incomingLogsCh <- &logMsg, then s.incomingStatCh <- &statMsg: call[c] is
\* the hub c is blocked on, and the sender of that hub is in its select
Accept(h, c) ==
  /\ call[c] = h /\ sender[h] = "select"
  /\ call' = [call EXCEPT ![c] = IF h = "log" THEN "stat" ELSE "handler"]
  /\ sender' = [sender EXCEPT ![h] = "rlock"]
  /\ accepted' = [accepted EXCEPT ![h] = Append(@, c)]
  /\ UNCHANGED <<stream, stop, srv, listeners, lockVars, loopVars, joined, got, heard>>

Handle(c) ==
  /\ call[c] = "handler"
  /\ call' = [call EXCEPT ![c] = "done"]
  /\ UNCHANGED <<stream, sender, stop, srv, listeners, lockVars, loopVars, history>>

-----------------------------------------------------------------------------
(* logsSender and statsSender.                                             *)

\* The message being sent out is the last one accepted
Current(h) == accepted[h][Len(accepted[h])]

SenderRLock(h) ==
  /\ sender[h] \in {"rlock", "closeRLock"}
  /\ RLock(h)
  /\ EnterLoop(h, listeners[h])
  /\ sender' = [sender EXCEPT ![h] = IF @ = "rlock" THEN "send" ELSE "close"]
  /\ UNCHANGED <<call, stream, stop, srv, listeners, history>>

\* Fault: the loop sends to the first listener each time round
DispatchToFirst(h) ==
  /\ sender[h] = "send" /\ InLoop(h)
  /\ LET l == listeners[h][1]
     IN  /\ Consume(l)
         /\ got' = [got EXCEPT ![l] = Append(@, Current(h))]
  /\ Advance(h)
  /\ UNCHANGED <<call, sender, stop, srv, listeners, lockVars, accepted, joined, heard>>

\* l.logsCh <- log
Dispatch(h) ==
  /\ sender[h] = "send" /\ InLoop(h)
  /\ LET l == listeners[h][next[h]]
     IN  /\ Consume(l)
         /\ got' = [got EXCEPT ![l] = Append(@, Current(h))]
  /\ Advance(h)
  /\ UNCHANGED <<call, sender, stop, srv, listeners, lockVars, accepted, joined, heard>>

SenderRUnlock(h) ==
  /\ sender[h] \in {"send", "close"} /\ ~ InLoop(h)
  /\ RUnlock(h)
  /\ sender' = [sender EXCEPT ![h] = IF @ = "send" THEN "select" ELSE "done"]
  /\ UNCHANGED <<call, stream, stop, srv, listeners, loopVars, history>>

\* closeListenersCh / closeStatListenersCh: the stop goroutine meets the sender
BeginClose(h) ==
  /\ stop = (IF h = "log" THEN "closeLog" ELSE "closeStat")
  /\ sender[h] = "select"
  /\ stop' = IF h = "log" THEN "closeStat" ELSE "stopServer"
  /\ sender' = [sender EXCEPT ![h] = "closeRLock"]
  /\ UNCHANGED <<call, stream, srv, listeners, lockVars, loopVars, history>>

\* Fault: every handler waits on a close channel of its own
HearsNoClose(l) == FALSE

\* l.closeCh <- struct{}{}: Logging selects on listener.closeCh, Statistics
\* selects on a channel of its own that nobody else can reach
HearsClose(l) == l \in Loggers

CloseListener(h) ==
  /\ sender[h] = "close" /\ InLoop(h)
  /\ LET l == listeners[h][next[h]]
     IN  /\ stream[l] = "select" /\ HearsClose(l)
         /\ stream' = [stream EXCEPT ![l] = "returned"]
  /\ Advance(h)
  /\ UNCHANGED <<call, sender, stop, srv, listeners, lockVars, history>>

-----------------------------------------------------------------------------
(* Streaming RPCs: streamInterceptor, then Logging or Statistics.          *)

Open(s) ==
  /\ stream[s] = "idle" /\ srv = "serving"
  /\ stream' = [stream EXCEPT ![s] = IF Allowed(s) THEN "rlock" ELSE "denied"]
  /\ UNCHANGED <<call, sender, stop, srv, listeners, lockVars, loopVars, history>>

StreamRLock(s) ==
  /\ stream[s] = "rlock"
  /\ RLock(s)
  /\ EnterLoop(s, listeners[Hub(s)])
  /\ stream' = [stream EXCEPT ![s] = "notify"]
  /\ UNCHANGED <<call, sender, stop, srv, listeners, history>>

\* The interceptor tells the listeners of its hub that s connects
Notify(s) ==
  /\ stream[s] = "notify" /\ InLoop(s)
  /\ LET l == listeners[Hub(s)][next[s]]
     IN  /\ Consume(l)
         /\ heard' = [heard EXCEPT ![l] = @ \cup {s}]
  /\ Advance(s)
  /\ UNCHANGED <<call, sender, stop, srv, listeners, lockVars, accepted, joined, got>>

\* Fault: the interceptor leaves without RUnlock
StreamRUnlockMissing(s) ==
  /\ stream[s] = "notify" /\ ~ InLoop(s)
  /\ stream' = [stream EXCEPT ![s] = "lock"]
  /\ UNCHANGED <<call, sender, stop, srv, listeners, lockVars, loopVars, history>>

StreamRUnlock(s) ==
  /\ stream[s] = "notify" /\ ~ InLoop(s)
  /\ RUnlock(s)
  /\ stream' = [stream EXCEPT ![s] = "lock"]
  /\ UNCHANGED <<call, sender, stop, srv, listeners, loopVars, history>>

\* addListener / addStatListener: Lock() is called ...
Lock(s) ==
  /\ stream[s] = "lock" /\ writer = NoStream
  /\ writer' = s
  /\ stream' = [stream EXCEPT ![s] = "locking"]
  /\ UNCHANGED <<call, sender, stop, srv, listeners, readers, loopVars, history>>

\* Fault: the list is appended to while others read it
RegisterUnlocked(s) ==
  /\ stream[s] = "locking" /\ writer = s
  /\ writer' = NoStream
  /\ listeners' = [listeners EXCEPT ![Hub(s)] = Append(@, s)]
  /\ joined' = [joined EXCEPT ![s] =
       Len(accepted[Hub(s)]) - (IF sender[Hub(s)] = "rlock" THEN 1 ELSE 0)]
  /\ stream' = [stream EXCEPT ![s] = "select"]
  /\ UNCHANGED <<call, sender, stop, srv, readers, loopVars, accepted, got, heard>>

\* Fault: a new listener is put in front of the list
RegisterInFront(s) ==
  /\ stream[s] = "locking" /\ writer = s /\ readers = {}
  /\ writer' = NoStream
  /\ listeners' = [listeners EXCEPT ![Hub(s)] = <<s>> \o @]
  /\ joined' = [joined EXCEPT ![s] =
       Len(accepted[Hub(s)]) - (IF sender[Hub(s)] = "rlock" THEN 1 ELSE 0)]
  /\ stream' = [stream EXCEPT ![s] = "select"]
  /\ UNCHANGED <<call, sender, stop, srv, readers, loopVars, accepted, got, heard>>

\* ... and entered: append, Unlock, and the handler reaches its select.  The
\* subscription starts at the message whose round of sends has not begun
Register(s) ==
  /\ stream[s] = "locking" /\ writer = s /\ readers = {}
  /\ writer' = NoStream
  /\ listeners' = [listeners EXCEPT ![Hub(s)] = Append(@, s)]
  /\ joined' = [joined EXCEPT ![s] =
       Len(accepted[Hub(s)]) - (IF sender[Hub(s)] = "rlock" THEN 1 ELSE 0)]
  /\ stream' = [stream EXCEPT ![s] = "select"]
  /\ UNCHANGED <<call, sender, stop, srv, readers, loopVars, accepted, got, heard>>

\* <-ticker.C: Statistics goes on to srv.Send
Tick(s) ==
  /\ s \in Stats /\ stream[s] = "select"
  /\ stream' = [stream EXCEPT ![s] = "sending"]
  /\ UNCHANGED <<call, sender, stop, srv, listeners, lockVars, loopVars, history>>

\* Fault: a handler returns when the stopped server fails its Send
SendReturnsOnError(s) ==
  /\ stream[s] = "sending"
  /\ stream' = [stream EXCEPT ![s] = IF srv = "stopped" THEN "returned" ELSE "select"]
  /\ UNCHANGED <<call, sender, stop, srv, listeners, lockVars, loopVars, history>>

\* srv.Send returns; its error, if the client is gone, is ignored
SendReturns(s) ==
  /\ stream[s] = "sending"
  /\ stream' = [stream EXCEPT ![s] = "select"]
  /\ UNCHANGED <<call, sender, stop, srv, listeners, lockVars, loopVars, history>>

-----------------------------------------------------------------------------
(* StartMyMicroservice: the goroutine that waits for ctx.Done() and the    *)
(* goroutine that calls srv.Serve.                                         *)

Cancel ==
  /\ stop = "running"
  /\ stop' = "closeLog"
  /\ UNCHANGED <<call, stream, sender, srv, listeners, lockVars, loopVars, history>>

\* srv.Stop(): no new RPC starts, pending srv.Send calls fail
StopServer ==
  /\ stop = "stopServer"
  /\ stop' = "stopped"
  /\ srv' = IF srv = "new" THEN "stoppedEarly" ELSE "stopped"
  /\ UNCHANGED <<call, stream, sender, listeners, lockVars, loopVars, history>>

\* Serve of a server that was already stopped fails, and the goroutine panics
Serve ==
  /\ srv \in {"new", "stoppedEarly"}
  /\ srv' = IF srv = "new" THEN "serving" ELSE "panicked"
  /\ UNCHANGED <<call, stream, sender, stop, listeners, lockVars, loopVars, history>>

-----------------------------------------------------------------------------
CallStep(c) == Invoke(c) \/ (\E h \in Hubs : Accept(h, c)) \/ Handle(c)

SenderStep(h) ==
  \/ SenderRLock(h) \/ Dispatch(h) \/ SenderRUnlock(h)
  \/ BeginClose(h) \/ CloseListener(h)

StreamStep(s) ==
  \/ Open(s) \/ StreamRLock(s) \/ Notify(s) \/ StreamRUnlock(s)
  \/ Lock(s) \/ Register(s) \/ Tick(s) \/ SendReturns(s)

\* A panic ends the process
Next ==
  /\ srv # "panicked"
  /\ \/ \E c \in Calls : CallStep(c)
     \/ \E h \in Hubs : SenderStep(h)
     \/ \E s \in Streams : StreamStep(s)
     \/ Cancel \/ StopServer \/ Serve

Spec == Init /\ [][Next]_vars

(* Fairness.  Every goroutine that can move does, until the process dies.  *)
(* A rendezvous with a goroutine that sits in a select is strongly fair:   *)
(* select picks among its ready cases at random, and a blocked sender      *)
(* stays queued on the channel.  SendReturns: the clients of the streams   *)
(* read them.  Clients and callers owe nothing: no fairness on Invoke,     *)
(* Open, Cancel, and none on Tick.                                         *)
Up == srv # "panicked"

Fairness ==
  /\ \A c \in Calls :
       /\ WF_vars(Up /\ Handle(c))
       /\ \A h \in Hubs : SF_vars(Up /\ Accept(h, c))
  /\ \A h \in Hubs :
       /\ WF_vars(Up /\ (SenderRLock(h) \/ SenderRUnlock(h)))
       /\ SF_vars(Up /\ (Dispatch(h) \/ BeginClose(h) \/ CloseListener(h)))
  /\ \A s \in Streams :
       /\ WF_vars(Up /\ (StreamRLock(s) \/ StreamRUnlock(s) \/ Lock(s) \/ Register(s)))
       /\ SF_vars(Up /\ Notify(s))
       /\ WF_vars(Up /\ SendReturns(s))
  /\ WF_vars(Up /\ (StopServer \/ Serve))

FairSpec == Spec /\ Fairness

-----------------------------------------------------------------------------
(* Safety.                                                                 *)

\* Every variable has its type: program counters, lists of streams of the
\* hub, loop indices, histories of calls and of streams.
TypeOK ==
  /\ call \in [Calls -> {"idle", "denied", "log", "stat", "handler", "done"}]
  /\ stream \in [Streams -> {"idle", "denied", "rlock", "notify", "lock",
                             "locking", "select", "sending", "returned"}]
  /\ sender \in [Hubs -> {"select", "rlock", "send", "closeRLock", "close", "done"}]
  /\ stop \in {"running", "closeLog", "closeStat", "stopServer", "stopped"}
  /\ srv \in {"new", "serving", "stopped", "stoppedEarly", "panicked"}
  /\ listeners \in [Hubs -> Seq(Streams)]
  /\ readers \subseteq Hubs \cup Streams
  /\ writer \in Streams \cup {NoStream}
  /\ next \in [Hubs \cup Streams -> Nat]
  /\ last \in [Hubs \cup Streams -> Nat]
  /\ accepted \in [Hubs -> Seq(Calls)]
  /\ joined \in [Streams -> Nat]
  /\ got \in [Streams -> Seq(Calls)]
  /\ heard \in [Streams -> SUBSET Streams]

\* Streams whose handler has been registered: it runs, or has returned
Registered(s) == stream[s] \in {"select", "sending", "returned"}

\* Goroutines between the entry of a range loop over a list and RUnlock
Iterating(h) == sender[h] \in {"send", "close"}
Notifying(s) == stream[s] = "notify"

\* Neither list grows under a goroutine that ranges over it: between RLock and
\* RUnlock of logsSender, statsSender or streamInterceptor the list is the one
\* the loop was entered with, and every such goroutine holds the read lock.
ListStableWhileRead ==
  /\ \A h \in Hubs : Iterating(h) => h \in readers /\ last[h] = Len(listeners[h])
  /\ \A s \in Streams :
       Notifying(s) => s \in readers /\ last[s] = Len(listeners[Hub(s)])

\* 1 when the message that sender h is about to send, or is sending, has not
\* yet reached position i of the list
Pending(h, i) ==
  IF sender[h] = "rlock" \/ (sender[h] = "send" /\ next[h] <= i) THEN 1 ELSE 0

\* The stream at position i has received, in order and without a gap, the calls
\* accepted since it was registered, but for the pending one
Delivered(h, i) ==
  LET l == listeners[h][i]
  IN  /\ joined[l] + Len(got[l]) + Pending(h, i) = Len(accepted[h])
      /\ \A k \in 1 .. Len(got[l]) : got[l][k] = accepted[h][joined[l] + k]

\* Every registered stream has received, in the order in which the sender
\* accepted them and without a gap or a repetition, all the calls accepted since
\* it was registered, but for at most the one that is being sent out: nothing is
\* lost on the way from unaryInterceptor through logsSender/statsSender to the
\* handler, whatever registers meanwhile.
DeliveredInOrder ==
  \A h \in Hubs : \A i \in 1 .. Len(listeners[h]) : Delivered(h, i)

\* streamInterceptor has told position i of its list that s connects
Told(s, i) ==
  \/ stream[s] = "notify" /\ i < next[s]
  \/ stream[s] \in {"lock", "locking"} /\ i <= last[s]
  \/ Registered(s) /\ i <= last[s]

\* streamInterceptor tells exactly the streams that were registered when it took
\* the read lock, and registers behind them: two streams of a hub never hear of
\* each other, none hears of itself, and one misses another only if that one was
\* between RLock and registration at the same time.
NoticesFollowTheListAsRead ==
  \A s \in Streams : \A i \in 1 .. Len(listeners[Hub(s)]) :
    LET l == listeners[Hub(s)][i]
    IN  /\ s \in heard[l] <=> Told(s, i)
        /\ l = s => last[s] < i

\* call[c] once the sender of hub h has taken its message
Passed(h) == IF h = "log" THEN {"stat", "handler", "done"} ELSE {"handler", "done"}

\* A call is handed to logsSender exactly once and then to statsSender exactly
\* once, both before its handler Check, Add or Test runs; a call that access
\* control refuses reaches neither.
LoggedAndCountedOnce ==
  \A h \in Hubs :
    /\ \A c \in Calls : (\E k \in 1 .. Len(accepted[h]) : accepted[h][k] = c)
                          <=> Allowed(c) /\ call[c] \in Passed(h)
    /\ \A j, k \in 1 .. Len(accepted[h]) : accepted[h][j] = accepted[h][k] => j = k

\* What the ACL is meant to say: the metadata names one consumer, and his patterns
\* list the method, or one of them has "*" for the method
Granted(r) ==
  /\ Len(Consumer[r]) = 1
  /\ \E consumer \in DOMAIN Acl :
       /\ consumer = Consumer[r][1]
       /\ \/ Method[r] \in Acl[consumer]
          \/ \E pattern \in Acl[consumer] : Len(pattern) = 3 /\ pattern[3] = "*"

\* A call or stream that the ACL does not grant gets nothing (TestACL,
\* service_test.go:146-178): the call reaches neither sender nor handler, the stream
\* is in no list, no other stream hears of it and it receives nothing.  What is
\* granted is never refused.
RefusedLeavesNoTrace ==
  /\ \A c \in Calls :
       IF Granted(c) THEN call[c] # "denied"
       ELSE /\ call[c] \in {"idle", "denied"}
            /\ \A h \in Hubs : \A k \in 1 .. Len(accepted[h]) : accepted[h][k] # c
  /\ \A s \in Streams :
       IF Granted(s) THEN stream[s] # "denied"
       ELSE /\ stream[s] \in {"idle", "denied"}
            /\ got[s] = << >> /\ heard[s] = {}
            /\ \A h \in Hubs : \A i \in 1 .. Len(listeners[h]) : listeners[h][i] # s
            /\ \A t \in Streams : s \notin heard[t]

\* The handlers that have returned are those the sender of their hub has closed,
\* a prefix of the list as it was when the round of closing began; a stream that
\* registers after that round is never closed.
ClosedInListOrder ==
  \A h \in Hubs : \A i \in 1 .. Len(listeners[h]) :
    stream[listeners[h][i]] = "returned" <=>
      \/ sender[h] = "close" /\ i < next[h]
      \/ sender[h] = "done" /\ i <= last[h]

-----------------------------------------------------------------------------
(* Each hub implements LogBroadcast: its log is what the sender accepted.  *)

Mapped(S, f) == [s \in S |-> f[s]]

LogHub == INSTANCE LogBroadcast WITH
  Messages <- Calls, Readers <- Loggers,
  log <- accepted["log"],
  from <- Mapped(Loggers, joined), inbox <- Mapped(Loggers, got),
  subscribed <- {s \in Loggers : Registered(s)}

StatHub == INSTANCE LogBroadcast WITH
  Messages <- Calls, Readers <- Stats,
  log <- accepted["stat"],
  from <- Mapped(Stats, joined), inbox <- Mapped(Stats, got),
  subscribed <- {s \in Stats : Registered(s)}

\* The senders, the listeners and the lock together give each hub the behaviour
\* of one log that its streams read in order.
LogHubIsBroadcast == LogHub!Spec
StatHubIsBroadcast == StatHub!Spec

\* On the log side the promise holds with its liveness: a message that logsSender
\* has accepted reaches every logger of the list, even if the shutdown starts, or
\* the server stops, before it has.
LogHubDelivers == LogHub!FairSpec

-----------------------------------------------------------------------------
(* Liveness, under FairSpec.                                               *)

\* As long as the context is not cancelled, every call that is admitted gets its
\* answer and every stream that is admitted gets to its select: the two senders,
\* the notices of the interceptors and the lock of the lists never wait on each
\* other in a circle.
ServedUntilCancelled ==
  [](stop = "running") =>
    /\ \A c \in Calls : (call[c] = "log") ~> (call[c] = "done")
    /\ \A s \in Streams : (stream[s] = "rlock") ~> Registered(s)

Opening(s) == stream[s] \in {"rlock", "notify", "lock", "locking"}

EveryLoggerClosed ==
  sender["log"] = "done" /\ \A i \in 1 .. last["log"] :
                               stream[listeners["log"][i]] = "returned"

\* If no stream is between access control and its select from the cancellation
\* on, then whatever calls are in flight and whatever streams are open, logsSender
\* closes every logger and ends, and the stop goroutine gets to srv.Stop().
StopsIfNoStreamIsOpening ==
  [](stop # "running" => \A s \in Streams : ~ Opening(s)) =>
    /\ (stop = "closeLog") ~> (stop = "stopped")
    /\ (stop = "closeLog") ~> (EveryLoggerClosed \/ srv = "panicked")


-----------------------------------------------------------------------------
(* The inductive invariant behind DeliveredInOrder and the refinement.     *)

\* Who holds and who awaits the lock can be read off the program counters
Locks ==
  /\ \A h \in Hubs : h \in readers <=> Iterating(h)
  /\ \A s \in Streams : s \in readers <=> Notifying(s)
  /\ \A s \in Streams : stream[s] = "locking" => writer = s

\* The list of a hub holds its registered streams, each once
Lists ==
  /\ \A h \in Hubs : \A i \in 1 .. Len(listeners[h]) :
       Registered(listeners[h][i]) /\ Hub(listeners[h][i]) = h
  /\ \A h \in Hubs : \A i, j \in 1 .. Len(listeners[h]) :
       listeners[h][i] = listeners[h][j] => i = j
  /\ \A s \in Streams : Registered(s) =>
       \E i \in 1 .. Len(listeners[Hub(s)]) : listeners[Hub(s)][i] = s

\* Range loops count from 1
CountsFromOne == \A p \in Hubs \cup Streams : next[p] >= 1

\* A sender at work on a message has one
SendersHaveMessages ==
  \A h \in Hubs : sender[h] \in {"rlock", "send"} => accepted[h] # << >>

\* Access control comes first
OnlyAllowedProceed == \A c \in Calls : call[c] \notin {"idle", "denied"} => Allowed(c)

\* Nothing is delivered before the registration
OnlyRegisteredReceive == \A s \in Streams : ~ Registered(s) => got[s] = << >>

IInv ==
  /\ TypeOK /\ Locks /\ ListStableWhileRead /\ Lists /\ CountsFromOne
  /\ SendersHaveMessages /\ OnlyAllowedProceed /\ OnlyRegisteredReceive
  /\ LoggedAndCountedOnce /\ DeliveredInOrder

\* The inductive invariant behind NoticesFollowTheListAsRead: an interceptor's loop
\* went over a list as it was, and lists only grow; only members hear notices
LoopsEndWithinLists ==
  \A s \in Streams : (stream[s] \in {"lock", "locking"} \/ Registered(s)) =>
                        last[s] <= Len(listeners[Hub(s)])

OnlyRegisteredHear == \A s \in Streams : ~ Registered(s) => heard[s] = {}

NoticesIInv == LoopsEndWithinLists /\ OnlyRegisteredHear /\ NoticesFollowTheListAsRead

\* Behind RefusedLeavesNoTrace: access control comes first, on streams as on calls,
\* and refuses nothing that it admits; who is heard of has passed it
AccessIInv ==
  /\ \A c \in Calls : Allowed(c) => call[c] # "denied"
  /\ \A s \in Streams :
       /\ Allowed(s) => stream[s] # "denied"
       /\ stream[s] \notin {"idle", "denied"} => Allowed(s)
  /\ \A s, t \in Streams : s \in heard[t] => Allowed(s)

\* And behind ClosedInListOrder
ClosingIInv ==
  /\ ClosedInListOrder
  /\ \A h \in Hubs : sender[h] = "done" => last[h] <= Len(listeners[h])

-----------------------------------------------------------------------------
(* What the tests of the service say and the code does not do.             *)

\* "calling finish your server must stop and free the port"
\* (service_test.go:80): a cancellation is followed by srv.Stop().
PortFreed == (stop = "closeLog") ~> (stop = "stopped")

\* "we check that you stop all the goroutines you had and nothing leaks"
\* (service_test.go:95): after a cancellation the senders, the calls in flight
\* and the handlers of the streams all end, or the process does.
NoGoroutineLeft ==
  (stop = "closeLog") ~>
    \/ srv = "panicked"
    \/ /\ \A h \in Hubs : sender[h] = "done"
       /\ \A c \in Calls : call[c] \in {"idle", "denied", "done"}
       /\ \A s \in Streams : stream[s] \in {"idle", "denied", "returned"}

\* A cancellation stops the server (service_test.go:80); it does not crash the
\* program that started it.
NeverPanics == srv # "panicked"
=============================================================================
