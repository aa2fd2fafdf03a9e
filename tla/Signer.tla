------------------------------- MODULE Signer -------------------------------
(***************************************************************************)
(* The signer of part_1/hw2_signer: ExecutePipeline runs five jobs, each   *)
(* in a goroutine, connected by unbuffered channels: the source of the     *)
(* test, SingleHash, MultiHash, CombineResults and the sink of the test.   *)
(* SingleHash and MultiHash start a worker per value; values are named by  *)
(* their place in the input, and so are the workers.  A send on a channel  *)
(* is one joint step of the sender and the receiver.                       *)
(*                                                                         *)
(* Strings are opaque: the operators below are all that is ever applied to *)
(* them.  The result is the sequence of the hashes that it joins with "_". *)
(***************************************************************************)
EXTENDS Integers, Sequences, FiniteSets, Functions

CONSTANTS
  Inputs,           \* the inputs of the source to be considered
  MaxInputDataLen,  \* bound of their length, as in common.go
  TH,               \* parts of a MultiHash value
  Rivals,           \* other goroutines of the process that call DataSignerMd5 once
  Empty,            \* the string make() puts into an array
  Itoa(_), Concat(_, _), Md5(_), Crc32(_),
  Joined(_),        \* strings.Join with no separator
  Before(_, _)      \* the order of strings that sort.Strings uses

Items == 1 .. MaxInputDataLen
Parts == 0 .. TH - 1
Callers == Items \cup Rivals
Free == 0  \* nobody holds the mutex

ASSUME SignerAssumption ==
  /\ MaxInputDataLen \in Nat /\ TH \in Nat
  /\ \A s \in Inputs : s \in Seq(Int) /\ Len(s) <= MaxInputDataLen
  /\ Rivals \cap Items = {}

\* The jobs, in the order of the pipeline; job j reads the channel j-1 writes
Source == 1
Single == 2
Multi == 3
Combine == 4
Sink == 5
Jobs == Source .. Sink

VARIABLES
  spawned,   \* ExecutePipeline: jobs started so far
  returned,  \* ExecutePipeline has returned
  job,       \* job[j]: where jobWorker j is
  input,     \* the data of the source
  sent,      \* how many of them the source has sent
  mu,        \* the item whose worker holds the mutex of SingleHash
  overheat,  \* dataSignerOverheat
  md5,       \* md5[c]: where the call of DataSignerMd5 by c is
  single,    \* single[k]: where singleHashWorker k is
  helper,    \* helper[k]: where its crc32Parallel is
  multi,     \* multi[k]: where multiHashWorker k is
  part,      \* part[k][i]: where the goroutine of its part i is
  arr,       \* arr[k]: its array of parts
  res,       \* res[k]: what it has joined
  array,     \* the array of CombineResults
  received,  \* what the sink has received: nothing or one result
  order      \* history: the items CombineResults received, in order

mainVars   == <<spawned, returned>>
md5Vars    == <<mu, overheat, md5>>
singleVars == <<single, helper>>
multiVars  == <<multi, part, arr, res>>
endVars    == <<array, received, order>>
vars == <<mainVars, job, input, sent, md5Vars, singleVars, multiVars, endVars>>

-----------------------------------------------------------------------------
(* What the workers compute for a value                                    *)

SingleHashOf(d) == Concat(Crc32(Itoa(d)), Crc32(Md5(Itoa(d))))
PartOf(d, i)    == Crc32(Concat(Itoa(i), SingleHashOf(d)))
MultiHashOf(d)  == Joined([i \in Parts |-> PartOf(d, i)])

\* The strings that CombineResults may have to sort
Hashes == {MultiHashOf(d) : d \in UNION {Range(s) : s \in Inputs}}

\* Strings are ordered byte by byte: of two different ones, one is the smaller
ASSUME OrderAssumption ==
  \A s, t, u \in Hashes :
    /\ ~ Before(s, s)
    /\ Before(s, t) /\ Before(t, u) => Before(s, u)
    /\ s # t => Before(s, t) \/ Before(t, s)

\* What sort.Strings may make of a slice: it permutes the slice, until no string
\* is in front of a smaller one
Rearranged(strings, p) == [n \in DOMAIN strings |-> strings[p[n]]]

Sortings(strings) ==
  {q \in {Rearranged(strings, p) : p \in Bijection(DOMAIN strings, DOMAIN strings)} :
     \A m, n \in DOMAIN strings : m < n => ~ Before(q[n], q[m])}

-----------------------------------------------------------------------------
Init ==
  /\ spawned = 0 /\ returned = FALSE
  /\ job = [j \in Jobs |-> "new"]
  /\ input \in Inputs
  /\ sent = 0
  /\ mu = Free /\ overheat = 0
  /\ md5 = [c \in Callers |-> "out"]
  /\ single = [k \in Items |-> "none"]
  /\ helper = [k \in Items |-> "none"]
  /\ multi = [k \in Items |-> "none"]
  /\ part = [k \in Items |-> [i \in Parts |-> "none"]]
  /\ arr = [k \in Items |-> [i \in Parts |-> Empty]]
  /\ res = [k \in Items |-> Empty]
  /\ array = << >> /\ received = << >> /\ order = << >>

-----------------------------------------------------------------------------
(* ExecutePipeline and jobWorker                                           *)

Spawn ==
  /\ spawned < Sink
  /\ spawned' = spawned + 1
  /\ job' = [job EXCEPT ![spawned'] = "running"]
  /\ UNCHANGED <<returned, input, sent, md5Vars, singleVars, multiVars, endVars>>

\* Fault: the deferred Wait of ExecutePipeline is missing
ReturnUnwaited ==
  /\ spawned = Sink /\ ~ returned
  /\ returned' = TRUE
  /\ UNCHANGED <<spawned, job, input, sent, md5Vars, singleVars, multiVars, endVars>>

\* The deferred wg.Wait
Return ==
  /\ spawned = Sink /\ ~ returned
  /\ \A j \in Jobs : job[j] = "done"
  /\ returned' = TRUE
  /\ UNCHANGED <<spawned, job, input, sent, md5Vars, singleVars, multiVars, endVars>>

\* The output channel of job j is closed
Closed(j) == job[j] \in {"closed", "done"}

JobMoves(j, from, to) ==
  /\ job[j] = from
  /\ job' = [job EXCEPT ![j] = to]
  /\ UNCHANGED <<mainVars, input, sent, md5Vars, singleVars, multiVars, endVars>>

\* defer close(out)
CloseOut(j) == JobMoves(j, "returned", "closed")

\* defer wg.Done()
JobDone(j) == JobMoves(j, "closed", "done")

-----------------------------------------------------------------------------
(* Source                                                                  *)

\* Fault: one value more than there is
SourceSendsTwice ==
  /\ job[Source] = "running" /\ job[Single] = "running"
  /\ sent <= Len(input)
  /\ sent' = sent + 1
  /\ single' = [single EXCEPT ![sent'] = "lock"]
  /\ UNCHANGED <<mainVars, job, input, md5Vars, helper, multiVars, endVars>>

\* The source sends its next value, SingleHash starts a worker for it
SourceSends ==
  /\ job[Source] = "running" /\ job[Single] = "running"
  /\ sent < Len(input)
  /\ sent' = sent + 1
  /\ single' = [single EXCEPT ![sent'] = "lock"]
  /\ UNCHANGED <<mainVars, job, input, md5Vars, helper, multiVars, endVars>>

SourceReturns == sent = Len(input) /\ JobMoves(Source, "running", "returned")

-----------------------------------------------------------------------------
(* SingleHash and MultiHash: the range over in, then the deferred wg.Wait   *)

RangeEnds(j) ==
  j \in {Single, Multi} /\ Closed(j - 1) /\ JobMoves(j, "running", "waiting")

\* Fault: the deferred Wait of SingleHash and MultiHash is missing
JobReturnsUnwaited(j) == JobMoves(j, "waiting", "returned")

JobReturns(j) ==
  /\ j \in {Single, Multi}
  /\ \A k \in Items : (IF j = Single THEN single ELSE multi)[k] \in {"none", "done"}
  /\ JobMoves(j, "waiting", "returned")

-----------------------------------------------------------------------------
(* DataSignerMd5, with OverheatLock and OverheatUnlock                     *)

\* The compare-and-swap of OverheatLock; on failure the caller sleeps
OverheatLock(c) ==
  /\ md5[c] = "heating"
  /\ overheat' = 1
  /\ md5' = [md5 EXCEPT ![c] = IF overheat = 0 THEN "hashing" ELSE "overheated"]
  /\ UNCHANGED <<mainVars, job, input, sent, mu, singleVars, multiVars, endVars>>

SleepEnds(c) ==
  /\ md5[c] = "overheated"
  /\ md5' = [md5 EXCEPT ![c] = "heating"]
  /\ UNCHANGED <<mainVars, job, input, sent, mu, overheat, singleVars, multiVars, endVars>>

\* Fault: OverheatUnlock is missing
Md5ReturnsHot(c) ==
  /\ md5[c] = "hashing" /\ overheat = 1
  /\ md5' = [md5 EXCEPT ![c] = "returned"]
  /\ UNCHANGED <<mainVars, job, input, sent, mu, overheat, singleVars, multiVars, endVars>>

\* OverheatUnlock, which swaps at once: only the caller that set the flag is here
Md5Returns(c) ==
  /\ md5[c] = "hashing" /\ overheat = 1
  /\ overheat' = 0
  /\ md5' = [md5 EXCEPT ![c] = "returned"]
  /\ UNCHANGED <<mainVars, job, input, sent, mu, singleVars, multiVars, endVars>>

\* Another goroutine, that does not know the mutex of this SingleHash
RivalCalls(r) ==
  /\ md5[r] = "out"
  /\ md5' = [md5 EXCEPT ![r] = "heating"]
  /\ UNCHANGED <<mainVars, job, input, sent, mu, overheat, singleVars, multiVars, endVars>>

-----------------------------------------------------------------------------
(* singleHashWorker and crc32Parallel                                      *)

\* Fault: the call of DataSignerMd5 is not guarded by the mutex
MuLockFree(k) ==
  /\ single[k] = "lock"
  /\ mu' = k
  /\ single' = [single EXCEPT ![k] = "md5"]
  /\ md5' = [md5 EXCEPT ![k] = "heating"]
  /\ UNCHANGED <<mainVars, job, input, sent, overheat, helper, multiVars, endVars>>

\* mu.Lock() and the call of DataSignerMd5
MuLock(k) ==
  /\ single[k] = "lock" /\ mu = Free
  /\ mu' = k
  /\ single' = [single EXCEPT ![k] = "md5"]
  /\ md5' = [md5 EXCEPT ![k] = "heating"]
  /\ UNCHANGED <<mainVars, job, input, sent, overheat, helper, multiVars, endVars>>

\* mu.Unlock() and the start of crc32Parallel
MuUnlock(k) ==
  /\ single[k] = "md5" /\ md5[k] = "returned"
  /\ mu' = Free
  /\ single' = [single EXCEPT ![k] = "crc"]
  /\ helper' = [helper EXCEPT ![k] = "crc"]
  /\ UNCHANGED <<mainVars, job, input, sent, overheat, md5, multiVars, endVars>>

CrcOfMd5(k) ==
  /\ single[k] = "crc"
  /\ single' = [single EXCEPT ![k] = "join"]
  /\ UNCHANGED <<mainVars, job, input, sent, md5Vars, helper, multiVars, endVars>>

CrcOfData(k) ==
  /\ helper[k] = "crc"
  /\ helper' = [helper EXCEPT ![k] = "send"]
  /\ UNCHANGED <<mainVars, job, input, sent, md5Vars, single, multiVars, endVars>>

\* crc32Data := <-dataChan
Join(k) ==
  /\ single[k] = "join" /\ helper[k] = "send"
  /\ single' = [single EXCEPT ![k] = "send"]
  /\ helper' = [helper EXCEPT ![k] = "done"]
  /\ UNCHANGED <<mainVars, job, input, sent, md5Vars, multiVars, endVars>>

\* out <- ...: MultiHash starts a worker, which starts its parts
SingleSends(k) ==
  /\ single[k] = "send" /\ job[Multi] = "running"
  /\ single' = [single EXCEPT ![k] = "finish"]
  /\ multi' = [multi EXCEPT ![k] = "wait"]
  /\ part' = [part EXCEPT ![k] = [i \in Parts |-> "run"]]
  /\ UNCHANGED <<mainVars, job, input, sent, md5Vars, helper, arr, res, endVars>>

\* wg.Done()
SingleDone(k) ==
  /\ single[k] = "finish"
  /\ single' = [single EXCEPT ![k] = "done"]
  /\ UNCHANGED <<mainVars, job, input, sent, md5Vars, helper, multiVars, endVars>>

-----------------------------------------------------------------------------
(* multiHashWorker                                                         *)

\* A part is written under the mutex of its worker
WritePart(k, i) ==
  /\ part[k][i] = "run"
  /\ part' = [part EXCEPT ![k][i] = "written"]
  /\ arr' = [arr EXCEPT ![k][i] = PartOf(input[k], i)]
  /\ UNCHANGED <<mainVars, job, input, sent, md5Vars, singleVars, multi, res, endVars>>

PartDone(k, i) ==
  /\ part[k][i] = "written"
  /\ part' = [part EXCEPT ![k][i] = "done"]
  /\ UNCHANGED <<mainVars, job, input, sent, md5Vars, singleVars, multi, arr, res, endVars>>

\* Fault: one of the parts is not waited for
CrcWaitOneLess(k) ==
  /\ multi[k] = "wait"
  /\ \A i \in Parts \ {TH - 1} : part[k][i] = "done"
  /\ res' = [res EXCEPT ![k] = Joined(arr[k])]
  /\ multi' = [multi EXCEPT ![k] = "send"]
  /\ UNCHANGED <<mainVars, job, input, sent, md5Vars, singleVars, part, arr, endVars>>

\* crc32.Wait() and the join of the parts
CrcWait(k) ==
  /\ multi[k] = "wait"
  /\ \A i \in Parts : part[k][i] = "done"
  /\ res' = [res EXCEPT ![k] = Joined(arr[k])]
  /\ multi' = [multi EXCEPT ![k] = "send"]
  /\ UNCHANGED <<mainVars, job, input, sent, md5Vars, singleVars, part, arr, endVars>>

\* Fault: MultiHash collects its results and sends them when its input ends
MultiSendsLate(k) ==
  /\ multi[k] = "send" /\ job[Combine] = "running" /\ Closed(Single)
  /\ multi' = [multi EXCEPT ![k] = "finish"]
  /\ array' = Append(array, res[k])
  /\ order' = Append(order, k)
  /\ UNCHANGED <<mainVars, job, input, sent, md5Vars, singleVars, part, arr, res, received>>

\* out <- res: CombineResults appends it
MultiSends(k) ==
  /\ multi[k] = "send" /\ job[Combine] = "running"
  /\ multi' = [multi EXCEPT ![k] = "finish"]
  /\ array' = Append(array, res[k])
  /\ order' = Append(order, k)
  /\ UNCHANGED <<mainVars, job, input, sent, md5Vars, singleVars, part, arr, res, received>>

MultiDone(k) ==
  /\ multi[k] = "finish"
  /\ multi' = [multi EXCEPT ![k] = "done"]
  /\ UNCHANGED <<mainVars, job, input, sent, md5Vars, singleVars, part, arr, res, endVars>>

-----------------------------------------------------------------------------
(* CombineResults and the sink                                             *)

\* Fault: the results are joined in the order they came
CombineJoins ==
  /\ job[Combine] = "running" /\ Closed(Multi)
  /\ job' = [job EXCEPT ![Combine] = "sending"]
  /\ UNCHANGED <<mainVars, input, sent, md5Vars, singleVars, multiVars, endVars>>

\* The range over in has ended; sort.Strings sorts the array in place
CombineSorts ==
  /\ job[Combine] = "running" /\ Closed(Multi)
  /\ job' = [job EXCEPT ![Combine] = "sending"]
  /\ array' \in Sortings(array)
  /\ UNCHANGED <<mainVars, input, sent, md5Vars, singleVars, multiVars, received, order>>

\* The sink of the test reads once
CombineSends ==
  /\ job[Combine] = "sending" /\ job[Sink] = "running"
  /\ job' = [job EXCEPT ![Combine] = "returned", ![Sink] = "returned"]
  /\ received' = <<array>>
  /\ UNCHANGED <<mainVars, input, sent, md5Vars, singleVars, multiVars, array, order>>

-----------------------------------------------------------------------------
SourceStep  == SourceSends \/ SourceReturns
MainStep    == Spawn \/ Return
JobStep(j)  == RangeEnds(j) \/ JobReturns(j) \/ CloseOut(j) \/ JobDone(j)
Md5Step(c)  == OverheatLock(c) \/ SleepEnds(c) \/ Md5Returns(c)
SingleStep(k) ==
  MuLock(k) \/ MuUnlock(k) \/ CrcOfMd5(k) \/ Join(k) \/ SingleSends(k) \/ SingleDone(k)
PartStep(k, i) == WritePart(k, i) \/ PartDone(k, i)
MultiStep(k)   == CrcWait(k) \/ MultiSends(k) \/ MultiDone(k)
CombineStep    == CombineSorts \/ CombineSends

\* ExecutePipeline has returned and all that it started has ended
Terminated == returned /\ UNCHANGED vars

Next ==
  \/ MainStep \/ SourceStep \/ CombineStep \/ Terminated
  \/ \E j \in Jobs : JobStep(j)
  \/ \E c \in Callers : Md5Step(c)
  \/ \E r \in Rivals : RivalCalls(r)
  \/ \E k \in Items : SingleStep(k) \/ CrcOfData(k) \/ MultiStep(k)
  \/ \E k \in Items, i \in Parts : PartStep(k, i)

Spec == Init /\ [][Next]_vars

\* Every goroutine that can run does, except the source, which may pause for
\* ever between two values
FairSpec ==
  /\ Spec
  /\ WF_vars(MainStep) /\ WF_vars(CombineStep)
  /\ \A j \in Jobs : WF_vars(JobStep(j))
  /\ \A c \in Callers : WF_vars(Md5Step(c))
  /\ \A k \in Items :
       /\ WF_vars(SingleStep(k)) /\ WF_vars(CrcOfData(k)) /\ WF_vars(MultiStep(k))
       /\ \A i \in Parts : WF_vars(PartStep(k, i))

-----------------------------------------------------------------------------
(* Properties                                                              *)

\* What an array of parts can contain
PartValues == {Empty} \cup {PartOf(input[k], i) : k \in DOMAIN input, i \in Parts}

TypeOK ==
  /\ spawned \in 0 .. Sink /\ returned \in BOOLEAN
  /\ job \in [Jobs -> {"new", "running", "waiting", "sending", "returned", "closed", "done"}]
  /\ input \in Inputs
  /\ sent \in 0 .. Len(input)
  /\ mu \in Items \cup {Free} /\ overheat \in {0, 1}
  /\ md5 \in [Callers -> {"out", "heating", "overheated", "hashing", "returned"}]
  /\ single \in [Items -> {"none", "lock", "md5", "crc", "join", "send", "finish", "done"}]
  /\ helper \in [Items -> {"none", "crc", "send", "done"}]
  /\ multi \in [Items -> {"none", "wait", "send", "finish", "done"}]
  /\ part \in [Items -> [Parts -> {"none", "run", "written", "done"}]]
  /\ arr \in [Items -> [Parts -> PartValues]]
  /\ res \in [Items -> {Empty} \cup {Joined(a) : a \in [Parts -> PartValues]}]
  /\ order \in Seq(Items)

InMd5(k) == md5[k] \in {"heating", "overheated", "hashing"}

\* The workers of SingleHash call DataSignerMd5 one at a time, so that in
\* OverheatLock none of them ever meets another (signer.go:52)
OneMd5AtATime == \A k, l \in Items : InMd5(k) /\ InMd5(l) => k = l

\* No worker is about to send on the channel its job's jobWorker has closed
\* (signer.go:30, 61, 105), which would panic
NeverSendsOnClosed ==
  \A k \in Items :
    /\ single[k] = "send" => ~ Closed(Single)
    /\ multi[k] = "send" => ~ Closed(Multi)

\* What a worker of MultiHash has joined is the complete hash of its value,
\* in whatever order its six goroutines wrote their parts (signer.go:96)
JoinedAreHashes ==
  \A k \in Items : multi[k] \in {"send", "finish", "done"} => res[k] = MultiHashOf(input[k])

\* The sink gets one result, and it is the same for every schedule: the hashes
\* of the inputs, sorted (signer.go:115)
InputHashes == [k \in 1 .. Len(input) |-> MultiHashOf(input[k])]

ResultIgnoresSchedule ==
  received # << >> => Len(received) = 1 /\ Sortings(InputHashes) = {received[1]}

\* When ExecutePipeline returns, all values have gone through and no goroutine
\* started for them is left (signer.go:14)
ReturnsWhenDrained ==
  returned =>
    /\ sent = Len(input) /\ received # << >> /\ mu = Free
    /\ \A k \in Items :
         /\ single[k] \in {"none", "done"} /\ helper[k] \in {"none", "done"}
         /\ multi[k] \in {"none", "done"}
         /\ \A i \in Parts : part[k][i] \in {"none", "done"}

\* A value flows to CombineResults even if the source never sends another one
\* and never ends ("no value free flow - dont collect them", main_test.go:44)
FreeFlow ==
  \A k \in Items : (k <= sent) ~> (\E n \in DOMAIN order : order[n] = k)

\* Once the source has returned, the pipeline drains and ExecutePipeline returns
DrainsAfterTheSource == (job[Source] = "returned") ~> returned

-----------------------------------------------------------------------------
(* The inductive invariant                                                 *)

Left(j) == job[j] \in {"returned", "closed", "done"}
Arrived == {order[n] : n \in DOMAIN order}

\* The mutex is held around the call of DataSignerMd5
Md5UnderMutex ==
  \A k \in Items : (single[k] = "md5" <=> mu = k) /\ (InMd5(k) => single[k] = "md5")

\* How far the goroutines of a value are, relative to each other
Handover ==
  \A k \in Items :
    /\ single[k] # "none" <=> k <= sent
    /\ helper[k] \in {"crc", "send"} => single[k] \in {"crc", "join"}
    /\ multi[k] # "none" <=> single[k] \in {"finish", "done"}
    /\ \A i \in Parts :
         /\ part[k][i] \in {"run", "written"} => multi[k] = "wait"
         /\ part[k][i] \in {"written", "done"} => arr[k][i] = PartOf(input[k], i)
    /\ multi[k] \in {"finish", "done"} <=> k \in Arrived

\* A job ends its loop when the one before it has closed its output, and returns
\* when its workers are done
Closing ==
  /\ \A j \in Jobs : job[j] = "new" <=> j > spawned
  /\ Left(Source) => sent = Len(input)
  /\ \A j \in {Single, Multi, Combine} : job[j] \in {"new", "running"} \/ Closed(j - 1)
  /\ Left(Single) => \A k \in Items : single[k] \in {"none", "done"}
  /\ Left(Multi) => \A k \in Items : multi[k] \in {"none", "done"}
  /\ returned => \A j \in Jobs : job[j] = "done"

\* What CombineResults has collected and sent
Unsorted == [n \in 1 .. Len(order) |-> MultiHashOf(input[order[n]])]

Results ==
  /\ \A m, n \in DOMAIN order : order[m] = order[n] => m = n
  /\ job[Combine] \in {"new", "running"} => array = Unsorted
  /\ job[Combine] = "sending" \/ Left(Combine) => array \in Sortings(Unsorted)
  /\ received = IF Left(Combine) THEN <<array>> ELSE << >>

IInv ==
  /\ TypeOK /\ Md5UnderMutex /\ Handover /\ Closing /\ Results /\ JoinedAreHashes

Farm == INSTANCE HashFarm WITH
  HashOf <- MultiHashOf,
  taken <- sent,
  hashed <- {order[n] : n \in DOMAIN order},
  result <- received,
  ended <- returned

\* The pipeline implements HashFarm, whatever its goroutines do in between
IsHashFarm == Farm!Spec
=============================================================================
