---------------------------- MODULE SignerProofs ----------------------------
(***************************************************************************)
(* Proofs about the signer: IInv is an inductive invariant of Signer, the  *)
(* safety properties follow from it, and the pipeline implements HashFarm. *)
(* One lemma per part of IInv shows that every action preserves it.  Of    *)
(* the strings only their order is used: that of two different hashes one  *)
(* is the smaller.                                                         *)
(***************************************************************************)
EXTENDS Signer, FiniteSetTheorems, TLAPS

\* The length of the input, and the values that have been sent
LEMMA InputLength ==
  ASSUME TypeOK
  PROVE  /\ DOMAIN input = 1 .. Len(input) /\ Len(input) \in Nat
         /\ Len(input) <= MaxInputDataLen /\ MaxInputDataLen \in Nat
         /\ sent \in 0 .. Len(input)
  BY SignerAssumption DEF SignerAssumption, TypeOK

\* A value whose parts are being computed is one of the input
LEMMA PartsOfInput ==
  ASSUME TypeOK, Handover, NEW k \in Items, NEW i \in Parts, part[k][i] = "run"
  PROVE  k \in DOMAIN input
<1>1. k <= sent
  BY DEF Handover
<1> QED
  BY <1>1, InputLength DEF Items

\* A value that arrives is added to those that have
LEMMA ArrivedGrows ==
  ASSUME TypeOK, NEW k \in Items, order' = Append(order, k)
  PROVE  Arrived' = Arrived \cup {k}
<1>1. DOMAIN order' = DOMAIN order \cup {Len(order) + 1}
  BY DEF TypeOK
<1>2. \A n \in DOMAIN order : order'[n] = order[n]
  BY DEF TypeOK
<1>3. order'[Len(order) + 1] = k
  BY DEF TypeOK
<1> QED
  BY <1>1, <1>2, <1>3 DEF Arrived

\* Every step keeps the types; a part that is being written belongs to a value
\* of the input
LEMMA TypeStep ==
  ASSUME TypeOK, Handover, [Next]_vars
  PROVE  TypeOK'
<1> USE DEF TypeOK, PartValues, vars, mainVars, md5Vars, singleVars, multiVars, endVars
<1>1. CASE Spawn
  BY <1>1 DEF Spawn, Jobs, Source, Sink
<1>2. CASE Return
  BY <1>2 DEF Return
<1>3. CASE SourceSends
  BY <1>3, InputLength DEF SourceSends, Items
<1>4. CASE SourceReturns
  BY <1>4 DEF SourceReturns, JobMoves, Jobs, Source, Sink
<1>5. CASE CombineSorts
  BY <1>5 DEF CombineSorts, Jobs, Source, Sink, Combine
<1>6. CASE CombineSends
  BY <1>6 DEF CombineSends, Jobs, Source, Sink, Combine
<1>7. ASSUME NEW j \in Jobs, RangeEnds(j) PROVE TypeOK'
  BY <1>7 DEF RangeEnds, JobMoves
<1>8. ASSUME NEW j \in Jobs, JobReturns(j) PROVE TypeOK'
  BY <1>8 DEF JobReturns, JobMoves
<1>9. ASSUME NEW j \in Jobs, CloseOut(j) PROVE TypeOK'
  BY <1>9 DEF CloseOut, JobMoves
<1>10. ASSUME NEW j \in Jobs, JobDone(j) PROVE TypeOK'
  BY <1>10 DEF JobDone, JobMoves
<1>11. ASSUME NEW c \in Callers, OverheatLock(c) PROVE TypeOK'
  BY <1>11 DEF OverheatLock
<1>12. ASSUME NEW c \in Callers, SleepEnds(c) PROVE TypeOK'
  BY <1>12 DEF SleepEnds
<1>13. ASSUME NEW c \in Callers, Md5Returns(c) PROVE TypeOK'
  BY <1>13 DEF Md5Returns
<1>14. ASSUME NEW r \in Rivals, RivalCalls(r) PROVE TypeOK'
  BY <1>14 DEF RivalCalls, Callers
<1>15. ASSUME NEW k \in Items, MuLock(k) PROVE TypeOK'
  BY <1>15 DEF MuLock, Callers
<1>16. ASSUME NEW k \in Items, MuUnlock(k) PROVE TypeOK'
  BY <1>16 DEF MuUnlock, Free
<1>17. ASSUME NEW k \in Items, CrcOfMd5(k) PROVE TypeOK'
  BY <1>17 DEF CrcOfMd5
<1>18. ASSUME NEW k \in Items, CrcOfData(k) PROVE TypeOK'
  BY <1>18 DEF CrcOfData
<1>19. ASSUME NEW k \in Items, Join(k) PROVE TypeOK'
  BY <1>19 DEF Join
<1>20. ASSUME NEW k \in Items, SingleSends(k) PROVE TypeOK'
  BY <1>20 DEF SingleSends
<1>21. ASSUME NEW k \in Items, SingleDone(k) PROVE TypeOK'
  BY <1>21 DEF SingleDone
<1>22. ASSUME NEW k \in Items, CrcWait(k) PROVE TypeOK'
  BY <1>22 DEF CrcWait
<1>23. ASSUME NEW k \in Items, MultiSends(k) PROVE TypeOK'
  BY <1>23 DEF MultiSends
<1>24. ASSUME NEW k \in Items, MultiDone(k) PROVE TypeOK'
  BY <1>24 DEF MultiDone
<1>25. ASSUME NEW k \in Items, NEW i \in Parts, WritePart(k, i) PROVE TypeOK'
  BY <1>25, PartsOfInput DEF WritePart
<1>26. ASSUME NEW k \in Items, NEW i \in Parts, PartDone(k, i) PROVE TypeOK'
  BY <1>26 DEF PartDone
<1>27. CASE UNCHANGED vars
  BY <1>27
<1> HIDE DEF TypeOK
<1> QED
  BY <1>1, <1>2, <1>3, <1>4, <1>5, <1>6, <1>7, <1>8, <1>9, <1>10, <1>11,
     <1>12, <1>13, <1>14, <1>15, <1>16, <1>17, <1>18, <1>19, <1>20, <1>21,
     <1>22, <1>23, <1>24, <1>25, <1>26, <1>27
  DEF Next, MainStep, SourceStep, CombineStep, JobStep, Md5Step, SingleStep,
      MultiStep, PartStep, Terminated

\* Only the worker that holds the mutex of SingleHash is in DataSignerMd5
LEMMA MutexStep ==
  ASSUME TypeOK, Md5UnderMutex, Handover, [Next]_vars
  PROVE  Md5UnderMutex'
<1> USE DEF Md5UnderMutex, InMd5, vars, mainVars, md5Vars, singleVars, multiVars, endVars
<1>1. CASE Spawn
  BY <1>1 DEF Spawn
<1>2. CASE Return
  BY <1>2 DEF Return
<1>3. CASE SourceSends
  <2>1. sent' \in Items /\ single[sent'] = "none"
    BY <1>3, InputLength DEF SourceSends, Handover, Items
  <2> QED
    BY <1>3, <2>1 DEF SourceSends, TypeOK, Free, Items
<1>4. CASE SourceReturns
  BY <1>4 DEF SourceReturns, JobMoves
<1>5. CASE CombineSorts
  BY <1>5 DEF CombineSorts
<1>6. CASE CombineSends
  BY <1>6 DEF CombineSends
<1>7. ASSUME NEW j \in Jobs, RangeEnds(j) PROVE Md5UnderMutex'
  BY <1>7 DEF RangeEnds, JobMoves
<1>8. ASSUME NEW j \in Jobs, JobReturns(j) PROVE Md5UnderMutex'
  BY <1>8 DEF JobReturns, JobMoves
<1>9. ASSUME NEW j \in Jobs, CloseOut(j) PROVE Md5UnderMutex'
  BY <1>9 DEF CloseOut, JobMoves
<1>10. ASSUME NEW j \in Jobs, JobDone(j) PROVE Md5UnderMutex'
  BY <1>10 DEF JobDone, JobMoves
<1>11. ASSUME NEW c \in Callers, OverheatLock(c) PROVE Md5UnderMutex'
  BY <1>11 DEF OverheatLock, TypeOK
<1>12. ASSUME NEW c \in Callers, SleepEnds(c) PROVE Md5UnderMutex'
  BY <1>12 DEF SleepEnds, TypeOK
<1>13. ASSUME NEW c \in Callers, Md5Returns(c) PROVE Md5UnderMutex'
  BY <1>13 DEF Md5Returns, TypeOK
<1>14. ASSUME NEW r \in Rivals, RivalCalls(r) PROVE Md5UnderMutex'
  BY <1>14, SignerAssumption DEF RivalCalls, TypeOK, Callers, SignerAssumption
<1>15. ASSUME NEW k \in Items, MuLock(k) PROVE Md5UnderMutex'
  BY <1>15 DEF MuLock, TypeOK, Callers, Free, Items
<1>16. ASSUME NEW k \in Items, MuUnlock(k) PROVE Md5UnderMutex'
  BY <1>16 DEF MuUnlock, TypeOK, Free, Items
<1>17. ASSUME NEW k \in Items, CrcOfMd5(k) PROVE Md5UnderMutex'
  BY <1>17 DEF CrcOfMd5, TypeOK
<1>18. ASSUME NEW k \in Items, CrcOfData(k) PROVE Md5UnderMutex'
  BY <1>18 DEF CrcOfData
<1>19. ASSUME NEW k \in Items, Join(k) PROVE Md5UnderMutex'
  BY <1>19 DEF Join, TypeOK
<1>20. ASSUME NEW k \in Items, SingleSends(k) PROVE Md5UnderMutex'
  BY <1>20 DEF SingleSends, TypeOK
<1>21. ASSUME NEW k \in Items, SingleDone(k) PROVE Md5UnderMutex'
  BY <1>21 DEF SingleDone, TypeOK
<1>22. ASSUME NEW k \in Items, CrcWait(k) PROVE Md5UnderMutex'
  BY <1>22 DEF CrcWait
<1>23. ASSUME NEW k \in Items, MultiSends(k) PROVE Md5UnderMutex'
  BY <1>23 DEF MultiSends
<1>24. ASSUME NEW k \in Items, MultiDone(k) PROVE Md5UnderMutex'
  BY <1>24 DEF MultiDone
<1>25. ASSUME NEW k \in Items, NEW i \in Parts, WritePart(k, i) PROVE Md5UnderMutex'
  BY <1>25 DEF WritePart
<1>26. ASSUME NEW k \in Items, NEW i \in Parts, PartDone(k, i) PROVE Md5UnderMutex'
  BY <1>26 DEF PartDone
<1>27. CASE UNCHANGED vars
  BY <1>27
<1> HIDE DEF Md5UnderMutex
<1> QED
  BY <1>1, <1>2, <1>3, <1>4, <1>5, <1>6, <1>7, <1>8, <1>9, <1>10, <1>11,
     <1>12, <1>13, <1>14, <1>15, <1>16, <1>17, <1>18, <1>19, <1>20, <1>21,
     <1>22, <1>23, <1>24, <1>25, <1>26, <1>27
  DEF Next, MainStep, SourceStep, CombineStep, JobStep, Md5Step, SingleStep,
      MultiStep, PartStep, Terminated

\* The goroutines that work for one value stay in step with each other
LEMMA HandoverStep ==
  ASSUME TypeOK, Handover, [Next]_vars
  PROVE  Handover'
<1> USE DEF Handover, TypeOK, Arrived, Items, vars, mainVars, md5Vars, singleVars, multiVars, endVars
<1>1. CASE Spawn
  BY <1>1 DEF Spawn
<1>2. CASE Return
  BY <1>2 DEF Return
<1>3. CASE SourceSends
  BY <1>3 DEF SourceSends
<1>4. CASE SourceReturns
  BY <1>4 DEF SourceReturns, JobMoves
<1>5. CASE CombineSorts
  BY <1>5 DEF CombineSorts
<1>6. CASE CombineSends
  BY <1>6 DEF CombineSends
<1>7. ASSUME NEW j \in Jobs, RangeEnds(j) PROVE Handover'
  BY <1>7 DEF RangeEnds, JobMoves
<1>8. ASSUME NEW j \in Jobs, JobReturns(j) PROVE Handover'
  BY <1>8 DEF JobReturns, JobMoves
<1>9. ASSUME NEW j \in Jobs, CloseOut(j) PROVE Handover'
  BY <1>9 DEF CloseOut, JobMoves
<1>10. ASSUME NEW j \in Jobs, JobDone(j) PROVE Handover'
  BY <1>10 DEF JobDone, JobMoves
<1>11. ASSUME NEW c \in Callers, OverheatLock(c) PROVE Handover'
  BY <1>11 DEF OverheatLock
<1>12. ASSUME NEW c \in Callers, SleepEnds(c) PROVE Handover'
  BY <1>12 DEF SleepEnds
<1>13. ASSUME NEW c \in Callers, Md5Returns(c) PROVE Handover'
  BY <1>13 DEF Md5Returns
<1>14. ASSUME NEW r \in Rivals, RivalCalls(r) PROVE Handover'
  BY <1>14 DEF RivalCalls
<1>15. ASSUME NEW k \in Items, MuLock(k) PROVE Handover'
  BY <1>15 DEF MuLock
<1>16. ASSUME NEW k \in Items, MuUnlock(k) PROVE Handover'
  BY <1>16 DEF MuUnlock
<1>17. ASSUME NEW k \in Items, CrcOfMd5(k) PROVE Handover'
  BY <1>17 DEF CrcOfMd5
<1>18. ASSUME NEW k \in Items, CrcOfData(k) PROVE Handover'
  BY <1>18 DEF CrcOfData
<1>19. ASSUME NEW k \in Items, Join(k) PROVE Handover'
  BY <1>19 DEF Join
<1>20. ASSUME NEW k \in Items, SingleSends(k) PROVE Handover'
  BY <1>20 DEF SingleSends
<1>21. ASSUME NEW k \in Items, SingleDone(k) PROVE Handover'
  BY <1>21 DEF SingleDone
<1>22. ASSUME NEW k \in Items, CrcWait(k) PROVE Handover'
  BY <1>22 DEF CrcWait
<1>23. ASSUME NEW k \in Items, MultiSends(k) PROVE Handover'
  <2>1. Arrived' = Arrived \cup {k}
    BY <1>23, ArrivedGrows DEF MultiSends
  <2>2. \A l \in Items : multi'[l] = IF l = k THEN "finish" ELSE multi[l]
    BY <1>23 DEF MultiSends
  <2> HIDE DEF Arrived, Items, TypeOK
  <2> QED
    BY <1>23, <2>1, <2>2 DEF MultiSends
<1>24. ASSUME NEW k \in Items, MultiDone(k) PROVE Handover'
  BY <1>24 DEF MultiDone
<1>25. ASSUME NEW k \in Items, NEW i \in Parts, WritePart(k, i) PROVE Handover'
  BY <1>25 DEF WritePart
<1>26. ASSUME NEW k \in Items, NEW i \in Parts, PartDone(k, i) PROVE Handover'
  BY <1>26 DEF PartDone
<1>27. CASE UNCHANGED vars
  BY <1>27
<1> HIDE DEF Handover
<1> QED
  BY <1>1, <1>2, <1>3, <1>4, <1>5, <1>6, <1>7, <1>8, <1>9, <1>10, <1>11,
     <1>12, <1>13, <1>14, <1>15, <1>16, <1>17, <1>18, <1>19, <1>20, <1>21,
     <1>22, <1>23, <1>24, <1>25, <1>26, <1>27
  DEF Next, MainStep, SourceStep, CombineStep, JobStep, Md5Step, SingleStep,
      MultiStep, PartStep, Terminated

\* A job ends its loop after the one before it and returns after its workers
LEMMA ClosingStep ==
  ASSUME TypeOK, Closing, Handover, Results, [Next]_vars
  PROVE  Closing'
<1> USE DEF TypeOK, Closing, Handover, Left, Closed, Source, Single, Multi, Combine, Sink, Jobs, vars, mainVars, md5Vars, singleVars, multiVars, endVars
<1>1. CASE Spawn
  BY <1>1 DEF Spawn
<1>2. CASE Return
  BY <1>2 DEF Return
<1>3. CASE SourceSends
  BY <1>3 DEF SourceSends
<1>4. CASE SourceReturns
  BY <1>4 DEF SourceReturns, JobMoves
<1>5. CASE CombineSorts
  BY <1>5 DEF CombineSorts
<1>6. CASE CombineSends
  BY <1>6 DEF CombineSends
<1>7. ASSUME NEW j \in Jobs, RangeEnds(j) PROVE Closing'
  BY <1>7 DEF RangeEnds, JobMoves
<1>8. ASSUME NEW j \in Jobs, JobReturns(j) PROVE Closing'
  BY <1>8 DEF JobReturns, JobMoves
<1>9. ASSUME NEW j \in Jobs, CloseOut(j) PROVE Closing'
  BY <1>9 DEF CloseOut, JobMoves
<1>10. ASSUME NEW j \in Jobs, JobDone(j) PROVE Closing'
  BY <1>10 DEF JobDone, JobMoves
<1>11. ASSUME NEW c \in Callers, OverheatLock(c) PROVE Closing'
  BY <1>11 DEF OverheatLock
<1>12. ASSUME NEW c \in Callers, SleepEnds(c) PROVE Closing'
  BY <1>12 DEF SleepEnds
<1>13. ASSUME NEW c \in Callers, Md5Returns(c) PROVE Closing'
  BY <1>13 DEF Md5Returns
<1>14. ASSUME NEW r \in Rivals, RivalCalls(r) PROVE Closing'
  BY <1>14 DEF RivalCalls
<1>15. ASSUME NEW k \in Items, MuLock(k) PROVE Closing'
  BY <1>15 DEF MuLock
<1>16. ASSUME NEW k \in Items, MuUnlock(k) PROVE Closing'
  BY <1>16 DEF MuUnlock
<1>17. ASSUME NEW k \in Items, CrcOfMd5(k) PROVE Closing'
  BY <1>17 DEF CrcOfMd5
<1>18. ASSUME NEW k \in Items, CrcOfData(k) PROVE Closing'
  BY <1>18 DEF CrcOfData
<1>19. ASSUME NEW k \in Items, Join(k) PROVE Closing'
  BY <1>19 DEF Join
<1>20. ASSUME NEW k \in Items, SingleSends(k) PROVE Closing'
  BY <1>20 DEF SingleSends
<1>21. ASSUME NEW k \in Items, SingleDone(k) PROVE Closing'
  BY <1>21 DEF SingleDone
<1>22. ASSUME NEW k \in Items, CrcWait(k) PROVE Closing'
  BY <1>22 DEF CrcWait
<1>23. ASSUME NEW k \in Items, MultiSends(k) PROVE Closing'
  BY <1>23 DEF MultiSends
<1>24. ASSUME NEW k \in Items, MultiDone(k) PROVE Closing'
  BY <1>24 DEF MultiDone
<1>25. ASSUME NEW k \in Items, NEW i \in Parts, WritePart(k, i) PROVE Closing'
  BY <1>25 DEF WritePart
<1>26. ASSUME NEW k \in Items, NEW i \in Parts, PartDone(k, i) PROVE Closing'
  BY <1>26 DEF PartDone
<1>27. CASE UNCHANGED vars
  BY <1>27
<1> HIDE DEF Closing
<1> QED
  BY <1>1, <1>2, <1>3, <1>4, <1>5, <1>6, <1>7, <1>8, <1>9, <1>10, <1>11,
     <1>12, <1>13, <1>14, <1>15, <1>16, <1>17, <1>18, <1>19, <1>20, <1>21,
     <1>22, <1>23, <1>24, <1>25, <1>26, <1>27
  DEF Next, MainStep, SourceStep, CombineStep, JobStep, Md5Step, SingleStep,
      MultiStep, PartStep, Terminated

\* CombineResults has the hash of every value that arrived, in the order of arrival
LEMMA ResultsStep ==
  ASSUME TypeOK, Closing, Handover, Results, JoinedAreHashes, [Next]_vars
  PROVE  Results'
<1> USE DEF TypeOK, Results, Left, Closed, Unsorted, Source, Single, Multi, Combine, Sink, Jobs, vars, mainVars, md5Vars, singleVars, multiVars, endVars
<1>1. CASE Spawn
  <2>1. job[spawned'] = "new" /\ spawned' \in Jobs
    BY <1>1 DEF Closing, Spawn
  <2>2. Unsorted' = Unsorted
    BY <1>1 DEF Spawn
  <2>3. \A j \in Jobs : job'[j] = IF j = spawned' THEN "running" ELSE job[j]
    BY <1>1 DEF Spawn
  <2>4. Combine \in Jobs
    OBVIOUS
  <2> HIDE DEF TypeOK, Unsorted, Combine, Jobs
  <2> QED
    BY <1>1, <2>1, <2>2, <2>3, <2>4 DEF Spawn
<1>2. CASE Return
  BY <1>2 DEF Return
<1>3. CASE SourceSends
  BY <1>3 DEF SourceSends
<1>4. CASE SourceReturns
  BY <1>4 DEF SourceReturns, JobMoves
<1>5. CASE CombineSorts
  <2>1. Unsorted' = Unsorted
    BY <1>5 DEF CombineSorts
  <2>2. Combine \in Jobs /\ job'[Combine] = "sending"
    BY <1>5 DEF CombineSorts
  <2> HIDE DEF TypeOK, Unsorted, Combine, Jobs
  <2> QED
    BY <1>5, <2>1, <2>2 DEF CombineSorts
<1>6. CASE CombineSends
  BY <1>6 DEF CombineSends
<1>7. ASSUME NEW j \in Jobs, RangeEnds(j) PROVE Results'
  BY <1>7 DEF RangeEnds, JobMoves
<1>8. ASSUME NEW j \in Jobs, JobReturns(j) PROVE Results'
  BY <1>8 DEF JobReturns, JobMoves
<1>9. ASSUME NEW j \in Jobs, CloseOut(j) PROVE Results'
  BY <1>9 DEF CloseOut, JobMoves
<1>10. ASSUME NEW j \in Jobs, JobDone(j) PROVE Results'
  BY <1>10 DEF JobDone, JobMoves
<1>11. ASSUME NEW c \in Callers, OverheatLock(c) PROVE Results'
  BY <1>11 DEF OverheatLock
<1>12. ASSUME NEW c \in Callers, SleepEnds(c) PROVE Results'
  BY <1>12 DEF SleepEnds
<1>13. ASSUME NEW c \in Callers, Md5Returns(c) PROVE Results'
  BY <1>13 DEF Md5Returns
<1>14. ASSUME NEW r \in Rivals, RivalCalls(r) PROVE Results'
  BY <1>14 DEF RivalCalls
<1>15. ASSUME NEW k \in Items, MuLock(k) PROVE Results'
  BY <1>15 DEF MuLock
<1>16. ASSUME NEW k \in Items, MuUnlock(k) PROVE Results'
  BY <1>16 DEF MuUnlock
<1>17. ASSUME NEW k \in Items, CrcOfMd5(k) PROVE Results'
  BY <1>17 DEF CrcOfMd5
<1>18. ASSUME NEW k \in Items, CrcOfData(k) PROVE Results'
  BY <1>18 DEF CrcOfData
<1>19. ASSUME NEW k \in Items, Join(k) PROVE Results'
  BY <1>19 DEF Join
<1>20. ASSUME NEW k \in Items, SingleSends(k) PROVE Results'
  BY <1>20 DEF SingleSends
<1>21. ASSUME NEW k \in Items, SingleDone(k) PROVE Results'
  BY <1>21 DEF SingleDone
<1>22. ASSUME NEW k \in Items, CrcWait(k) PROVE Results'
  BY <1>22 DEF CrcWait
<1>23. ASSUME NEW k \in Items, MultiSends(k) PROVE Results'
  <2>1. k \notin Arrived /\ res[k] = MultiHashOf(input[k])
    BY <1>23 DEF MultiSends, Handover, JoinedAreHashes
  <2>2. DOMAIN order' = DOMAIN order \cup {Len(order) + 1}
    BY <1>23 DEF MultiSends
  <2>3. \A n \in DOMAIN order' : order'[n] = IF n = Len(order) + 1 THEN k ELSE order[n]
    BY <1>23 DEF MultiSends
  <2>4. \A m, n \in DOMAIN order' : order'[m] = order'[n] => m = n
    BY <2>1, <2>2, <2>3 DEF Arrived
  <2>5. array' = Unsorted'
    <3>1. Len(order') = Len(order) + 1 /\ Len(order) \in Nat
      BY <1>23 DEF MultiSends
    <3>2. Unsorted \in Seq({MultiHashOf(input[l]) : l \in Items}) /\ Len(Unsorted) = Len(order)
      BY <3>1, SMTT(20)
    <3> QED
      BY <1>23, <2>1, <2>2, <2>3, <3>1, <3>2 DEF MultiSends
  <2> HIDE DEF TypeOK, Unsorted
  <2> QED
    BY <1>23, <2>4, <2>5 DEF MultiSends
<1>24. ASSUME NEW k \in Items, MultiDone(k) PROVE Results'
  BY <1>24 DEF MultiDone
<1>25. ASSUME NEW k \in Items, NEW i \in Parts, WritePart(k, i) PROVE Results'
  BY <1>25 DEF WritePart
<1>26. ASSUME NEW k \in Items, NEW i \in Parts, PartDone(k, i) PROVE Results'
  BY <1>26 DEF PartDone
<1>27. CASE UNCHANGED vars
  BY <1>27
<1> HIDE DEF Results
<1> QED
  BY <1>1, <1>2, <1>3, <1>4, <1>5, <1>6, <1>7, <1>8, <1>9, <1>10, <1>11,
     <1>12, <1>13, <1>14, <1>15, <1>16, <1>17, <1>18, <1>19, <1>20, <1>21,
     <1>22, <1>23, <1>24, <1>25, <1>26, <1>27
  DEF Next, MainStep, SourceStep, CombineStep, JobStep, Md5Step, SingleStep,
      MultiStep, PartStep, Terminated

\* A worker of MultiHash joins after all its parts are written
LEMMA JoinedStep ==
  ASSUME TypeOK, Handover, JoinedAreHashes, [Next]_vars
  PROVE  JoinedAreHashes'
<1> USE DEF TypeOK, JoinedAreHashes, MultiHashOf, vars, mainVars, md5Vars, singleVars, multiVars, endVars
<1>1. CASE Spawn
  BY <1>1 DEF Spawn
<1>2. CASE Return
  BY <1>2 DEF Return
<1>3. CASE SourceSends
  BY <1>3 DEF SourceSends
<1>4. CASE SourceReturns
  BY <1>4 DEF SourceReturns, JobMoves
<1>5. CASE CombineSorts
  BY <1>5 DEF CombineSorts
<1>6. CASE CombineSends
  BY <1>6 DEF CombineSends
<1>7. ASSUME NEW j \in Jobs, RangeEnds(j) PROVE JoinedAreHashes'
  BY <1>7 DEF RangeEnds, JobMoves
<1>8. ASSUME NEW j \in Jobs, JobReturns(j) PROVE JoinedAreHashes'
  BY <1>8 DEF JobReturns, JobMoves
<1>9. ASSUME NEW j \in Jobs, CloseOut(j) PROVE JoinedAreHashes'
  BY <1>9 DEF CloseOut, JobMoves
<1>10. ASSUME NEW j \in Jobs, JobDone(j) PROVE JoinedAreHashes'
  BY <1>10 DEF JobDone, JobMoves
<1>11. ASSUME NEW c \in Callers, OverheatLock(c) PROVE JoinedAreHashes'
  BY <1>11 DEF OverheatLock
<1>12. ASSUME NEW c \in Callers, SleepEnds(c) PROVE JoinedAreHashes'
  BY <1>12 DEF SleepEnds
<1>13. ASSUME NEW c \in Callers, Md5Returns(c) PROVE JoinedAreHashes'
  BY <1>13 DEF Md5Returns
<1>14. ASSUME NEW r \in Rivals, RivalCalls(r) PROVE JoinedAreHashes'
  BY <1>14 DEF RivalCalls
<1>15. ASSUME NEW k \in Items, MuLock(k) PROVE JoinedAreHashes'
  BY <1>15 DEF MuLock
<1>16. ASSUME NEW k \in Items, MuUnlock(k) PROVE JoinedAreHashes'
  BY <1>16 DEF MuUnlock
<1>17. ASSUME NEW k \in Items, CrcOfMd5(k) PROVE JoinedAreHashes'
  BY <1>17 DEF CrcOfMd5
<1>18. ASSUME NEW k \in Items, CrcOfData(k) PROVE JoinedAreHashes'
  BY <1>18 DEF CrcOfData
<1>19. ASSUME NEW k \in Items, Join(k) PROVE JoinedAreHashes'
  BY <1>19 DEF Join
<1>20. ASSUME NEW k \in Items, SingleSends(k) PROVE JoinedAreHashes'
  BY <1>20 DEF SingleSends
<1>21. ASSUME NEW k \in Items, SingleDone(k) PROVE JoinedAreHashes'
  BY <1>21 DEF SingleDone
<1>22. ASSUME NEW k \in Items, CrcWait(k) PROVE JoinedAreHashes'
  <2>1. arr[k] = [i \in Parts |-> PartOf(input[k], i)]
    BY <1>22 DEF CrcWait, Handover
  <2>2. Joined(arr[k]) = MultiHashOf(input[k])
    BY <2>1
  <2>3. \A l \in Items : res'[l] = IF l = k THEN Joined(arr[k]) ELSE res[l]
    BY <1>22 DEF CrcWait
  <2> HIDE DEF MultiHashOf
  <2> QED
    BY <1>22, <2>2, <2>3 DEF CrcWait
<1>23. ASSUME NEW k \in Items, MultiSends(k) PROVE JoinedAreHashes'
  BY <1>23 DEF MultiSends
<1>24. ASSUME NEW k \in Items, MultiDone(k) PROVE JoinedAreHashes'
  BY <1>24 DEF MultiDone
<1>25. ASSUME NEW k \in Items, NEW i \in Parts, WritePart(k, i) PROVE JoinedAreHashes'
  BY <1>25 DEF WritePart
<1>26. ASSUME NEW k \in Items, NEW i \in Parts, PartDone(k, i) PROVE JoinedAreHashes'
  BY <1>26 DEF PartDone
<1>27. CASE UNCHANGED vars
  BY <1>27
<1> HIDE DEF JoinedAreHashes
<1> QED
  BY <1>1, <1>2, <1>3, <1>4, <1>5, <1>6, <1>7, <1>8, <1>9, <1>10, <1>11,
     <1>12, <1>13, <1>14, <1>15, <1>16, <1>17, <1>18, <1>19, <1>20, <1>21,
     <1>22, <1>23, <1>24, <1>25, <1>26, <1>27
  DEF Next, MainStep, SourceStep, CombineStep, JobStep, Md5Step, SingleStep,
      MultiStep, PartStep, Terminated

\* Types in the initial state
LEMMA InitTypes == Init => TypeOK
<1> SUFFICES ASSUME Init PROVE TypeOK
  OBVIOUS
<1> USE SignerAssumption DEF SignerAssumption, Init
<1>1. sent \in 0 .. Len(input) /\ spawned \in 0 .. Sink
  BY DEF Sink
<1>2. order \in Seq(Items)
  OBVIOUS
<1>3. /\ arr \in [Items -> [Parts -> PartValues]]
      /\ res \in [Items -> {Empty} \cup {Joined(a) : a \in [Parts -> PartValues]}]
  BY DEF PartValues
<1>4. job \in [Jobs -> {"new", "running", "waiting", "sending", "returned", "closed", "done"}]
  OBVIOUS
<1>5. part \in [Items -> [Parts -> {"none", "run", "written", "done"}]]
  OBVIOUS
<1> QED
  BY <1>1, <1>2, <1>3, <1>4, <1>5 DEF TypeOK, Free

\* IInv is inductive: the step lemmas above, and the initial state
THEOREM Invariance == Spec => []IInv
<1>1. Init => IInv
  <2> SUFFICES ASSUME Init PROVE IInv
    OBVIOUS
  <2> USE SignerAssumption DEF SignerAssumption, Init, Jobs, Source, Single, Multi, Combine, Sink
  <2>1. TypeOK
    BY InitTypes
  <2>2. Arrived = {} /\ Unsorted = << >>
    BY DEF Arrived, Unsorted
  <2>3. Md5UnderMutex
    BY DEF Md5UnderMutex, InMd5, Items, Callers, Free
  <2>4. Handover
    BY <2>2 DEF Handover, Items
  <2>5. Closing
    BY DEF Closing, Left, Closed
  <2>6. Results
    BY <2>2 DEF Results, Left
  <2>7. JoinedAreHashes
    BY DEF JoinedAreHashes
  <2> QED
    BY <2>1, <2>3, <2>4, <2>5, <2>6, <2>7 DEF IInv
<1>2. IInv /\ [Next]_vars => IInv'
  BY TypeStep, MutexStep, HandoverStep, ClosingStep, ResultsStep, JoinedStep DEF IInv
<1> QED
  BY <1>1, <1>2, PTL DEF Spec

\* Every variable keeps its type, for any inputs and any functions on strings
THEOREM TypeCorrectness == Spec => []TypeOK
<1>1. IInv => TypeOK
  BY DEF IInv
<1> QED
  BY <1>1, Invariance, PTL

\* The workers of SingleHash are in DataSignerMd5 one at a time, whoever else calls it
THEOREM MutualExclusion == Spec => []OneMd5AtATime
<1>1. IInv => OneMd5AtATime
  BY DEF IInv, Md5UnderMutex, OneMd5AtATime
<1> QED
  BY <1>1, Invariance, PTL

\* No worker is about to send on a channel that its jobWorker has closed
THEOREM NoSendOnClosed == Spec => []NeverSendsOnClosed
<1>1. IInv => NeverSendsOnClosed
  BY DEF IInv, Closing, Left, Closed, NeverSendsOnClosed
<1> QED
  BY <1>1, Invariance, PTL

\* What a worker of MultiHash sends is the complete hash of its value
THEOREM HashesComplete == Spec => []JoinedAreHashes
<1>1. IInv => JoinedAreHashes
  BY DEF IInv
<1> QED
  BY <1>1, Invariance, PTL

\* When the channel into CombineResults is closed, every value of the input has
\* come through it
LEMMA AllArrived ==
  ASSUME IInv, Closed(Multi)
  PROVE  sent = Len(input) /\ Arrived = 1 .. Len(input)
<1> USE DEF IInv, Left, Closed
<1>1. job[Multi] \notin {"new", "running"} /\ Closed(Single)
  BY DEF Closing, Single, Multi, Combine
<1>2. sent = Len(input)
  BY <1>1 DEF Closing, Source, Single, Multi, Combine
<1>3. ASSUME NEW k \in Items, k <= sent PROVE k \in Arrived
  <2>1. single[k] = "done"
    BY <1>1, <1>3 DEF Closing, Handover
  <2>2. multi[k] = "done"
    BY <2>1 DEF Closing, Handover
  <2> QED
    BY <2>2 DEF Handover
<1>4. ASSUME NEW k \in Arrived PROVE k \in Items /\ k <= sent
  <2>1. k \in Items
    BY DEF Arrived, TypeOK
  <2> QED
    BY <2>1 DEF Handover
<1>5. \A k : k \in 1 .. Len(input) <=> k \in Items /\ k <= sent
  BY <1>2, InputLength DEF Items
<1> QED
  BY <1>2, <1>3, <1>4, <1>5

\* When ExecutePipeline returns, every value has gone through and no goroutine that
\* was started for one is left
THEOREM Drained == Spec => []ReturnsWhenDrained
<1>1. IInv => ReturnsWhenDrained
  <2> SUFFICES ASSUME IInv, returned PROVE ReturnsWhenDrained
    BY DEF ReturnsWhenDrained
  <2>1. /\ job[Source] = "done" /\ job[Single] = "done" /\ job[Multi] = "done"
        /\ job[Combine] = "done"
    BY DEF IInv, Closing, Jobs, Source, Single, Multi, Combine, Sink
  <2>2. \A k \in Items : single[k] \in {"none", "done"} /\ multi[k] \in {"none", "done"}
    BY <2>1 DEF IInv, Closing, Left
  <2>3. sent = Len(input) /\ received # << >>
    BY <2>1 DEF IInv, Closing, Results, Left
  <2>4. mu = Free
    BY <2>2 DEF IInv, TypeOK, Md5UnderMutex, Items, Free
  <2>5. ASSUME NEW k \in Items
        PROVE  helper[k] \in {"none", "done"} /\ \A i \in Parts : part[k][i] \in {"none", "done"}
    <3>1. helper[k] \notin {"crc", "send"} /\ \A i \in Parts : part[k][i] \notin {"run", "written"}
      BY <2>2 DEF IInv, Handover
    <3>2. /\ helper[k] \in {"none", "crc", "send", "done"}
          /\ \A i \in Parts : part[k][i] \in {"none", "run", "written", "done"}
      BY DEF IInv, TypeOK
    <3> QED
      BY <3>1, <3>2
  <2> QED
    BY <2>2, <2>3, <2>4, <2>5 DEF ReturnsWhenDrained
<1> QED
  BY <1>1, Invariance, PTL

\* The size of 1 .. m
LEMMA IntervalSize ==
  ASSUME NEW m \in Nat PROVE IsFiniteSet(1 .. m) /\ Cardinality(1 .. m) = m
<1>1. IsFiniteSet(1 .. m) /\ Cardinality(1 .. m) = IF 1 > m THEN 0 ELSE m - 1 + 1
  BY FS_Interval
<1> QED
  BY <1>1

\* A sequence without repetitions is as long as the set of its elements is large
LEMMA OrderLength ==
  ASSUME NEW n \in Nat, NEW s \in Seq(1 .. n),
         {s[a] : a \in DOMAIN s} = 1 .. n,
         \A a, b \in DOMAIN s : s[a] = s[b] => a = b
  PROVE  Len(s) = n
<1>1. Len(s) \in Nat /\ s \in [1 .. Len(s) -> 1 .. n] /\ DOMAIN s = 1 .. Len(s)
  OBVIOUS
<1>2. s \in Surjection(1 .. Len(s), 1 .. n)
  BY <1>1 DEF Surjection
<1>3. s \in Injection(1 .. Len(s), 1 .. n)
  BY <1>1 DEF Injection, IsInjective
<1>4. ExistsBijection(1 .. Len(s), 1 .. n)
  BY <1>2, <1>3 DEF ExistsBijection, Bijection
<1>5. Cardinality(1 .. Len(s)) = Cardinality(1 .. n)
  BY <1>1, <1>4, IntervalSize, FS_Bijection
<1> QED
  BY <1>1, <1>5, IntervalSize

\* Rearranging twice is rearranging once
LEMMA RearrangedTwice ==
  ASSUME NEW D, NEW s, DOMAIN s = D, NEW p \in Bijection(D, D), NEW o \in Bijection(D, D)
  PROVE  /\ [n \in D |-> o[p[n]]] \in Bijection(D, D)
         /\ Rearranged(Rearranged(s, o), p) = Rearranged(s, [n \in D |-> o[p[n]]])
<1> DEFINE c == [n \in D |-> o[p[n]]]
<1>1. /\ p \in [D -> D] /\ \A a, b \in D : p[a] = p[b] => a = b
      /\ o \in [D -> D] /\ \A a, b \in D : o[a] = o[b] => a = b
  BY DEF Bijection, Injection, IsInjective
<1>2. \A d \in D : \E a \in D : c[a] = d
  <2> SUFFICES ASSUME NEW d \in D PROVE \E a \in D : c[a] = d
    OBVIOUS
  <2>1. PICK b \in D : o[b] = d
    BY DEF Bijection, Surjection
  <2>2. PICK a \in D : p[a] = b
    BY <2>1 DEF Bijection, Surjection
  <2> QED
    BY <2>1, <2>2
<1>3. c \in Bijection(D, D)
  BY <1>1, <1>2 DEF Bijection, Injection, IsInjective, Surjection
<1> QED
  BY <1>1, <1>3 DEF Rearranged

\* What sorting can make of a rearranged sequence, it can make of the sequence
LEMMA SortingRearranged ==
  ASSUME NEW s, NEW o \in Bijection(DOMAIN s, DOMAIN s), NEW q \in Sortings(Rearranged(s, o))
  PROVE  q \in Sortings(s)
<1> DEFINE r == Rearranged(s, o)
<1>1. DOMAIN r = DOMAIN s
  BY DEF Rearranged
<1>2. PICK p \in Bijection(DOMAIN s, DOMAIN s) : q = Rearranged(r, p)
  BY <1>1 DEF Sortings
<1>3. PICK c \in Bijection(DOMAIN s, DOMAIN s) : q = Rearranged(s, c)
  <2>1. [n \in DOMAIN s |-> o[p[n]]] \in Bijection(DOMAIN s, DOMAIN s)
    BY RearrangedTwice
  <2>2. q = Rearranged(s, [n \in DOMAIN s |-> o[p[n]]])
    BY <1>2, RearrangedTwice
  <2> QED
    BY <2>1, <2>2
<1>4. \A m, n \in DOMAIN s : m < n => ~ Before(q[n], q[m])
  BY <1>1 DEF Sortings
<1> QED
  BY <1>3, <1>4 DEF Sortings

\* Of two sorted rearrangements of a sequence of hashes, neither has a smaller
\* string at any place: the strings in front of it would be too many
LEMMA NoneSmaller ==
  ASSUME NEW L \in Nat, NEW s \in [1 .. L -> Hashes],
         NEW q1 \in Sortings(s), NEW q2 \in Sortings(s), NEW i \in 1 .. L
  PROVE  ~ Before(q1[i], q2[i])
<1> DEFINE D == 1 .. L
<1> SUFFICES ASSUME Before(q1[i], q2[i]) PROVE FALSE
  OBVIOUS
<1>1. PICK p1 \in Bijection(D, D) : q1 = Rearranged(s, p1)
  BY DEF Sortings
<1>2. PICK p2 \in Bijection(D, D) : q2 = Rearranged(s, p2)
  BY DEF Sortings
<1>3. /\ \A n \in D : q1[n] \in Hashes /\ q2[n] \in Hashes
      /\ \A m, n \in D : m < n => ~ Before(q1[n], q1[m]) /\ ~ Before(q2[n], q2[m])
  <2>1. p1 \in [D -> D] /\ p2 \in [D -> D]
    BY DEF Bijection, Injection
  <2> QED
    BY <1>1, <1>2, <2>1 DEF Sortings, Rearranged
<1> DEFINE pi == [n \in D |-> CHOOSE m \in D : p2[m] = p1[n]]
<1>4. \A n \in D : pi[n] \in D /\ p2[pi[n]] = p1[n]
  <2> SUFFICES ASSUME NEW n \in D PROVE \E m \in D : p2[m] = p1[n]
    OBVIOUS
  <2>1. p1[n] \in D
    BY DEF Bijection, Injection
  <2> QED
    BY <2>1 DEF Bijection, Surjection
<1>5. \A n \in D : q1[n] = q2[pi[n]]
  BY <1>1, <1>2, <1>4 DEF Rearranged
<1>6. \A m, n \in D : pi[m] = pi[n] => m = n
  <2>1. \A m, n \in D : p1[m] = p1[n] => m = n
    BY DEF Bijection, Injection, IsInjective
  <2> HIDE DEF pi
  <2> QED
    BY <1>4, <2>1
<1>7. ASSUME NEW n \in 1 .. i PROVE pi[n] \in 1 .. i - 1
  <2>1. n \in D /\ pi[n] \in D
    BY <1>4
  <2>2. SUFFICES ASSUME pi[n] >= i PROVE FALSE
    BY <2>1
  <2>3. ~ Before(q1[i], q1[n])
    BY <1>3, <2>1, OrderAssumption DEF OrderAssumption
  <2>4. ~ Before(q2[pi[n]], q2[i])
    BY <1>3, <2>1, <2>2, OrderAssumption DEF OrderAssumption
  <2>5. q1[n] = q1[i] \/ Before(q1[n], q1[i])
    BY <1>3, <2>1, <2>3, OrderAssumption DEF OrderAssumption
  <2>6. Before(q1[n], q2[i])
    BY <1>3, <2>1, <2>5, OrderAssumption DEF OrderAssumption
  <2> QED
    BY <1>5, <2>1, <2>4, <2>6
<1>8. \A f \in [1 .. i -> 1 .. i - 1] : \E x, y \in 1 .. i : x # y /\ f[x] = f[y]
  <2>1. IsFiniteSet(1 .. i) /\ IsFiniteSet(1 .. i - 1)
    BY IntervalSize
  <2>2. Cardinality(1 .. i - 1) < Cardinality(1 .. i)
    BY IntervalSize
  <2> QED
    BY <2>1, <2>2, FS_PigeonHole
<1>9. [n \in 1 .. i |-> pi[n]] \in [1 .. i -> 1 .. i - 1]
  BY <1>7
<1>10. PICK x \in 1 .. i, y \in 1 .. i : x # y /\ pi[x] = pi[y]
  <2> HIDE DEF pi
  <2> QED
    BY <1>8, <1>9
<1> HIDE DEF pi
<1> QED
  BY <1>6, <1>10

\* A sequence of hashes is sorted in one way
LEMMA SortingsAreEqual ==
  ASSUME NEW L \in Nat, NEW s \in [1 .. L -> Hashes],
         NEW q1 \in Sortings(s), NEW q2 \in Sortings(s)
  PROVE  q1 = q2
<1>1. ASSUME NEW q \in Sortings(s) PROVE q \in [1 .. L -> Hashes]
  <2>1. PICK p \in Bijection(1 .. L, 1 .. L) : q = Rearranged(s, p)
    BY DEF Sortings
  <2> QED
    BY <2>1 DEF Rearranged, Bijection, Injection
<1>2. \A i \in 1 .. L : q1[i] = q2[i]
  <2> SUFFICES ASSUME NEW i \in 1 .. L PROVE q1[i] = q2[i]
    OBVIOUS
  <2>1. ~ Before(q1[i], q2[i]) /\ ~ Before(q2[i], q1[i])
    BY NoneSmaller
  <2>2. q1[i] \in Hashes /\ q2[i] \in Hashes
    BY <1>1
  <2> QED
    BY <2>1, <2>2, OrderAssumption DEF OrderAssumption
<1> QED
  BY <1>1, <1>2

\* When all inputs have arrived, the array is a rearrangement of their hashes
LEMMA ArrayOfAll ==
  ASSUME IInv, Left(Combine) \/ job[Combine] = "sending"
  PROVE  /\ Len(input) \in Nat /\ InputHashes \in [1 .. Len(input) -> Hashes]
         /\ array \in Sortings(InputHashes)
<1>1. Closed(Multi)
  BY DEF IInv, Closing, Left, Combine, Multi
<1>2. Arrived = 1 .. Len(input) /\ Len(input) \in Nat
  BY <1>1, AllArrived, InputLength DEF IInv
<1> DEFINE L == Len(input)
           D == 1 .. L
<1>3. \A m, n \in DOMAIN order : order[m] = order[n] => m = n
  BY DEF IInv, Results
<1>4. order \in Seq(D) /\ {order[a] : a \in DOMAIN order} = D
  <2>1. \A a \in 1 .. Len(order) : order[a] \in D
    BY <1>2 DEF IInv, TypeOK, Arrived
  <2>2. order \in Seq(Items)
    BY DEF IInv, TypeOK
  <2>3. order \in Seq(D)
    BY <2>1, <2>2
  <2> QED
    BY <1>2, <2>3 DEF Arrived
<1>5. Len(order) = L
  BY <1>2, <1>3, <1>4, OrderLength
<1>6. order \in Bijection(D, D)
  <2>1. order \in [D -> D] /\ DOMAIN order = D
    BY <1>4, <1>5
  <2>2. \A d \in D : \E a \in D : order[a] = d
    BY <1>4, <2>1
  <2> QED
    BY <1>3, <2>1, <2>2 DEF Bijection, Injection, IsInjective, Surjection
<1>7. DOMAIN InputHashes = D /\ Unsorted = Rearranged(InputHashes, order)
  <2>1. \A n \in D : order[n] \in D
    BY <1>6 DEF Bijection, Injection
  <2> QED
    BY <1>5, <2>1 DEF InputHashes, Unsorted, Rearranged
<1>8. array \in Sortings(Unsorted)
  BY DEF IInv, Results
<1>9. array \in Sortings(InputHashes)
  BY <1>6, <1>7, <1>8, SortingRearranged
<1>10. InputHashes \in [D -> Hashes]
  <2>1. input \in Inputs /\ DOMAIN input = D
    BY <1>2, InputLength DEF IInv, TypeOK
  <2>2. \A k \in D : input[k] \in UNION {Range(s) : s \in Inputs}
    BY <2>1 DEF Range
  <2> QED
    BY <2>2 DEF InputHashes, Hashes
<1> QED
  BY <1>2, <1>9, <1>10

\* The sink gets the hashes of the inputs, sorted, whatever the order in which the
\* workers wrote, ended and sent
THEOREM OneResult == Spec => []ResultIgnoresSchedule
<1>1. IInv => ResultIgnoresSchedule
  <2> SUFFICES ASSUME IInv, received # << >> PROVE ResultIgnoresSchedule
    BY DEF ResultIgnoresSchedule
  <2>1. Left(Combine) /\ received = <<array>>
    BY DEF IInv, Results
  <2>2. \A q \in Sortings(InputHashes) : q = array
    BY <2>1, ArrayOfAll, SortingsAreEqual
  <2>3. array \in Sortings(InputHashes)
    BY <2>1, ArrayOfAll
  <2> QED
    BY <2>1, <2>2, <2>3 DEF ResultIgnoresSchedule
<1> QED
  BY <1>1, Invariance, PTL

\* The steps that HashFarm does not see
Quiet == UNCHANGED <<input, sent, order, received, returned>>

\* All of these are quiet
LEMMA QuietSteps ==
  /\ Spawn \/ SourceReturns \/ CombineSorts => Quiet
  /\ \A j \in Jobs : JobStep(j) => Quiet
  /\ \A c \in Callers : Md5Step(c) => Quiet
  /\ \A r \in Rivals : RivalCalls(r) => Quiet
  /\ \A k \in Items : SingleStep(k) \/ CrcOfData(k) \/ CrcWait(k) \/ MultiDone(k) => Quiet
  /\ \A k \in Items, i \in Parts : PartStep(k, i) => Quiet
  /\ UNCHANGED vars => Quiet
<1> USE DEF Quiet, vars, mainVars, endVars
<1>1. Spawn \/ SourceReturns \/ CombineSorts => Quiet
  BY DEF Spawn, SourceReturns, JobMoves, CombineSorts
<1>2. ASSUME NEW j \in Jobs, JobStep(j) PROVE Quiet
  BY <1>2 DEF JobStep, RangeEnds, JobReturns, CloseOut, JobDone, JobMoves
<1>3. ASSUME NEW c \in Callers, Md5Step(c) PROVE Quiet
  BY <1>3 DEF Md5Step, OverheatLock, SleepEnds, Md5Returns
<1>4. ASSUME NEW r \in Rivals, RivalCalls(r) PROVE Quiet
  BY <1>4 DEF RivalCalls
<1>5. ASSUME NEW k \in Items, SingleStep(k) \/ CrcOfData(k) \/ CrcWait(k) \/ MultiDone(k)
      PROVE  Quiet
  BY <1>5 DEF SingleStep, MuLock, MuUnlock, CrcOfMd5, CrcOfData, Join, SingleSends,
              SingleDone, CrcWait, MultiDone
<1>6. ASSUME NEW k \in Items, NEW i \in Parts, PartStep(k, i) PROVE Quiet
  BY <1>6 DEF PartStep, WritePart, PartDone
<1> QED
  BY <1>1, <1>2, <1>3, <1>4, <1>5, <1>6

\* The pipeline implements HashFarm: each value is hashed once, and the result is
\* published once, after the last of them, from all of the hashes
THEOREM FarmRefinement == Spec => IsHashFarm
<1>1. Init => Farm!Init
  BY DEF Init, Farm!Init
<1>2. IInv /\ [Next]_vars => [Farm!Next]_Farm!vars
  <2> SUFFICES ASSUME IInv, [Next]_vars PROVE [Farm!Next]_Farm!vars
    OBVIOUS
  <2> USE DEF Farm!vars
  <2>1. CASE SourceSends
    BY <2>1 DEF SourceSends, Farm!Next, Farm!Take, endVars, mainVars
  <2>2. ASSUME NEW k \in Items, MultiSends(k) PROVE Farm!Next
    <3>1. k <= sent /\ k \notin Arrived
      BY <2>2 DEF IInv, Handover, MultiSends
    <3>2. Arrived' = Arrived \cup {k}
      BY <2>2, ArrivedGrows DEF IInv, MultiSends
    <3>3. received = << >>
      BY <2>2 DEF IInv, Results, Left, MultiSends
    <3>4. k \in 1 .. sent /\ k \in DOMAIN input
      BY <3>1, InputLength DEF IInv, Items
    <3>5. Farm!Hash(k)
      BY <2>2, <3>1, <3>2, <3>3, <3>4 DEF Farm!Hash, Arrived, MultiSends, mainVars
    <3> QED
      BY <3>4, <3>5 DEF Farm!Next
  <2>3. CASE CombineSends
    <3>1. array \in Sortings(InputHashes)
      BY <2>3, ArrayOfAll DEF CombineSends
    <3>2. Arrived = 1 .. Len(input)
      BY <2>3, AllArrived DEF IInv, Closing, CombineSends, Combine, Multi
    <3>3. received = << >>
      BY <2>3 DEF IInv, Results, Left, CombineSends
    <3>4. Farm!Publish
      BY <2>3, <3>1, <3>2, <3>3
      DEF Farm!Publish, CombineSends, InputHashes, Arrived, mainVars
    <3> QED
      BY <3>4 DEF Farm!Next
  <2>4. CASE Return
    <3>1. received # << >>
      BY <2>4 DEF IInv, Results, Left, Return, Combine, Jobs, Source, Sink
    <3> QED
      BY <2>4, <3>1 DEF Return, Farm!Next, Farm!End, endVars
  <2>5. CASE Quiet
    BY <2>5 DEF Quiet
  <2> QED
    BY <2>1, <2>2, <2>3, <2>4, <2>5, QuietSteps
    DEF Next, MainStep, SourceStep, CombineStep, MultiStep, Terminated
<1> QED
  BY <1>1, <1>2, Invariance, PTL DEF Spec, IsHashFarm, Farm!Spec

=============================================================================
