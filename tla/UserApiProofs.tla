--------------------------- MODULE UserApiProofs ---------------------------
(***************************************************************************)
(* Proofs about UserApi: the generated validation does what the tags say,  *)
(* the map is never accessed concurrently, users are numbered without a    *)
(* gap, and MyApi implements AtomicRegistry.                               *)
(***************************************************************************)
EXTENDS UserApi, TLAPS

-----------------------------------------------------------------------------
(* The validation.                                                         *)

\* A create handler lets a request of MyApi pass exactly when it is an
\* authorised POST whose fields fulfil the tags of CreateParams.
LEMMA AcceptedIsTags ==
  ASSUME NEW q \in Input, q.api = "my"
  PROVE  Accepted(q) <=> (q.method = "POST" /\ q.auth /\ TagsHold(q))
<1> USE UserApiAssumption
<1>1. Checks(q)[1][1] = (q.method = "POST")
  BY DEF Checks
<1>2. Checks(q)[2][1] = q.auth
  BY DEF Checks
<1>3. Checks(q)[3][1] = (q.login # Absent)
  BY DEF Checks
<1>4. Checks(q)[4][1] = (q.login # Absent => Length[q.login] >= 10)
  BY DEF Checks, Rules
<1>5. Checks(q)[5][1] = (Status(q) \in {"user", "moderator", "admin"})
  BY DEF Checks, Rules
<1>6. Checks(q)[6][1] = (q.age # NotInt)
  BY DEF Checks
<1>7. Checks(q)[7][1] = (q.age # NotInt => q.age >= 0)
  BY DEF Checks, Rules
<1>8. Checks(q)[8][1] = (q.age # NotInt => q.age <= 128)
  BY DEF Checks, Rules
<1>9. Status(q) \in {"user", "moderator", "admin"}
        <=> q.status \in {"user", "moderator", "admin", Absent}
  BY DEF Status, Rules
<1>10. Accepted(q) <=>
         /\ Checks(q)[1][1] /\ Checks(q)[2][1] /\ Checks(q)[3][1] /\ Checks(q)[4][1]
         /\ Checks(q)[5][1] /\ Checks(q)[6][1] /\ Checks(q)[7][1] /\ Checks(q)[8][1]
  <2> \A k \in 1 .. 8 : k \in {1, 2, 3, 4, 5, 6, 7, 8}
    OBVIOUS
  <2> QED BY DEF Accepted
<1>11. q.age \in 0 .. 128 <=> (q.age # NotInt /\ q.age >= 0 /\ q.age <= 128)
  <2>1. q.age \in Int \cup {NotInt}
    BY DEF Input
  <2> QED BY <2>1
<1> QED BY <1>1, <1>2, <1>3, <1>4, <1>5, <1>6, <1>7, <1>8, <1>9, <1>10, <1>11 DEF TagsHold

\* A request that a create handler refuses is answered with one of three codes.
LEMMA RefusalStatus ==
  ASSUME NEW q, ~ Accepted(q)
  PROVE  Refusal(q).status \in {400, 403, 406}
<1> DEFINE P(i) == ~ Checks(q)[i][1] /\ \A j \in 1 .. i - 1 : Checks(q)[j][1]
<1>1. \E i \in 1 .. 8 : P(i)
  <2> DEFINE C(i) == Checks(q)[i][1]
  <2>1. \E i \in {1, 2, 3, 4, 5, 6, 7, 8} : ~ C(i)
    BY DEF Accepted
  <2> HIDE DEF C
  <2>2. \E i \in 1 .. 8 : ~ C(i) /\ \A j \in 1 .. i - 1 : C(j)
    <3>1. CASE ~ C(1) 
      BY <3>1
    <3>2. CASE C(1) /\ ~ C(2)
      BY <3>2
    <3>3. CASE C(1) /\ C(2) /\ ~ C(3)
      BY <3>3
    <3>4. CASE C(1) /\ C(2) /\ C(3) /\ ~ C(4)
      BY <3>4
    <3>5. CASE C(1) /\ C(2) /\ C(3) /\ C(4) /\ ~ C(5)
      BY <3>5
    <3>6. CASE C(1) /\ C(2) /\ C(3) /\ C(4) /\ C(5) /\ ~ C(6)
      BY <3>6
    <3>7. CASE C(1) /\ C(2) /\ C(3) /\ C(4) /\ C(5) /\ C(6) /\ ~ C(7)
      BY <3>7
    <3>8. CASE C(1) /\ C(2) /\ C(3) /\ C(4) /\ C(5) /\ C(6) /\ C(7) /\ ~ C(8)
      BY <3>8
    <3> QED BY <2>1, <3>1, <3>2, <3>3, <3>4, <3>5, <3>6, <3>7, <3>8
  <2> QED BY <2>2 DEF C
<1> DEFINE k == CHOOSE i \in 1 .. 8 : P(i)
<1>2. k \in 1 .. 8
  BY <1>1
<1>3. \A i \in {1, 2, 3, 4, 5, 6, 7, 8} : Checks(q)[i][2].status \in {400, 403, 406}
  <2>1. Checks(q)[1][2].status = 406
    BY DEF Checks, Error
  <2>2. Checks(q)[2][2].status = 403
    BY DEF Checks, Error
  <2>3. Checks(q)[3][2].status = 400
    BY DEF Checks, Error
  <2>4. Checks(q)[4][2].status = 400
    BY DEF Checks, Error
  <2>5. Checks(q)[5][2].status = 400
    BY DEF Checks, Error
  <2>6. Checks(q)[6][2].status = 400
    BY DEF Checks, Error
  <2>7. Checks(q)[7][2].status = 400
    BY DEF Checks, Error
  <2>8. Checks(q)[8][2].status = 400
    BY DEF Checks, Error
  <2> HIDE DEF Checks
  <2> QED BY <2>1, <2>2, <2>3, <2>4, <2>5, <2>6, <2>7, <2>8
<1>4. Refusal(q) = Checks(q)[k][2]
  BY DEF Refusal
<1> HIDE DEF k
<1> QED BY <1>2, <1>3, <1>4

\* What passes the checks of create has a login and a status of the enumeration.
LEMMA CreateHasFields ==
  ASSUME NEW q \in Input, ToCreate(q)
  PROVE  /\ q.login \in Logins /\ TagsHold(q) /\ q.method = "POST" /\ q.auth
         /\ Status(q) \in {"user", "moderator", "admin"}
         /\ Code[Status(q)] \in {0, 10, 20} /\ Name(q) \in Names \cup {Absent}
<1>1. q.method = "POST" /\ q.auth /\ TagsHold(q)
  BY AcceptedIsTags DEF ToCreate
<1>2. q.login \in Logins
  BY <1>1 DEF TagsHold, Input
<1>3. Status(q) \in {"user", "moderator", "admin"}
  BY <1>1 DEF TagsHold, Status, Rules, ToCreate
<1>4. Name(q) \in Names \cup {Absent}
  BY UserApiAssumption DEF Name, Input
<1> QED BY <1>1, <1>2, <1>3, <1>4 DEF Code

-----------------------------------------------------------------------------
(* The inductive invariant.                                                *)

LEMMA InitIInv == Init => IInv
<1> SUFFICES ASSUME Init PROVE IInv
  OBVIOUS
<1> USE UserApiAssumption DEF Init
<1>1. TypeOK
  BY DEF TypeOK, User, Code
<1>2. Locks /\ Checked /\ Fresh /\ Answers /\ Origin
  BY DEF Locks, Writing, Reading, Checked, Fresh, Answers, Origin
<1>3. IdsWithoutGaps
  BY DEF IdsWithoutGaps, Inserting
<1> QED BY <1>1, <1>2, <1>3 DEF IInv

\* A section of Create excludes all others, and every section of Profile.
LEMMA LocksExclude ==
  ASSUME TypeOK, Locks
  PROVE  NoConcurrentMapAccess
BY UserApiAssumption DEF TypeOK, Locks, NoConcurrentMapAccess, Writing, Reading

LEMMA ReceiveKeeps ==
  ASSUME IInv, NEW r \in Requests, NEW q \in Inputs[r], Receive(r, q)
  PROVE  IInv'
<1> q \in Input
  BY UserApiAssumption
<1> USE DEF Receive
<1>1. /\ DOMAIN answer' = Requests
      /\ \A s \in Requests \ {r} : answer'[s] = answer[s] /\ pc'[s] = pc[s] /\ input'[s] = input[s]
      /\ pc[r] = "idle" /\ input'[r] = q
      /\ UNCHANGED <<number, users, nextID, readers, writer>>
  BY ZenonT(30) DEF IInv, TypeOK, Goto, Reply, ServeHTTP, profile, create
<1>2. \/ pc'[r] = "lock" /\ ToCreate(q) /\ answer'[r] = Absent
      \/ pc'[r] = "rlock" /\ ToProfile(q) /\ answer'[r] = Absent
      \/ /\ pc'[r] = "answered"
         /\ q.api = "my" /\ q.path = CreatePath =>
              ~ ToCreate(q) /\ answer'[r].status \in {400, 403, 406, 500}
  <2>0. answer[r] = Absent
    BY ZenonT(30) DEF IInv, Answers
  <2>1. CASE ServeHTTP(r, q)
    BY <2>0, <2>1 DEF IInv, TypeOK, ServeHTTP, Reply, Goto, CreatePath, ProfilePath
  <2>2. CASE profile(r, q)
    BY <2>0, <2>2 DEF IInv, TypeOK, profile, Reply, Goto, CreatePath, ProfilePath
  <2>3. CASE create(r, q)
    <3>1. CASE ~ Accepted(q) /\ Reply(r, Refusal(q))
      BY <2>0, <3>1, RefusalStatus DEF IInv, TypeOK, Reply, Goto, ToCreate
    <3>2. CASE q.api = "other" /\ \E a : Reply(r, a)
      BY <2>0, <3>2 DEF IInv, TypeOK, Reply, Goto
    <3>3. CASE q.login = BadUsername /\ Reply(r, Error(500, "bad user"))
      <4>1. pc'[r] = "answered" /\ answer'[r] = Error(500, "bad user")
        <5>1. \A a : Reply(r, a) => pc'[r] = "answered" /\ answer'[r] = a
          BY DEF IInv, TypeOK, Reply, Goto
        <5> QED BY ONLY <3>3, <5>1
      <4>2. answer'[r].status = 500
        <5>1. Error(500, "bad user").status = 500
          BY DEF Error
        <5> QED BY ONLY <4>1, <5>1
      <4> QED BY <3>3, <4>1, <4>2 DEF ToCreate
    <3>4. CASE ToCreate(q) /\ Goto(r, "lock") /\ UNCHANGED answer
      BY <2>0, <3>4 DEF IInv, TypeOK, Goto
    <3> QED BY <2>3, <3>1, <3>2, <3>3, <3>4 DEF create
  <2> QED BY <2>1, <2>2, <2>3
<1>3. pc' \in [Requests -> {"idle", "lock", "locking", "check", "insert", "unlock",
                            "rlock", "lookup", "runlock", "answered", "done"}]
  <2>1. \E l \in {"answered", "lock", "rlock"} : Goto(r, l)
    BY DEF Reply, ServeHTTP, profile, create
  <2> QED BY <2>1 DEF IInv, TypeOK, Goto
<1>4. DOMAIN input' = Requests
  BY DEF IInv, TypeOK
<1> HIDE DEF Receive
<1>5. TypeOK'
  BY <1>1, <1>3, <1>4 DEF IInv, TypeOK
<1>6. Locks'
  BY <1>1, <1>2 DEF IInv, Locks, Writing, Reading
<1>7. Checked'
  BY <1>1, <1>2 DEF IInv, Checked, Writing, Reading
<1>8. Fresh'
  BY <1>1, <1>2 DEF IInv, Fresh
<1>9. Answers'
  <2> SUFFICES ASSUME NEW s \in Requests
               PROVE  /\ pc'[s] \in {"idle", "lock", "locking", "check", "insert", "rlock", "lookup"}
                           => answer'[s] = Absent
                      /\ pc'[s] \in {"unlock", "done"} /\ ToCreate(input'[s])
                           => answer'[s] = Conflict \/ answer'[s] = [status |-> 200, id |-> number'[s]]
                      /\ pc'[s] = "answered" /\ input'[s].api = "my" /\ input'[s].path = CreatePath
                           => ~ ToCreate(input'[s]) /\ answer'[s].status \in {400, 403, 406, 500}
    BY DEF Answers, Conflict, Error, ToCreate
  <2>1. CASE s = r
    BY <1>1, <1>2, <2>1
  <2>2. CASE s # r
    <3>1. /\ pc'[s] = pc[s] /\ answer'[s] = answer[s] /\ input'[s] = input[s]
          /\ number'[s] = number[s]
      BY <1>1, <2>2
    <3>2. /\ pc[s] \in {"idle", "lock", "locking", "check", "insert", "rlock", "lookup"}
               => answer[s] = Absent
          /\ pc[s] \in {"unlock", "done"} /\ ToCreate(input[s])
               => answer[s] = Conflict \/ answer[s] = [status |-> 200, id |-> number[s]]
          /\ pc[s] = "answered" /\ input[s].api = "my" /\ input[s].path = CreatePath
               => ~ ToCreate(input[s]) /\ answer[s].status \in {400, 403, 406, 500}
      BY DEF IInv, Answers
    <3> QED BY <3>1, <3>2
  <2> QED BY <2>1, <2>2
<1>10. IdsWithoutGaps'
  <2>1. Inserting' = Inserting
    BY <1>1, <1>2 DEF Inserting
  <2> QED BY <1>1, <2>1 DEF IInv, IdsWithoutGaps
<1>11. Origin'
  BY <1>1 DEF IInv, Origin, NewUser
<1> QED BY <1>5, <1>6, <1>7, <1>8, <1>9, <1>10, <1>11 DEF IInv

LEMMA LockKeeps ==
  ASSUME IInv, NEW r \in Requests, Lock(r)
  PROVE  IInv'
<1> USE UserApiAssumption DEF Lock
<1>1. TypeOK'
  BY DEF IInv, TypeOK, Goto
<1>2. Locks'
  BY DEF IInv, TypeOK, Locks, Writing, Reading, Goto
<1>3. Checked'
  BY DEF IInv, TypeOK, Checked, Writing, Reading, Goto
<1>4. Fresh'
  BY DEF IInv, TypeOK, Fresh, Goto
<1>5. Answers'
  BY DEF IInv, TypeOK, Answers, Goto
<1>6. IdsWithoutGaps'
  BY DEF IInv, TypeOK, IdsWithoutGaps, Inserting, Goto
<1>7. Origin'
  BY DEF IInv, TypeOK, Origin, NewUser, Goto
<1> QED BY <1>1, <1>2, <1>3, <1>4, <1>5, <1>6, <1>7 DEF IInv

LEMMA EnterKeeps ==
  ASSUME IInv, NEW r \in Requests, Enter(r)
  PROVE  IInv'
<1> USE UserApiAssumption DEF Enter
<1>1. TypeOK'
  BY DEF IInv, TypeOK, Goto
<1>2. Locks'
  BY DEF IInv, TypeOK, Locks, Writing, Reading, Goto
<1>3. Checked'
  BY DEF IInv, TypeOK, Checked, Writing, Reading, Goto
<1>4. Fresh'
  BY DEF IInv, TypeOK, Fresh, Goto
<1>5. Answers'
  BY DEF IInv, TypeOK, Answers, Goto
<1>6. IdsWithoutGaps'
  BY DEF IInv, TypeOK, IdsWithoutGaps, Inserting, Goto
<1>7. Origin'
  BY DEF IInv, TypeOK, Origin, NewUser, Goto
<1> QED BY <1>1, <1>2, <1>3, <1>4, <1>5, <1>6, <1>7 DEF IInv

LEMMA ExistKeeps ==
  ASSUME IInv, NEW r \in Requests, Exist(r)
  PROVE  IInv'
<1> USE UserApiAssumption DEF Exist
<1>1. TypeOK'
  BY DEF IInv, TypeOK, Goto
<1>2. Locks'
  BY DEF IInv, TypeOK, Locks, Writing, Reading, Goto
<1>3. Checked'
  BY DEF IInv, TypeOK, Checked, Writing, Reading, Goto
<1>4. Fresh'
  BY DEF IInv, TypeOK, Fresh, Goto
<1>5. Answers'
  BY DEF IInv, TypeOK, Answers, Goto
<1>6. IdsWithoutGaps'
  BY DEF IInv, TypeOK, IdsWithoutGaps, Inserting, Goto
<1>7. Origin'
  BY DEF IInv, TypeOK, Origin, NewUser, Goto
<1> QED BY <1>1, <1>2, <1>3, <1>4, <1>5, <1>6, <1>7 DEF IInv

LEMMA TakeIdKeeps ==
  ASSUME IInv, NEW r \in Requests, TakeId(r)
  PROVE  IInv'
<1> USE UserApiAssumption DEF TakeId
<1>1. TypeOK'
  BY DEF IInv, TypeOK, Goto
<1>2. Locks'
  BY DEF IInv, TypeOK, Locks, Writing, Reading, Goto
<1>3. Checked'
  BY DEF IInv, TypeOK, Checked, Writing, Reading, Goto
<1>4. Fresh'
  BY DEF IInv, TypeOK, Locks, Writing, Fresh, Goto
<1>5. Answers'
  BY DEF IInv, TypeOK, Answers, Goto
<1>6. IdsWithoutGaps'
  <2>1. ~ Inserting /\ Inserting'
    BY DEF IInv, TypeOK, Locks, Writing, Inserting, Goto
  <2> QED BY <2>1 DEF IInv, TypeOK, IdsWithoutGaps
<1>7. Origin'
  BY DEF IInv, TypeOK, Origin, NewUser, Goto
<1> QED BY <1>1, <1>2, <1>3, <1>4, <1>5, <1>6, <1>7 DEF IInv

LEMMA InsertKeeps ==
  ASSUME IInv, NEW r \in Requests, Insert(r)
  PROVE  IInv'
<1> USE UserApiAssumption DEF Insert
<1>0. /\ input[r].login \in Logins /\ Status(input[r]) \in {"user", "moderator", "admin"}
      /\ Code[Status(input[r])] \in {0, 10, 20} /\ Name(input[r]) \in Names \cup {Absent}
  BY CreateHasFields DEF IInv, TypeOK, Checked, Writing
<1>1. TypeOK'
  <2>1. NewUser(r) \in User /\ NewUser(r).login = input[r].login
    BY <1>0 DEF IInv, TypeOK, NewUser, User
  <2> QED BY <1>0, <2>1 DEF IInv, TypeOK, Goto
<1>2. Locks'
  BY DEF IInv, TypeOK, Locks, Writing, Reading, Goto
<1>3. Checked'
  BY DEF IInv, TypeOK, Checked, Writing, Reading, Goto
<1>4. Fresh'
  BY DEF IInv, TypeOK, Locks, Writing, Fresh, Goto
<1>5. Answers'
  BY DEF IInv, TypeOK, Answers, Goto
<1>6. IdsWithoutGaps'
  <2>1. Inserting /\ ~ Inserting'
    BY DEF IInv, TypeOK, Locks, Writing, Inserting, Goto
  <2>2. NewUser(r).id = nextID - 1 /\ input[r].login \notin DOMAIN users
    BY DEF IInv, Fresh, NewUser
  <2>3. {users[l].id : l \in DOMAIN users} = 42 .. nextID - 2
    BY <2>1 DEF IInv, IdsWithoutGaps
  <2>4. /\ \A l \in DOMAIN users : users'[l].id = users[l].id /\ users[l].id # nextID - 1
        /\ users'[input[r].login].id = nextID - 1
        /\ DOMAIN users' = DOMAIN users \cup {input[r].login}
    <3>1. DOMAIN users' = DOMAIN users \cup {input[r].login} /\ users'[input[r].login] = NewUser(r)
      OBVIOUS
    <3>2. \A l \in DOMAIN users : users'[l] = users[l]
      BY <2>2
    <3>3. \A l \in DOMAIN users : users[l].id \in 42 .. nextID - 2
      BY <2>3
    <3>4. \A l \in DOMAIN users : users[l].id # nextID - 1
      BY <3>3 DEF IInv, TypeOK
    <3> QED BY <2>2, <3>1, <3>2, <3>4
  <2>5. \A l, m \in DOMAIN users' : users'[l].id = users'[m].id => l = m
    BY <2>4 DEF IInv, IdsWithoutGaps
  <2>6. {users'[l].id : l \in DOMAIN users'} = {users[l].id : l \in DOMAIN users} \cup {nextID - 1}
    <3>1. ASSUME NEW l \in DOMAIN users'
          PROVE  users'[l].id \in {users[m].id : m \in DOMAIN users} \cup {nextID - 1}
      BY <2>4
    <3>2. ASSUME NEW l \in DOMAIN users
          PROVE  users[l].id \in {users'[m].id : m \in DOMAIN users'}
      BY <2>4
    <3>3. nextID - 1 \in {users'[m].id : m \in DOMAIN users'}
      BY <2>4
    <3> DEFINE S == {users[l].id : l \in DOMAIN users}
               T == {users'[l].id : l \in DOMAIN users'}
    <3>4. T \subseteq S \cup {nextID - 1}
      BY ONLY <3>1
    <3>5. S \cup {nextID - 1} \subseteq T
      BY ONLY <3>2, <3>3
    <3> QED BY <3>4, <3>5
  <2>7. {users'[l].id : l \in DOMAIN users'} = 42 .. nextID - 1
    <3>1. (42 .. nextID - 2) \cup {nextID - 1} = 42 .. nextID - 1
      BY DEF IInv, TypeOK
    <3> QED BY <2>3, <2>6, <3>1
  <2> QED BY <2>1, <2>5, <2>7 DEF IdsWithoutGaps
<1>7. Origin'
  <2>1. \A l \in DOMAIN users : l # input[r].login /\ users'[l] = users[l]
    BY DEF IInv, Fresh
  <2>2. /\ pc'[r] = "unlock" /\ ToCreate(input[r])
        /\ users'[input[r].login] = NewUser(r)
        /\ answer'[r] = [status |-> 200, id |-> NewUser(r).id]
    BY DEF IInv, TypeOK, Checked, Writing, NewUser, Goto
  <2>3. \A s \in Requests \ {r} : pc'[s] = pc[s] /\ answer'[s] = answer[s]
    BY DEF IInv, TypeOK, Goto
  <2>4. \A s \in Requests : NewUser(s)' = NewUser(s)
    BY DEF NewUser
  <2>5. ASSUME NEW l \in DOMAIN users' \ {Rvasily}
        PROVE  \E s \in Requests :
                 /\ pc'[s] \in {"unlock", "done"} /\ ToCreate(input'[s])
                 /\ users'[l] = NewUser(s)'
                 /\ answer'[s] = [status |-> 200, id |-> users'[l].id]
    <3>1. CASE l = input[r].login
      BY <2>2, <2>4, <3>1
    <3>2. CASE l # input[r].login
      <4>1. l \in DOMAIN users \ {Rvasily} /\ users'[l] = users[l]
        BY <2>1, <3>2
      <4>2. PICK s \in Requests :
              /\ pc[s] \in {"unlock", "done"} /\ ToCreate(input[s])
              /\ users[l] = NewUser(s)
              /\ answer[s] = [status |-> 200, id |-> users[l].id]
        BY <4>1 DEF IInv, Origin
      <4>3. s # r
        BY <4>2
      <4> QED BY <4>1, <4>2, <4>3, <2>3, <2>4
    <3> QED BY <3>1, <3>2
  <2> QED BY <2>5 DEF Origin
<1> QED BY <1>1, <1>2, <1>3, <1>4, <1>5, <1>6, <1>7 DEF IInv

LEMMA UnlockKeeps ==
  ASSUME IInv, NEW r \in Requests, Unlock(r)
  PROVE  IInv'
<1> USE UserApiAssumption DEF Unlock
<1>1. TypeOK'
  BY DEF IInv, TypeOK, Goto
<1>2. Locks'
  BY DEF IInv, TypeOK, Locks, Writing, Reading, Goto
<1>3. Checked'
  BY DEF IInv, TypeOK, Checked, Writing, Reading, Goto
<1>4. Fresh'
  BY DEF IInv, TypeOK, Fresh, Goto
<1>5. Answers'
  BY DEF IInv, TypeOK, Answers, Goto
<1>6. IdsWithoutGaps'
  BY DEF IInv, TypeOK, IdsWithoutGaps, Inserting, Goto
<1>7. Origin'
  BY DEF IInv, TypeOK, Origin, NewUser, Goto
<1> QED BY <1>1, <1>2, <1>3, <1>4, <1>5, <1>6, <1>7 DEF IInv

LEMMA RLockKeeps ==
  ASSUME IInv, NEW r \in Requests, RLock(r)
  PROVE  IInv'
<1> USE UserApiAssumption DEF RLock
<1>1. TypeOK'
  BY DEF IInv, TypeOK, Goto
<1>2. Locks'
  BY DEF IInv, TypeOK, Locks, Writing, Reading, Goto
<1>3. Checked'
  BY DEF IInv, TypeOK, Checked, Writing, Reading, Goto
<1>4. Fresh'
  BY DEF IInv, TypeOK, Fresh, Goto
<1>5. Answers'
  BY DEF IInv, TypeOK, Answers, Goto
<1>6. IdsWithoutGaps'
  BY DEF IInv, TypeOK, IdsWithoutGaps, Inserting, Goto
<1>7. Origin'
  BY DEF IInv, TypeOK, Origin, NewUser, Goto
<1> QED BY <1>1, <1>2, <1>3, <1>4, <1>5, <1>6, <1>7 DEF IInv

LEMMA LookupKeeps ==
  ASSUME IInv, NEW r \in Requests, Lookup(r)
  PROVE  IInv'
<1> USE UserApiAssumption DEF Lookup
<1>1. TypeOK'
  BY DEF IInv, TypeOK, Goto
<1>2. Locks'
  BY DEF IInv, TypeOK, Locks, Writing, Reading, Goto
<1>3. Checked'
  BY DEF IInv, TypeOK, Checked, Writing, Reading, Goto
<1>4. Fresh'
  BY DEF IInv, TypeOK, Fresh, Goto
<1>5. Answers'
  BY DEF IInv, TypeOK, Answers, Goto
<1>6. IdsWithoutGaps'
  BY DEF IInv, TypeOK, IdsWithoutGaps, Inserting, Goto
<1>7. Origin'
  BY DEF IInv, TypeOK, Origin, NewUser, Goto
<1> QED BY <1>1, <1>2, <1>3, <1>4, <1>5, <1>6, <1>7 DEF IInv

LEMMA RUnlockKeeps ==
  ASSUME IInv, NEW r \in Requests, RUnlock(r)
  PROVE  IInv'
<1> USE UserApiAssumption DEF RUnlock
<1>1. TypeOK'
  BY DEF IInv, TypeOK, Goto
<1>2. Locks'
  BY DEF IInv, TypeOK, Locks, Writing, Reading, Goto
<1>3. Checked'
  BY DEF IInv, TypeOK, Checked, Writing, Reading, Goto
<1>4. Fresh'
  BY DEF IInv, TypeOK, Fresh, Goto
<1>5. Answers'
  BY DEF IInv, TypeOK, Checked, Reading, Answers, Goto, ToCreate, ToProfile, CreatePath, ProfilePath
<1>6. IdsWithoutGaps'
  BY DEF IInv, TypeOK, IdsWithoutGaps, Inserting, Goto
<1>7. Origin'
  BY DEF IInv, TypeOK, Origin, NewUser, Goto
<1> QED BY <1>1, <1>2, <1>3, <1>4, <1>5, <1>6, <1>7 DEF IInv

LEMMA StutterKeeps == ASSUME IInv, UNCHANGED vars PROVE IInv'
<1> USE DEF vars
<1>1. TypeOK' /\ Locks' /\ Checked' /\ Fresh'
  BY DEF IInv, TypeOK, Locks, Writing, Reading, Checked, Fresh
<1>2. Answers' /\ Origin'
  BY DEF IInv, Answers, Origin, NewUser
<1>3. IdsWithoutGaps'
  BY DEF IInv, IdsWithoutGaps, Inserting
<1> QED BY <1>1, <1>2, <1>3 DEF IInv

LEMMA NextKeepsIInv == IInv /\ [Next]_vars => IInv'
<1> SUFFICES ASSUME IInv, [Next]_vars PROVE IInv'
  OBVIOUS
<1>1. ASSUME NEW r \in Requests, NEW q \in Inputs[r], Receive(r, q) PROVE IInv'
  BY <1>1, ReceiveKeeps
<1>2. ASSUME NEW r \in Requests, Handler(r) PROVE IInv'
  BY <1>2, LockKeeps, EnterKeeps, ExistKeeps, TakeIdKeeps, InsertKeeps, UnlockKeeps,
     RLockKeeps, LookupKeeps, RUnlockKeeps DEF Handler
<1>3. CASE UNCHANGED vars
  BY <1>3, StutterKeeps
<1> QED BY <1>1, <1>2, <1>3 DEF Next

\* The inductive invariant holds of every behaviour, for any set of requests and
\* whatever each of them may carry.
THEOREM Invariance == Spec => []IInv
<1>1. Init => IInv
  BY InitIInv
<1>2. IInv /\ [Next]_vars => IInv'
  BY NextKeepsIInv
<1> QED BY <1>1, <1>2, PTL DEF Spec

\* Every variable of UserApi keeps its type.
THEOREM TypeCorrectness == Spec => []TypeOK
<1>1. IInv => TypeOK
  BY DEF IInv
<1> QED BY <1>1, Invariance, PTL

\* The map is never written while another request reads or writes it: mu is held
\* around every access of Create and Profile (api.go:85-87, 101-116).
THEOREM MapSafety == Spec => []NoConcurrentMapAccess
<1>1. IInv => NoConcurrentMapAccess
  BY LocksExclude DEF IInv
<1> QED BY <1>1, Invariance, PTL

\* Users are numbered from 42 on without a gap or a repetition (api.go:109-110).
THEOREM Numbering == Spec => []IdsWithoutGaps
<1>1. IInv => IdsWithoutGaps
  BY DEF IInv
<1> QED BY <1>1, Invariance, PTL

\* The generated create handler of MyApi lets through what the tags of CreateParams
\* let through, nothing else makes users, and a user has the full_name that was sent.
THEOREM Validation == Spec => []ValidationFollowsTheTags
<1>1. ASSUME IInv PROVE ValidationFollowsTheTags
  <2> USE <1>1, UserApiAssumption
  <2>1. ASSUME NEW r \in Requests, Done(r), input[r].api = "my", input[r].path = CreatePath
        PROVE  answer[r].status \in {200, 409} <=>
                 /\ input[r].method = "POST" /\ input[r].auth /\ TagsHold(input[r])
                 /\ input[r].login # BadUsername
    <3>0. input[r] \in Input
      BY <2>1 DEF IInv, TypeOK, Done
    <3>1. ToCreate(input[r]) <=>
            /\ input[r].method = "POST" /\ input[r].auth /\ TagsHold(input[r])
            /\ input[r].login # BadUsername
      BY <2>1, <3>0, AcceptedIsTags DEF ToCreate
    <3>2. CASE pc[r] = "answered"
      <4>1. ~ ToCreate(input[r]) /\ answer[r].status \in {400, 403, 406, 500}
        BY <2>1, <3>2, ZenonT(30) DEF IInv, Answers
      <4> QED BY <3>1, <4>1
    <3>3. CASE pc[r] = "done"
      <4>1. ToCreate(input[r])
        BY <2>1, <3>3 DEF IInv, Checked, ToProfile, CreatePath, ProfilePath
      <4>2. answer[r] = Conflict \/ answer[r] = [status |-> 200, id |-> number[r]]
        BY <3>3, <4>1 DEF IInv, Answers
      <4>3. Conflict.status = 409
        BY DEF Conflict, Error
      <4>4. answer[r].status \in {200, 409}
        BY <4>2, <4>3
      <4> QED BY <3>1, <4>1, <4>4
    <3> QED BY <2>1, <3>2, <3>3 DEF Done
  <2>2. ASSUME NEW l \in DOMAIN users \ {Rvasily}
        PROVE  \E r \in Requests :
                 /\ pc[r] \in {"unlock", "done"} /\ input[r].login = l /\ TagsHold(input[r])
                 /\ NamedOnce(input[r]) => users[l].name = input[r].full_name
                 /\ users[l].status = Code[IF input[r].status = Absent THEN "user"
                                                                       ELSE input[r].status]
                 /\ answer[r] = [status |-> 200, id |-> users[l].id]
    <3>1. PICK r \in Requests :
            /\ pc[r] \in {"unlock", "done"} /\ ToCreate(input[r])
            /\ users[l] = NewUser(r)
            /\ answer[r] = [status |-> 200, id |-> users[l].id]
      BY <2>2 DEF IInv, Origin
    <3>2. input[r] \in Input
      BY <3>1 DEF IInv, TypeOK
    <3>3. TagsHold(input[r])
      BY <3>1, <3>2, CreateHasFields
    <3>4. users[l].login = l /\ NewUser(r).login = input[r].login
      BY DEF IInv, TypeOK, NewUser
    <3>5. NewUser(r).name = Name(input[r]) /\ NewUser(r).status = Code[Status(input[r])]
      BY DEF NewUser
    <3>6. Status(input[r]) = IF input[r].status = Absent THEN "user" ELSE input[r].status
      BY <3>1 DEF Status, Rules, ToCreate
    <3>7. NamedOnce(input[r]) => Name(input[r]) = input[r].full_name
      BY DEF NamedOnce, Name
    <3> QED BY <3>1, <3>3, <3>4, <3>5, <3>6, <3>7
  <2> QED BY <2>1, <2>2 DEF ValidationFollowsTheTags
<1> QED BY <1>1, Invariance, PTL

-----------------------------------------------------------------------------
(* MyApi implements AtomicRegistry.                                        *)

NextNumber == IF Inserting THEN nextID - 1 ELSE nextID

\* A step of request r leaves the phase, operation and result of the others alone.
LEMMA OthersKeep ==
  ASSUME IInv, NEW r \in Requests, NEW f, NEW o, NEW a,
         \A s \in Requests \ {r} : pc'[s] = pc[s] /\ input'[s] = input[s] /\ answer'[s] = answer[s],
         Phase(r)' = f,
         (IF Reached(r) THEN OperationOf(input[r]) ELSE Absent)' = o,
         (IF Reached(r) THEN answer[r] ELSE Absent)' = a
  PROVE  /\ phases' = [phases EXCEPT ![r] = f]
         /\ operations' = [operations EXCEPT ![r] = o]
         /\ results' = [results EXCEPT ![r] = a]
<1>1. \A s \in Requests \ {r} : Phase(s)' = Phase(s) /\ Reached(s)' = Reached(s)
  BY DEF Phase, Reached
<1>2. phases' = [phases EXCEPT ![r] = f]
  BY <1>1 DEF phases
<1>3. \A s \in Requests \ {r} : OperationOf(input[s])' = OperationOf(input[s])
  BY DEF OperationOf, ProfileLogin, ReadsLogin, Name, Status, Rules, Code
<1>4. operations' = [operations EXCEPT ![r] = o]
  BY <1>1, <1>3 DEF operations
<1>5. results' = [results EXCEPT ![r] = a]
  BY <1>1 DEF results
<1> QED BY <1>2, <1>4, <1>5

\* A request past Receive keeps its operation.
LEMMA HandlerKeepsOperation ==
  ASSUME IInv, NEW r \in Requests, Handler(r)
  PROVE  /\ UNCHANGED input
         /\ \A s \in Requests \ {r} : pc'[s] = pc[s] /\ answer'[s] = answer[s]
         /\ Reached(r) /\ Reached(r)'
         /\ operations' = operations
<1>1. /\ UNCHANGED input
      /\ \A s \in Requests \ {r} : pc'[s] = pc[s] /\ answer'[s] = answer[s]
      /\ Reached(r) /\ Reached(r)'
  BY DEF IInv, TypeOK, Handler, Goto, Reached, Lock, Enter, Exist, TakeId, Insert, Unlock,
         RLock, Lookup, RUnlock
<1>2. \A s \in Requests : Reached(s)' = Reached(s)
  BY <1>1 DEF Reached
<1>3. \A s \in Requests : OperationOf(input[s])' = OperationOf(input[s])
  BY <1>1 DEF OperationOf, ProfileLogin, ReadsLogin, Name, Status, Rules, Code
<1>4. operations' = operations
  BY <1>2, <1>3 DEF operations
<1> QED BY <1>1, <1>4

\* A step of a handler that changes its phase to f and, with it, its answer.
LEMMA HandlerMoves ==
  ASSUME IInv, NEW r \in Requests, Handler(r), NEW f, Phase(r)' = f
  PROVE  /\ phases' = [phases EXCEPT ![r] = f]
         /\ results' = [results EXCEPT ![r] = answer'[r]]
         /\ operations' = operations
<1>1. /\ \A s \in Requests \ {r} : pc'[s] = pc[s] /\ input'[s] = input[s] /\ answer'[s] = answer[s]
      /\ Reached(r)' /\ operations' = operations
  BY HandlerKeepsOperation
<1>2. (IF Reached(r) THEN answer[r] ELSE Absent)' = answer'[r]
  BY <1>1
<1> QED BY <1>1, <1>2, OthersKeep

LEMMA InitRefines == Init => Registry!Init
<1> SUFFICES ASSUME Init PROVE Registry!Init
  OBVIOUS
<1> USE UserApiAssumption DEF Init
<1>1. users = [l \in {Rvasily} |-> [id |-> 42, login |-> Rvasily, name |-> VasilyRomanov, status |-> 20]]
  BY DEF Code
<1>2. NextNumber = 43
  BY DEF NextNumber, Inserting
<1>3. phases = [r \in Requests |-> "idle"]
  BY DEF phases, Phase, Reached
<1>4. operations = [r \in Requests |-> Absent] /\ results = [r \in Requests |-> Absent]
  BY DEF operations, results, Reached
<1> QED BY <1>1, <1>2, <1>3, <1>4 DEF Registry!Init, NextNumber

LEMMA ReceiveRefines ==
  ASSUME IInv, NEW r \in Requests, NEW q \in Inputs[r], Receive(r, q)
  PROVE  \/ Registry!Call(r, OperationOf(q)) /\ OperationOf(q) \in Operations
         \/ UNCHANGED <<users, NextNumber, phases, operations, results>>
<1>0. q \in Input
  BY UserApiAssumption
<1>1. /\ \A s \in Requests \ {r} : answer'[s] = answer[s] /\ pc'[s] = pc[s] /\ input'[s] = input[s]
      /\ pc[r] = "idle" /\ input'[r] = q
      /\ UNCHANGED <<users, nextID>>
  BY ZenonT(30) DEF IInv, TypeOK, Receive, Goto, Reply, ServeHTTP, profile, create
<1>2. /\ phases[r] = "idle" /\ operations[r] = Absent /\ results[r] = Absent
      /\ answer[r] = Absent
  <2>1. answer[r] = Absent
    BY <1>1 DEF IInv, Answers
  <2> QED BY <1>1, <2>1 DEF phases, Phase, operations, results, Reached
<1>3. \E l \in {"answered", "lock", "rlock"} : Goto(r, l)
  BY DEF Receive, Reply, ServeHTTP, profile, create
<1>4. UNCHANGED NextNumber
  <2>1. Inserting' = Inserting
    BY <1>1, <1>3 DEF IInv, TypeOK, Inserting, Goto
  <2> QED BY <1>1, <2>1 DEF NextNumber
<1>5. CASE Goto(r, "answered")
  <2>1. pc'[r] = "answered"
    BY <1>5 DEF IInv, TypeOK, Goto
  <2>2. /\ Phase(r)' = "idle"
        /\ (IF Reached(r) THEN OperationOf(input[r]) ELSE Absent)' = Absent
        /\ (IF Reached(r) THEN answer[r] ELSE Absent)' = Absent
    BY <2>1 DEF Phase, Reached
  <2>3. /\ phases' = [phases EXCEPT ![r] = "idle"]
        /\ operations' = [operations EXCEPT ![r] = Absent]
        /\ results' = [results EXCEPT ![r] = Absent]
    BY <1>1, <2>2, OthersKeep
  <2>4. phases' = phases /\ operations' = operations /\ results' = results
    BY <1>2, <2>3 DEF phases, operations, results
  <2> QED BY <1>1, <1>4, <2>4
<1>6. CASE ~ Goto(r, "answered")
  <2>1. /\ pc'[r] \in {"lock", "rlock"} /\ answer'[r] = Absent
        /\ ToCreate(q) \/ ToProfile(q)
    BY <1>2, <1>6 DEF IInv, TypeOK, Receive, Reply, ServeHTTP, profile, create, Goto
  <2>2. /\ Phase(r)' = "called" /\ Reached(r)'
        /\ (IF Reached(r) THEN answer[r] ELSE Absent)' = Absent
    BY <2>1 DEF Phase, Reached
  <2>3. OperationOf(input[r])' = OperationOf(q)
    BY <1>1 DEF OperationOf, ProfileLogin, ReadsLogin, Name, Status, Rules, Code
  <2>4. (IF Reached(r) THEN OperationOf(input[r]) ELSE Absent)' = OperationOf(q)
    BY <2>2, <2>3
  <2>5. /\ phases' = [phases EXCEPT ![r] = "called"]
        /\ operations' = [operations EXCEPT ![r] = OperationOf(q)]
        /\ results' = [results EXCEPT ![r] = Absent]
    BY <1>1, <2>2, <2>4, OthersKeep
  <2>6. results' = results
    BY <1>2, <2>5 DEF results
  <2>7. OperationOf(q) \in Operations
    <3>1. CASE ToCreate(q)
      BY <1>0, <3>1, CreateHasFields DEF OperationOf, Operations, ToCreate, CreatePath, ProfilePath
    <3>2. CASE ToProfile(q)
      BY <1>0, <3>2 DEF OperationOf, Operations, ToProfile, ProfileLogin, Input
    <3> QED BY <2>1, <3>1, <3>2
  <2> QED BY <1>1, <1>2, <1>4, <2>5, <2>6, <2>7 DEF Registry!Call, NextNumber
<1> QED BY <1>5, <1>6

\* What a request past its checks asks of the registry.
LEMMA OperationFields ==
  ASSUME IInv, NEW r \in Requests
  PROVE  /\ pc[r] \in {"check", "insert"} =>
              operations[r] = [kind |-> "create", login |-> input[r].login,
                               name |-> Name(input[r]), status |-> Code[Status(input[r])]]
         /\ pc[r] = "lookup" =>
              operations[r] = [kind |-> "lookup", login |-> ProfileLogin(input[r])]
<1>1. CASE pc[r] \in {"check", "insert"}
  <2>1. ToCreate(input[r])
    BY <1>1 DEF IInv, Checked, Writing
  <2> QED BY <1>1, <2>1 DEF operations, Reached, OperationOf, ToCreate, CreatePath, ProfilePath
<1>2. CASE pc[r] = "lookup"
  <2>1. ToProfile(input[r])
    BY <1>2 DEF IInv, Checked, Reading
  <2> QED BY <1>2, <2>1 DEF operations, Reached, OperationOf, ToProfile
<1> QED BY <1>1, <1>2

LEMMA PhaseOf ==
  ASSUME NEW r \in Requests
  PROVE  /\ pc[r] \in {"lock", "locking", "check", "insert", "rlock", "lookup"} =>
              phases[r] = "called"
         /\ pc[r] \in {"unlock", "runlock"} => phases[r] = "effected"
         /\ pc[r] = "done" => phases[r] = "returned"
BY DEF phases, Phase, Reached

\* Taking and waiting for the lock, and taking a number, is invisible.
LEMMA QuietSteps ==
  ASSUME IInv, NEW r \in Requests, Lock(r) \/ Enter(r) \/ TakeId(r) \/ RLock(r)
  PROVE  UNCHANGED <<users, NextNumber, phases, operations, results>>
<1>0. Handler(r)
  BY DEF Handler
<1>1. /\ pc[r] \in {"lock", "locking", "check", "rlock"} /\ UNCHANGED <<users, answer>>
      /\ pc'[r] \in {"locking", "check", "insert", "lookup"}
  BY DEF IInv, TypeOK, Lock, Enter, TakeId, RLock, Goto
<1>2. Phase(r)' = "called"
  BY <1>1 DEF Phase, Reached
<1>3. phases' = phases /\ operations' = operations /\ results' = results
  <2>1. /\ phases' = [phases EXCEPT ![r] = "called"]
        /\ results' = [results EXCEPT ![r] = answer'[r]]
        /\ operations' = operations
    BY <1>0, <1>2, HandlerMoves
  <2>2. phases[r] = "called" /\ results[r] = answer[r]
    BY <1>1, PhaseOf DEF results, Reached
  <2> QED BY <1>1, <2>1, <2>2 DEF phases, results
<1>4. UNCHANGED NextNumber
  <2>1. CASE TakeId(r)
    <3>1. ~ Inserting /\ Inserting' /\ nextID' = nextID + 1
      BY <2>1 DEF IInv, TypeOK, Locks, Writing, Inserting, TakeId, Goto
    <3> QED BY <3>1 DEF NextNumber, IInv, TypeOK
  <2>2. CASE Lock(r) \/ Enter(r) \/ RLock(r)
    <3>1. Inserting' = Inserting /\ nextID' = nextID
      BY <2>2 DEF IInv, TypeOK, Inserting, Lock, Enter, RLock, Goto
    <3> QED BY <3>1 DEF NextNumber
  <2> QED BY <2>1, <2>2
<1> QED BY <1>1, <1>3, <1>4

LEMMA InsertRefines ==
  ASSUME IInv, NEW r \in Requests, Insert(r)
  PROVE  Registry!Create(r)
<1>1. /\ pc[r] = "insert" /\ pc'[r] = "unlock"
      /\ answer'[r] = [status |-> 200, id |-> number[r]] /\ UNCHANGED nextID
  BY DEF IInv, TypeOK, Insert, Goto
<1>2. /\ Inserting /\ ~ Inserting'
      /\ number[r] = nextID - 1 /\ input[r].login \notin DOMAIN users
  BY <1>1 DEF IInv, TypeOK, Locks, Writing, Fresh, Inserting, Insert, Goto
<1>3. NextNumber = number[r] /\ NextNumber' = NextNumber + 1
  BY <1>1, <1>2 DEF NextNumber, IInv, TypeOK
<1>4. /\ phases' = [phases EXCEPT ![r] = "effected"]
      /\ results' = [results EXCEPT ![r] = answer'[r]]
      /\ operations' = operations
  BY <1>1, HandlerMoves DEF Phase, Reached, Handler
<1>5. /\ phases[r] = "called"
      /\ operations[r] = [kind |-> "create", login |-> input[r].login,
                          name |-> Name(input[r]), status |-> Code[Status(input[r])]]
  BY <1>1, PhaseOf, OperationFields
<1>6. NewUser(r) = Registry!Account(operations[r], NextNumber)
  BY <1>3, <1>5 DEF NewUser, Registry!Account
<1>7. users' = [l \in DOMAIN users \cup {operations[r].login} |->
                  IF l = operations[r].login THEN Registry!Account(operations[r], NextNumber)
                                             ELSE users[l]]
  BY <1>5, <1>6 DEF Insert
<1>8. /\ operations[r].kind = "create" /\ operations[r].login = input[r].login
      /\ answer'[r] = [status |-> 200, id |-> NextNumber]
  BY <1>1, <1>3, <1>5
<1> HIDE DEF NextNumber
<1>9. Registry!Ready(r, "create") /\ ~ Registry!Exists(operations[r].login)
  BY <1>2, <1>5, <1>8 DEF Registry!Ready, Registry!Exists
<1>10. /\ phases' = [phases EXCEPT ![r] = "effected"] /\ operations' = operations
       /\ results' = [results EXCEPT ![r] = [status |-> 200, id |-> NextNumber]]
  BY <1>4, <1>8
<1> QED BY <1>3, <1>7, <1>9, <1>10
        DEF Registry!Create, Registry!Ready, Registry!TakesEffect, Registry!Exists, NextNumber

LEMMA ExistRefines ==
  ASSUME IInv, NEW r \in Requests, Exist(r)
  PROVE  Registry!Refuse(r)
<1>1. /\ pc[r] = "check" /\ pc'[r] = "unlock" /\ answer'[r] = Conflict
      /\ UNCHANGED <<users, nextID>> /\ input[r].login \in DOMAIN users
  BY DEF IInv, TypeOK, Exist, Goto
<1>2. UNCHANGED NextNumber
  <2>1. Inserting' = Inserting
    BY <1>1 DEF IInv, TypeOK, Inserting, Exist, Goto
  <2> QED BY <1>1, <2>1 DEF NextNumber
<1>3. /\ phases' = [phases EXCEPT ![r] = "effected"]
      /\ results' = [results EXCEPT ![r] = Conflict]
      /\ operations' = operations
  BY <1>1, HandlerMoves DEF Phase, Reached, Handler
<1>4. /\ phases[r] = "called" /\ operations[r].kind = "create"
      /\ operations[r].login = input[r].login
  <2>1. operations[r] = [kind |-> "create", login |-> input[r].login,
                         name |-> Name(input[r]), status |-> Code[Status(input[r])]]
    BY <1>1, OperationFields
  <2> QED BY ONLY <1>1, <2>1, PhaseOf, r \in Requests
<1> QED BY <1>1, <1>2, <1>3, <1>4
        DEF Registry!Refuse, Registry!Ready, Registry!TakesEffect, Registry!Exists, NextNumber

LEMMA LookupRefines ==
  ASSUME IInv, NEW r \in Requests, Lookup(r)
  PROVE  Registry!Find(r) \/ Registry!Miss(r)
<1> DEFINE l == ProfileLogin(input[r])
<1>1. /\ pc[r] = "lookup" /\ pc'[r] = "runlock" /\ UNCHANGED <<users, nextID>>
      /\ answer'[r] = IF l \in DOMAIN users THEN [status |-> 200, user |-> users[l]]
                                            ELSE NotFound
  BY DEF IInv, TypeOK, Lookup, Goto
<1>2. UNCHANGED NextNumber
  <2>1. Inserting' = Inserting
    BY <1>1 DEF IInv, TypeOK, Inserting, Lookup, Goto
  <2> QED BY <1>1, <2>1 DEF NextNumber
<1>3. /\ phases' = [phases EXCEPT ![r] = "effected"]
      /\ results' = [results EXCEPT ![r] = answer'[r]]
      /\ operations' = operations
  BY <1>1, HandlerMoves DEF Phase, Reached, Handler
<1>4. phases[r] = "called" /\ operations[r].kind = "lookup" /\ operations[r].login = l
  <2>1. operations[r] = [kind |-> "lookup", login |-> l]
    BY <1>1, OperationFields
  <2> QED BY ONLY <1>1, <2>1, PhaseOf, r \in Requests
<1> HIDE DEF l
<1>5. CASE l \in DOMAIN users
  BY <1>1, <1>2, <1>3, <1>4, <1>5
     DEF Registry!Find, Registry!Ready, Registry!TakesEffect, Registry!Exists, NextNumber
<1>6. CASE l \notin DOMAIN users
  BY <1>1, <1>2, <1>3, <1>4, <1>6
     DEF Registry!Miss, Registry!Ready, Registry!TakesEffect, Registry!Exists, NextNumber
<1> QED BY <1>5, <1>6

LEMMA UnlocksRefine ==
  ASSUME IInv, NEW r \in Requests, Unlock(r) \/ RUnlock(r)
  PROVE  Registry!Return(r)
<1>1. /\ pc[r] \in {"unlock", "runlock"} /\ pc'[r] = "done"
      /\ UNCHANGED <<answer, users, nextID>>
  BY DEF IInv, TypeOK, Unlock, RUnlock, Goto
<1>2. UNCHANGED NextNumber
  <2>1. Inserting' = Inserting
    BY <1>1 DEF IInv, TypeOK, Inserting, Unlock, RUnlock, Goto
  <2> QED BY <1>1, <2>1 DEF NextNumber
<1>3. /\ phases' = [phases EXCEPT ![r] = "returned"]
      /\ results' = [results EXCEPT ![r] = answer'[r]]
      /\ operations' = operations
  BY <1>1, HandlerMoves DEF Phase, Reached, Handler
<1>4. phases[r] = "effected" /\ results[r] = answer[r]
  BY <1>1, PhaseOf DEF results, Reached
<1>5. results' = results
  BY <1>1, <1>3, <1>4 DEF results
<1> QED BY <1>1, <1>2, <1>3, <1>4, <1>5 DEF Registry!Return, NextNumber

\* Every Create and Profile of MyApi takes effect at one instant between its
\* request and its answer, as AtomicRegistry says.
THEOREM RegistryRefinement == Spec => IsAtomicRegistry
<1>1. Init => Registry!Init
  BY InitRefines
<1>2. IInv /\ [Next]_vars => [Registry!Next]_(Registry!vars)
  <2> SUFFICES ASSUME IInv, [Next]_vars
               PROVE  Registry!Next \/ UNCHANGED <<users, NextNumber, phases, operations, results>>
    BY DEF Registry!vars, NextNumber
  <2>1. ASSUME NEW r \in Requests, NEW q \in Inputs[r], Receive(r, q)
        PROVE  Registry!Next \/ UNCHANGED <<users, NextNumber, phases, operations, results>>
    BY <2>1, ReceiveRefines DEF Registry!Next
  <2>2. ASSUME NEW r \in Requests, Handler(r)
        PROVE  Registry!Next \/ UNCHANGED <<users, NextNumber, phases, operations, results>>
    <3>1. CASE Lock(r) \/ Enter(r) \/ TakeId(r) \/ RLock(r)
      BY <3>1, QuietSteps
    <3>2. CASE Insert(r)
      BY <3>2, InsertRefines DEF Registry!Next
    <3>3. CASE Exist(r)
      BY <3>3, ExistRefines DEF Registry!Next
    <3>4. CASE Lookup(r)
      BY <3>4, LookupRefines DEF Registry!Next
    <3>5. CASE Unlock(r) \/ RUnlock(r)
      BY <3>5, UnlocksRefine DEF Registry!Next
    <3> QED BY <2>2, <3>1, <3>2, <3>3, <3>4, <3>5 DEF Handler
  <2>3. CASE UNCHANGED vars
    <3>1. UNCHANGED <<phases, operations, results>>
      BY <2>3 DEF vars, phases, Phase, operations, OperationOf, ProfileLogin, ReadsLogin, Name,
                  Status, Rules, Code, results, Reached
    <3> QED BY <2>3, <3>1 DEF vars, NextNumber, Inserting
  <2> QED BY <2>1, <2>2, <2>3 DEF Next
<1> QED BY <1>1, <1>2, Invariance, PTL DEF Spec, IsAtomicRegistry, Registry!Spec
=============================================================================
