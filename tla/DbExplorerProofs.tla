-------------------------- MODULE DbExplorerProofs --------------------------
(***************************************************************************)
(* Theorems about DbExplorer, for any schema, any coercion of values by    *)
(* the database and any requests.                                          *)
(***************************************************************************)
EXTENDS DbExplorer, FiniteSetTheorems, TLAPS

Step(r) == (\E q \in Inputs[r] : Receive(r, q)) \/ Execute(r)

\* A step of r leaves the other requests alone
OnlyOf(r) ==
  /\ phase[r] # "answered"
  /\ \A s \in Requests \ {r} :
       phase'[s] = phase[s] /\ request'[s] = request[s] /\ answer'[s] = answer[s]

-----------------------------------------------------------------------------
(* Types.                                                                  *)

LEMMA Input == \A r \in Requests : \A q \in Inputs[r] : IsInput(q)
  BY DbAssumption

\* What Reply and Goto do to the two variables they change
LEMMA Replies ==
  ASSUME TypeOK, NEW r \in Requests, NEW a, Reply(r, a)
  PROVE  /\ phase' \in [Requests -> {"idle", "execute", "answered"}]
         /\ DOMAIN answer' = Requests
         /\ phase'[r] = "answered" /\ answer'[r] = a
         /\ \A s \in Requests \ {r} : phase'[s] = phase[s] /\ answer'[s] = answer[s]
  BY DEF Reply, TypeOK

IsAnswer(a) == a = Answer(a.status, a.result)

LEMMA Fields ==
  \A status, result :
    /\ Answer(status, result).status = status /\ Answer(status, result).result = result
    /\ IsAnswer(Answer(status, result))
  BY DEF Answer, IsAnswer

LEMMA Moves ==
  ASSUME TypeOK, NEW r \in Requests, Goto(r, "execute")
  PROVE  /\ phase' \in [Requests -> {"idle", "execute", "answered"}]
         /\ DOMAIN answer' = Requests
         /\ phase'[r] = "execute" /\ answer'[r] = answer[r]
         /\ \A s \in Requests \ {r} : phase'[s] = phase[s] /\ answer'[s] = answer[s]
  BY DEF Goto, TypeOK

\* Receive answers with an error, or "no body" or the tables for a GET or HEAD, or
\* goes on to the statement of a validated request.
LEMMA Received ==
  ASSUME TypeOK, NEW r \in Requests, NEW q \in Inputs[r], Receive(r, q)
  PROVE  /\ OnlyOf(r) /\ request'[r] = q /\ DOMAIN request' = Requests
         /\ phase' \in [Requests -> {"idle", "execute", "answered"}]
         /\ DOMAIN answer' = Requests
         /\ UNCHANGED <<rows, nextKey>>
         /\ \/ /\ phase'[r] = "answered"
               /\ IsAnswer(answer'[r])
               /\ answer'[r].status = 200 => q.method \in {"GET", "HEAD"}
            \/ /\ phase'[r] = "execute" /\ Table(q) \in Tables
               /\ q.method = "POST" => Invalid(Table(q), q.body) = {}
               /\ q.method \in {"POST", "DELETE"} => Len(q.path) > 1
  <1>1. /\ phase[r] = "idle" /\ request' = [request EXCEPT ![r] = q]
        /\ UNCHANGED <<rows, nextKey>>
    BY DEF Receive
  <1>2. /\ request'[r] = q /\ DOMAIN request' = Requests
        /\ \A s \in Requests \ {r} : request'[s] = request[s]
    BY <1>1 DEF TypeOK
  <1> DEFINE Fine(a) == IsAnswer(a) /\ (a.status = 200 => q.method \in {"GET", "HEAD"})
  <1> DEFINE Refuses == \E a : Reply(r, a) /\ Fine(a)
  <1> DEFINE GoesOn == /\ Goto(r, "execute") /\ Table(q) \in Tables
                       /\ q.method = "POST" => Invalid(Table(q), q.body) = {}
                       /\ q.method \in {"POST", "DELETE"} => Len(q.path) > 1
  <1>3. Refuses \/ GoesOn
    <2>a. Fine(Aborted) /\ Fine(UnknownTable)
      BY Fields, 0 # 200, 404 # 200 DEF Aborted, UnknownTable
    <2>b. q.method \in {"GET", "HEAD"} => Fine(Nothing) /\ Fine(Answer(200, Tables))
      BY Fields DEF Nothing
    <2>c. \A result : Fine(Answer(400, result))
      BY Fields, 400 # 200
    <2> HIDE DEF Fine
    <2>1. CASE getHandler(r, q)
      <3>1. CASE Goto(r, "execute") /\ Table(q) \in Tables
        BY <3>1, <2>1 DEF getHandler
      <3>2. QED BY <3>1, <2>a, <2>b, <2>1 DEF getHandler
    <2>2. CASE deleteHandler(r, q)
      <3>1. CASE Goto(r, "execute") /\ Table(q) \in Tables /\ Len(q.path) > 1
        BY <3>1, <2>2 DEF deleteHandler
      <3>2. QED BY <3>1, <2>a, <2>2 DEF deleteHandler
    <2>3. CASE postHandler(r, q)
      <3>1. CASE /\ Goto(r, "execute") /\ Table(q) \in Tables /\ Len(q.path) > 1
                 /\ Invalid(Table(q), q.body) = {}
        BY <3>1
      <3>2. QED BY <3>1, <2>a, <2>c, <2>3 DEF postHandler
    <2>4. CASE putHandler(r, q)
      <3>1. CASE Goto(r, "execute") /\ Table(q) \in Tables
        BY <3>1, <2>4 DEF putHandler
      <3>2. QED BY <3>1, <2>a, <2>4 DEF putHandler
    <2>5. CASE otherMethod(r, q)
      BY <2>5, <2>b DEF otherMethod
    <2>6. QED BY <2>1, <2>2, <2>3, <2>4, <2>5 DEF Receive
  <1>4. CASE Refuses
    <2>1. PICK a : Reply(r, a) /\ Fine(a)
      BY <1>4
    <2>2. QED BY <2>1, <1>1, <1>2, Replies DEF OnlyOf
  <1>5. CASE GoesOn
    BY <1>5, <1>1, <1>2, Moves DEF OnlyOf
  <1>6. QED BY <1>3, <1>4, <1>5

\* Execute answers, and changes the database by an insert, an update or a delete
LEMMA Executed ==
  ASSUME TypeOK, NEW r \in Requests, Execute(r)
  PROVE  /\ OnlyOf(r) /\ request' = request /\ phase[r] = "execute"
         /\ phase' \in [Requests -> {"idle", "execute", "answered"}]
         /\ DOMAIN answer' = Requests /\ phase'[r] = "answered"
         /\ IsAnswer(answer'[r])
  <1>1. \E a : Reply(r, a) /\ IsAnswer(a)
    <2>a. IsAnswer(Failed) /\ \A status, result : IsAnswer(Answer(status, result))
      BY Fields DEF Failed
    <2>1. CASE getRows(r)
      BY <2>1, <2>a DEF getRows
    <2>2. CASE getRow(r)
      BY <2>2, <2>a DEF getRow
    <2>3. CASE insertRow(r)
      BY <2>3, <2>a DEF insertRow
    <2>4. CASE updateRow(r)
      BY <2>4, <2>a DEF updateRow
    <2>5. CASE deleteRow(r)
      BY <2>5, <2>a DEF deleteRow
    <2>6. QED BY <2>1, <2>2, <2>3, <2>4, <2>5 DEF Execute
  <1>2. phase[r] = "execute" /\ request' = request
    BY DEF Execute, getRows, getRow, insertRow, updateRow, deleteRow, Running
  <1>3. QED BY <1>1, <1>2, Replies DEF OnlyOf

-----------------------------------------------------------------------------
(* Histories: what has been answered stays so, and one step adds the       *)
(* answer of one request.                                                  *)

LEMMA OthersKeep ==
  ASSUME NEW r \in Requests, OnlyOf(r), NEW s \in Requests, NEW m
  PROVE  /\ Answered(s, m) => s # r /\ Answered(s, m)'
         /\ s # r => (Answered(s, m)' <=> Answered(s, m))
         /\ Answered(s, m) => request'[s] = request[s] /\ answer'[s] = answer[s]
         /\ s # r /\ Answered(s, m)' => request'[s] = request[s] /\ answer'[s] = answer[s]
  BY DEF OnlyOf, Answered

LEMMA InsertedKeeps ==
  ASSUME NEW r \in Requests, OnlyOf(r), NEW s \in Requests, NEW t, NEW k
  PROVE  /\ Inserted(s, t, k) => s # r /\ Inserted(s, t, k)'
         /\ s # r => (Inserted(s, t, k)' <=> Inserted(s, t, k))
  BY OthersKeep DEF Inserted, Table

LEMMA TouchedKeeps ==
  ASSUME NEW r \in Requests, OnlyOf(r), NEW s \in Requests, NEW m, NEW t, NEW k
  PROVE  /\ Touched(s, m, t, k) => s # r /\ Touched(s, m, t, k)'
         /\ s # r => (Touched(s, m, t, k)' <=> Touched(s, m, t, k))
  BY OthersKeep DEF Touched, Table, Key

LEMMA GivenIs ==
  ASSUME NEW t, NEW k
  PROVE  k \in Given(t) <=> k \in DOMAIN InitialRows[t] \/ \E s \in Requests : Inserted(s, t, k)
  BY DEF Given, Inserted

LEMMA GivenIsPrimed ==
  ASSUME NEW t, NEW k
  PROVE  (k \in Given(t))' <=>
           k \in DOMAIN InitialRows[t] \/ \E s \in Requests : Inserted(s, t, k)'
  BY DEF Given, Inserted

LEMMA GivenGrows ==
  ASSUME NEW r \in Requests, OnlyOf(r), NEW t, NEW k
  PROVE  (k \in Given(t))' <=> k \in Given(t) \/ Inserted(r, t, k)'
  BY GivenIs, GivenIsPrimed, InsertedKeeps

LEMMA StemsKeep ==
  ASSUME NEW r \in Requests, OnlyOf(r), NEW t, NEW k, NEW c, NEW v, Stems(t, k, c, v)
  PROVE  Stems(t, k, c, v)'
  <1>1. CASE k \in DOMAIN InitialRows[t] /\ v = InitialRows[t][k][c]
    BY <1>1 DEF Stems
  <1>2. CASE \E s \in Requests : Inserted(s, t, k) /\ v = Sent(t, c, request[s].body)
    <2>1. PICK s \in Requests : Inserted(s, t, k) /\ v = Sent(t, c, request[s].body)
      BY <1>2
    <2>2. Inserted(s, t, k)' /\ request'[s] = request[s]
      BY <2>1, InsertedKeeps DEF OnlyOf
    <2>3. QED BY <2>1, <2>2 DEF Stems
  <1>3. CASE \E s \in Requests : Touched(s, "POST", t, k) /\ c \in DOMAIN request[s].body
               /\ \E d \in DOMAIN request[s].body : v = Put(t, c, request[s].body[d])
    <2>1. PICK s \in Requests : /\ Touched(s, "POST", t, k) /\ c \in DOMAIN request[s].body
                      /\ \E d \in DOMAIN request[s].body : v = Put(t, c, request[s].body[d])
      BY <1>3
    <2>2. Touched(s, "POST", t, k)' /\ request'[s] = request[s]
      BY <2>1, TouchedKeeps DEF OnlyOf
    <2>3. QED BY <2>1, <2>2 DEF Stems
  <1>4. QED BY <1>1, <1>2, <1>3 DEF Stems

\* EveryKeyIsAccountedFor, for one table
Accounts(t) ==
  /\ \A k : k \in DOMAIN rows[t] <=>
       k \in Given(t) /\ ~ \E s \in Requests : Touched(s, "DELETE", t, k)
  /\ \A s \in Requests : \A k :
       Inserted(s, t, k) => k \notin DOMAIN InitialRows[t]
  /\ \A p, s \in Requests : \A k : Inserted(p, t, k) /\ Inserted(s, t, k) => p = s
  /\ \A p, s \in Requests : \A k :
       Touched(p, "DELETE", t, k) /\ Touched(s, "DELETE", t, k) => p = s
  /\ \A s \in Requests : \A k : Touched(s, "DELETE", t, k) => k \in Given(t)

LEMMA AccountsAre == EveryKeyIsAccountedFor <=> \A t \in Tables : Accounts(t)
  <1>1. \A t : \A s \in Requests : \A k : Inserted(s, t, k) => k \in Given(t)
    BY GivenIs
  <1>2. \A s \in Requests : \A t, k : Touched(s, "DELETE", t, k) => k = Key(request[s])
    BY DEF Touched
  <1>3. QED BY <1>1, <1>2 DEF EveryKeyIsAccountedFor, Accounts

LEMMA AccountsArePrimed == EveryKeyIsAccountedFor' <=> \A t \in Tables : Accounts(t)'
  <1>1. \A t : \A s \in Requests : \A k : Inserted(s, t, k)' => (k \in Given(t))'
    BY GivenIsPrimed
  <1>2. \A s \in Requests : \A t, k : Touched(s, "DELETE", t, k)' => k = Key(request[s])'
    BY DEF Touched
  <1>3. QED BY <1>1, <1>2 DEF EveryKeyIsAccountedFor, Accounts

-----------------------------------------------------------------------------
(* Steps that leave the database alone.                                    *)

\* The step of r reports no insert and no delete
Silent(r) ==
  \A t, k : ~ Inserted(r, t, k)' /\ ~ Touched(r, "DELETE", t, k)'

LEMMA Quiet ==
  ASSUME IInv, NEW r \in Requests, OnlyOf(r), Silent(r), UNCHANGED <<rows, nextKey>>
  PROVE  (RowsConform /\ GivenAreOld /\ EveryKeyIsAccountedFor /\ ValuesStemFromRequests)'
  <1>1. RowsConform'
    BY DEF IInv, RowsConform
  <1>2. \A t, k : (k \in Given(t))' <=> k \in Given(t)
    BY GivenGrows DEF Silent
  <1>3. \A s \in Requests : \A t, k :
          /\ Inserted(s, t, k)' <=> Inserted(s, t, k)
          /\ Touched(s, "DELETE", t, k)' <=> Touched(s, "DELETE", t, k)
    BY InsertedKeeps, TouchedKeeps DEF Silent
  <1>4. GivenAreOld'
    BY <1>2 DEF IInv, GivenAreOld
  <1>5. \A t : Accounts(t) => Accounts(t)'
    BY <1>2, <1>3 DEF Accounts
  <1>6. EveryKeyIsAccountedFor'
    BY <1>5, AccountsAre, AccountsArePrimed DEF IInv
  <1>7. ValuesStemFromRequests'
    BY StemsKeep DEF IInv, ValuesStemFromRequests
  <1>8. QED BY <1>1, <1>4, <1>6, <1>7

-----------------------------------------------------------------------------
(* Rows.                                                                   *)

LEMMA PutTyped ==
  ASSUME NEW t \in Tables, NEW c \in Columns(t), NEW v \in Values \cup {Null},
         Put(t, c, v) # Rejected
  PROVE  \/ Put(t, c, v) = Null /\ ~ Required[t][c]
         \/ Put(t, c, v) # Null /\ Put(t, c, v) \in Holds(Type[t][c])
  <1>1. Type[t][c] \in Types /\ Required[t][c] \in BOOLEAN
    BY DbAssumption
  <1>2. CASE v = Null
    BY <1>1, <1>2 DEF Put
  <1>3. CASE v # Null
    <2>1. Stored[Type[t][c]][v] \in Holds(Type[t][c]) \cup {Rejected}
      BY <1>1, <1>3, DbAssumption
    <2>2. Null \notin Holds(Type[t][c])
      BY DbAssumption DEF Holds, Values
    <2>3. QED BY <1>3, <2>1, <2>2 DEF Put
  <1>4. QED BY <1>2, <1>3

LEMMA BodyTyped ==
  ASSUME NEW r \in Requests, NEW q \in Inputs[r], NEW c \in DOMAIN q.body
  PROVE  q.body[c] \in Values \cup {Null}
  BY Input DEF IsInput

\* What insertRow writes has the key that is next, and all that was sent
LEMMA RowInserted ==
  ASSUME NEW t \in Tables, NEW r \in Requests, NEW q \in Inputs[r],
         IsAccepted(t, RowOf(t, prepareInsertParameters(t, q.body)))
  PROVE  LET row == RowOf(t, prepareInsertParameters(t, q.body))
         IN  /\ row[Id[t]] = nextKey[t] /\ DOMAIN row = Columns(t)
             /\ \A c \in Columns(t) \ {Id[t]} :
                  /\ row[c] = Sent(t, c, q.body)
                  /\ \/ row[c] = Null /\ ~ Required[t][c]
                     \/ row[c] # Null /\ row[c] \in Holds(Type[t][c])
  <1> DEFINE p == prepareInsertParameters(t, q.body)
  <1> DEFINE row == RowOf(t, p)
  <1>1. Id[t] \in Columns(t)
    BY DbAssumption
  <1>2. row[Id[t]] = nextKey[t] /\ DOMAIN row = Columns(t)
    BY <1>1 DEF RowOf, prepareInsertParameters
  <1>3. ASSUME NEW c \in Columns(t) \ {Id[t]}
        PROVE  /\ row[c] = Sent(t, c, q.body)
               /\ \/ row[c] = Null /\ ~ Required[t][c]
                  \/ row[c] # Null /\ row[c] \in Holds(Type[t][c])
    <2>1. row[c] = Put(t, c, p[c]) /\ row[c] # Rejected
      BY DEF RowOf, IsAccepted
    <2>2. Type[t][c] \in Types /\ Required[t][c] \in BOOLEAN
      BY DbAssumption
    <2>3. CASE c \in DOMAIN q.body /\ q.body[c] # Null
      <3>1. p[c] = q.body[c]
        BY <2>3 DEF prepareInsertParameters
      <3>2. p[c] \in Values \cup {Null} /\ row[c] = Sent(t, c, q.body)
        BY <3>1, <2>1, <2>3, BodyTyped DEF Put, Sent
      <3>3. QED BY <3>2, <2>1, PutTyped
    <2>4. CASE ~ (c \in DOMAIN q.body /\ q.body[c] # Null) /\ ~ Required[t][c]
      <3>1. p[c] = Null
        BY <2>4 DEF prepareInsertParameters
      <3>2. QED BY <3>1, <2>1, <2>4 DEF Put, Sent
    <2>5. CASE ~ (c \in DOMAIN q.body /\ q.body[c] # Null) /\ Required[t][c]
      <3>1. p[c] = getDefaultValue(t, c)
        BY <2>5 DEF prepareInsertParameters
      <3>2. CASE Type[t][c] \in {"varchar", "text"}
        <4>1. p[c] = Empty /\ Empty \in Values /\ Empty # Null
          BY <3>1, <3>2, DbAssumption DEF getDefaultValue, Values
        <4>2. row[c] = Empty
          BY <4>1, <2>1, <2>2, <3>2, DbAssumption DEF Put
        <4>3. QED BY <4>1, <4>2, <2>1, <2>5, <3>2, PutTyped DEF Sent
      <3>3. CASE Type[t][c] = "int"
        <4>1. p[c] = 0 /\ 0 \in Values /\ 0 # Null
          BY <3>1, <3>3, DbAssumption DEF getDefaultValue, Values
        <4>2. row[c] = 0
          BY <4>1, <2>1, <2>2, <3>3, DbAssumption DEF Put
        <4>3. QED BY <4>1, <4>2, <2>1, <2>5, <3>3, PutTyped DEF Sent
      <3>4. CASE Type[t][c] = "other"
        BY <3>1, <3>4, <2>1, <2>5 DEF getDefaultValue, Put
      <3>5. QED BY <3>2, <3>3, <3>4, <2>2 DEF Types
    <2>6. QED BY <2>3, <2>4, <2>5
  <1>4. QED BY <1>2, <1>3

LEMMA Written ==
  ASSUME TypeOK, NEW t \in Tables, NEW k, NEW row, row[Id[t]] = k, Write(t, k, row)
  PROVE  /\ DOMAIN rows' = Tables
         /\ \A u \in Tables \ {t} : rows'[u] = rows[u]
         /\ \A i : i \in DOMAIN rows'[t] <=> i \in DOMAIN rows[t] \/ i = k
         /\ rows'[t][k] = row
         /\ \A i \in DOMAIN rows[t] \ {k} : rows'[t][i] = rows[t][i]
  BY DEF Write, TypeOK

\* updateRow writes the columns that were sent only, and not the key
LEMMA RowUpdated ==
  ASSUME IInv, NEW r \in Requests, phase[r] = "execute", request[r].method = "POST",
         NEW order \in Orders(request[r].body),
         Key(request[r]) \in DOMAIN rows[Table(request[r])],
         IsAccepted(Table(request[r]),
                    Updated(Table(request[r]), Key(request[r]), request[r].body, order))
  PROVE  LET q == request[r]
             t == Table(q)
             k == Key(q)
             row == Updated(t, k, q.body, order)
         IN  /\ t \in Tables /\ row[Id[t]] = k /\ IsRow(t, k, row)
             /\ \A c \in Columns(t) :
                  \/ row[c] = rows[t][k][c]
                  \/ /\ c \in DOMAIN q.body /\ c # Id[t]
                     /\ \E d \in DOMAIN q.body : row[c] = Put(t, c, q.body[d])
  <1> DEFINE q == request[r]
  <1> DEFINE t == Table(q)
  <1> DEFINE k == Key(q)
  <1> DEFINE row == Updated(t, k, q.body, order)
  <1>1. t \in Tables /\ q \in Inputs[r] /\ Id[t] \in Columns(t)
    BY DbAssumption DEF IInv, TypeOK
  <1>2. Id[t] \notin DOMAIN q.body
    <2>1. PICK i \in DOMAIN FieldOrdered[t] : FieldOrdered[t][i] = Id[t]
      BY <1>1 DEF Columns
    <2>2. Invalid(t, q.body) = {}
      BY DEF IInv, Validated
    <2>3. QED BY <2>1, <2>2 DEF Invalid
  <1>3. IsRow(t, k, rows[t][k])
    BY <1>1 DEF IInv, RowsConform
  <1>4. row[Id[t]] = k /\ DOMAIN row = Columns(t)
    BY <1>1, <1>2, <1>3 DEF Updated, IsRow
  <1>5. ASSUME NEW c \in Columns(t)
        PROVE  /\ \/ row[c] = rows[t][k][c]
                  \/ /\ c \in DOMAIN q.body /\ c # Id[t]
                     /\ \E d \in DOMAIN q.body : row[c] = Put(t, c, q.body[d])
               /\ \/ row[c] = Null /\ ~ Required[t][c]
                  \/ row[c] # Null /\ row[c] \in Holds(Type[t][c])
    <2>1. CASE c \notin DOMAIN q.body
      BY <2>1, <1>3 DEF Updated, IsRow
    <2>2. CASE c \in DOMAIN q.body
      <3>1. order[c] \in DOMAIN q.body
        BY <2>2 DEF Orders, Bijection, Injection
      <3>2. row[c] = Put(t, c, q.body[order[c]]) /\ row[c] # Rejected
        BY <2>2 DEF Updated, IsAccepted
      <3>3. q.body[order[c]] \in Values \cup {Null}
        BY <3>1, <1>1, BodyTyped
      <3>4. \/ row[c] = Null /\ ~ Required[t][c]
            \/ row[c] # Null /\ row[c] \in Holds(Type[t][c])
        BY <3>2, <3>3, <1>1, PutTyped
      <3>5. QED BY <3>1, <3>2, <3>4, <1>2, <2>2
    <2>3. QED BY <2>1, <2>2
  <1>6. QED BY <1>1, <1>4, <1>5 DEF IsRow

-----------------------------------------------------------------------------
(* The invariant.                                                          *)

Safe == RowsConform /\ GivenAreOld /\ EveryKeyIsAccountedFor /\ ValuesStemFromRequests

LEMMA InitHolds == Init => IInv
  <1> SUFFICES ASSUME Init PROVE IInv
    OBVIOUS
  <1>1. TypeOK
    BY DbAssumption DEF Init, TypeOK
  <1>2. Validated
    BY DEF Init, Validated
  <1>3. RowsConform
    BY DbAssumption DEF Init, RowsConform
  <1>4. \A s \in Requests : \A m : ~ Answered(s, m)
    BY DEF Init, Answered
  <1>5. \A t, k : k \in Given(t) <=> k \in DOMAIN rows[t]
    BY <1>4, GivenIs DEF Init, Inserted
  <1>6. GivenAreOld
    BY <1>3, <1>5 DEF GivenAreOld, RowsConform
  <1>7. \A t \in Tables : Accounts(t)
    BY <1>4, <1>5 DEF Accounts, Inserted, Touched
  <1>8. ValuesStemFromRequests
    BY DEF Init, ValuesStemFromRequests, Stems
  <1>9. QED BY <1>1, <1>2, <1>3, <1>6, <1>7, <1>8, AccountsAre DEF IInv

\* A step keeps the types, and answers only what it may
LEMMA TypeStep ==
  ASSUME IInv, NEW r \in Requests, Step(r)
  PROVE  /\ OnlyOf(r) /\ Validated'
         /\ DOMAIN rows' = Tables /\ nextKey' \in [Tables -> Nat \ {0}] => TypeOK'
  <1>1. CASE \E q \in Inputs[r] : Receive(r, q)
    <2>1. PICK q \in Inputs[r] : Receive(r, q)
      BY <1>1
    <2>2. Validated'
      <3> SUFFICES ASSUME NEW s \in Requests, phase'[s] = "execute"
                   PROVE  /\ request'[s].method = "POST" =>
                               Invalid(Table(request'[s]), request'[s].body) = {}
                          /\ request'[s].method \in {"POST", "DELETE"} =>
                               Len(request'[s].path) > 1
        BY DEF Validated, Invalid, Table, validateField
      <3>1. CASE s = r
        BY <2>1, <3>1, Received DEF IInv
      <3>2. CASE s # r
        BY <2>1, <3>2, Received DEF IInv, Validated, OnlyOf
      <3>3. QED BY <3>1, <3>2
    <2>3. DOMAIN rows' = Tables /\ nextKey' \in [Tables -> Nat \ {0}] => TypeOK'
      BY <2>1, Received DEF IInv, TypeOK, OnlyOf, IsAnswer
    <2>4. QED BY <2>1, <2>2, <2>3, Received DEF IInv
  <1>2. CASE Execute(r)
    BY <1>2, Executed DEF IInv, TypeOK, Validated, OnlyOf, IsAnswer
  <1>3. QED BY <1>1, <1>2 DEF Step

LEMMA ReceiveSafe ==
  ASSUME IInv, NEW r \in Requests, NEW q \in Inputs[r], Receive(r, q)
  PROVE  Safe' /\ UNCHANGED <<rows, nextKey>>
  <1>1. OnlyOf(r) /\ UNCHANGED <<rows, nextKey>>
    BY Received DEF IInv
  <1>2. ~ Answered(r, "PUT")' /\ ~ Answered(r, "DELETE")'
    BY Received DEF IInv, Answered
  <1>3. Silent(r)
    BY <1>2 DEF Silent, Inserted, Touched
  <1>4. QED BY <1>1, <1>3, Quiet DEF Safe

\* A statement that is refused, and any GET, POST or DELETE that removes nothing
LEMMA ExecuteQuiet ==
  ASSUME IInv, NEW r \in Requests, Execute(r), UNCHANGED <<rows, nextKey>>,
         \/ answer'[r] = Failed
         \/ request[r].method \in {"GET", "POST"}
         \/ request[r].method = "DELETE" /\ answer'[r] = Answer(200, 0)
  PROVE  Safe'
  <1>1. OnlyOf(r) /\ request'[r] = request[r]
    BY Executed DEF IInv
  <1>2. Failed.status # 200 /\ Answer(200, 0).result # 1
    BY Fields, 500 # 200, 0 # 1 DEF Failed
  <1>3. Silent(r)
    BY <1>1, <1>2 DEF Silent, Inserted, Touched, Answered
  <1>4. QED BY <1>1, <1>3, Quiet DEF Safe

LEMMA InsertSafe ==
  ASSUME IInv, NEW r \in Requests, insertRow(r)
  PROVE  Safe' /\ DOMAIN rows' = Tables /\ nextKey' \in [Tables -> Nat \ {0}]
  <1> DEFINE q == request[r]
  <1> DEFINE t == Table(q)
  <1> DEFINE row == RowOf(t, prepareInsertParameters(t, q.body))
  <1> DEFINE key == nextKey[t]
  <1>0. TypeOK /\ Execute(r)
    BY DEF IInv, Execute
  <1>1. /\ OnlyOf(r) /\ request' = request /\ phase[r] = "execute" /\ q.method = "PUT"
        /\ t \in Tables /\ q \in Inputs[r] /\ key \in Nat \ {0}
    BY <1>0, Executed DEF insertRow, Running, TypeOK
  <1>2. Id[t] \in Columns(t)
    BY <1>1, DbAssumption
  <1>3. row[Id[t]] = key
    BY <1>2 DEF RowOf, prepareInsertParameters
  <1>4. CASE Reply(r, Failed) /\ UNCHANGED <<rows, nextKey>>
    <2>1. answer'[r] = Failed
      BY <1>0, <1>4, Replies
    <2>2. QED BY <1>0, <1>4, <2>1, ExecuteQuiet DEF TypeOK
  <1>5. CASE /\ IsAccepted(t, row) /\ key \notin DOMAIN rows[t]
             /\ Write(t, key, row) /\ Reply(r, Answer(200, key))
             /\ nextKey' = [nextKey EXCEPT ![t] = IF key < @ THEN @ ELSE key + 1]
    <2>1. /\ DOMAIN rows' = Tables
          /\ \A u \in Tables \ {t} : rows'[u] = rows[u]
          /\ \A i : i \in DOMAIN rows'[t] <=> i \in DOMAIN rows[t] \/ i = key
          /\ rows'[t][key] = row
          /\ \A i \in DOMAIN rows[t] \ {key} : rows'[t][i] = rows[t][i]
      BY <1>0, <1>1, <1>3, <1>5, Written
    <2>2. /\ nextKey'[t] = key + 1 /\ \A u \in Tables \ {t} : nextKey'[u] = nextKey[u]
          /\ nextKey' \in [Tables -> Nat \ {0}]
      BY <1>0, <1>1, <1>5 DEF TypeOK
    <2>3. IsRow(t, key, row) /\ \A c \in Columns(t) \ {Id[t]} : row[c] = Sent(t, c, q.body)
      <3>1. key # Null /\ key \in Holds(Type[t][Id[t]])
        BY <1>1, DbAssumption DEF Holds
      <3>2. QED BY <1>1, <1>2, <1>3, <1>5, <3>1, RowInserted DEF IsRow
    <2>4. RowsConform'
      BY <1>1, <2>1, <2>2, <2>3 DEF IInv, RowsConform
    <2>5. \A u, k : Inserted(r, u, k)' <=> u = t /\ k = key
      BY <1>0, <1>1, <1>5, Replies, Fields DEF Inserted, Answered, Table
    <2>6. \A u, k : ~ Touched(r, "DELETE", u, k)'
      BY <1>1 DEF Touched, Answered
    <2>7. \A u, k : (k \in Given(u))' <=> k \in Given(u) \/ (u = t /\ k = key)
      BY <1>1, <2>5, GivenGrows
    <2>8. key \notin Given(t)
      BY <1>1 DEF IInv, GivenAreOld
    <2>9. GivenAreOld'
      BY <1>1, <2>2, <2>7 DEF IInv, GivenAreOld
    <2>10. ASSUME NEW u \in Tables PROVE Accounts(u)'
      <3>1. Accounts(u)
        BY AccountsAre DEF IInv
      <3>2. \A s \in Requests : \A k :
              /\ Inserted(s, u, k)' <=> Inserted(s, u, k) \/ (s = r /\ u = t /\ k = key)
              /\ Touched(s, "DELETE", u, k)' <=> Touched(s, "DELETE", u, k)
        BY <1>1, <2>5, <2>6, InsertedKeeps, TouchedKeeps
      <3>3. \A k : k \in DOMAIN rows'[u] <=> k \in DOMAIN rows[u] \/ (u = t /\ k = key)
        BY <2>1
      <3>4. \A s \in Requests : u = t => ~ Inserted(s, u, key) /\ ~ Touched(s, "DELETE", u, key)
        BY <2>8, <3>1, GivenIs DEF Accounts
      <3>5. u = t => key \notin DOMAIN InitialRows[u]
        BY <2>8, GivenIs
      <3>6. QED BY <2>7, <3>1, <3>2, <3>3, <3>4, <3>5 DEF Accounts
    <2>11. ValuesStemFromRequests'
      <3> SUFFICES ASSUME NEW u \in Tables, NEW k, k \in DOMAIN rows'[u],
                          NEW c \in Columns(u) \ {Id[u]}, NEW v, v = rows'[u][k][c]
                   PROVE  Stems(u, k, c, v)'
        BY DEF ValuesStemFromRequests
      <3>1. CASE u = t /\ k = key
        <4>1. Inserted(r, u, k)' /\ v = Sent(u, c, request'[r].body)
          BY <1>1, <2>1, <2>3, <2>5, <3>1
        <4>2. QED BY <3>1, <4>1 DEF Stems
      <3>2. CASE ~ (u = t /\ k = key)
        <4>1. k \in DOMAIN rows[u] /\ rows'[u][k] = rows[u][k]
          BY <2>1, <3>2
        <4>2. QED BY <1>1, <4>1, StemsKeep DEF IInv, ValuesStemFromRequests
      <3>3. QED BY <3>1, <3>2
    <2>12. QED BY <2>1, <2>2, <2>4, <2>9, <2>10, <2>11, AccountsArePrimed DEF Safe
  <1>6. QED BY <1>3, <1>4, <1>5 DEF insertRow

LEMMA UpdateSafe ==
  ASSUME IInv, NEW r \in Requests, updateRow(r)
  PROVE  Safe' /\ DOMAIN rows' = Tables /\ UNCHANGED nextKey
  <1> DEFINE q == request[r]
  <1> DEFINE t == Table(q)
  <1> DEFINE k == Key(q)
  <1>0. TypeOK /\ Execute(r)
    BY DEF IInv, Execute
  <1>1. /\ OnlyOf(r) /\ request' = request /\ phase[r] = "execute" /\ q.method = "POST"
        /\ UNCHANGED nextKey /\ t \in Tables
    BY <1>0, Executed DEF updateRow, Running, TypeOK
  <1>2. CASE UNCHANGED rows
    BY <1>0, <1>1, <1>2, ExecuteQuiet DEF TypeOK
  <1>3. CASE /\ k \in DOMAIN rows[t]
             /\ \E order \in Orders(q.body) :
                  LET row == Updated(t, k, q.body, order)
                  IN  /\ IsAccepted(t, row) /\ Write(t, k, row)
                      /\ Reply(r, Answer(200, IF row = rows[t][k] THEN 0 ELSE 1))
    <2>1. PICK order \in Orders(q.body) :
             LET row == Updated(t, k, q.body, order)
             IN  /\ IsAccepted(t, row) /\ Write(t, k, row)
                 /\ Reply(r, Answer(200, IF row = rows[t][k] THEN 0 ELSE 1))
      BY <1>3
    <2> DEFINE row == Updated(t, k, q.body, order)
    <2>2. /\ row[Id[t]] = k /\ IsRow(t, k, row)
          /\ \A c \in Columns(t) :
               \/ row[c] = rows[t][k][c]
               \/ /\ c \in DOMAIN q.body /\ c # Id[t]
                  /\ \E d \in DOMAIN q.body : row[c] = Put(t, c, q.body[d])
      BY <1>1, <1>3, <2>1, RowUpdated
    <2> HIDE DEF row
    <2>3. /\ DOMAIN rows' = Tables
          /\ \A u \in Tables \ {t} : rows'[u] = rows[u]
          /\ \A i : i \in DOMAIN rows'[t] <=> i \in DOMAIN rows[t]
          /\ rows'[t][k] = row
          /\ \A i \in DOMAIN rows[t] \ {k} : rows'[t][i] = rows[t][i]
      <3>1. Write(t, k, row)
        BY <2>1 DEF row
      <3>2. QED BY <1>0, <1>1, <1>3, <2>2, <3>1, Written
    <2>4. answer'[r].status = 200 /\ answer'[r].result = IF row = rows[t][k] THEN 0 ELSE 1
      BY <1>0, <2>1, Replies, Fields DEF row
    <2>5. Silent(r)
      BY <1>1 DEF Silent, Inserted, Touched, Answered
    <2>6. RowsConform'
      BY <1>1, <2>2, <2>3 DEF IInv, RowsConform
    <2>7. \A u, i : (i \in Given(u))' <=> i \in Given(u)
      BY <1>1, <2>5, GivenGrows DEF Silent
    <2>8. GivenAreOld'
      BY <1>1, <2>7 DEF IInv, GivenAreOld
    <2>9. ASSUME NEW u \in Tables PROVE Accounts(u)'
      <3>1. Accounts(u)
        BY AccountsAre DEF IInv
      <3>2. \A s \in Requests : \A i :
              /\ Inserted(s, u, i)' <=> Inserted(s, u, i)
              /\ Touched(s, "DELETE", u, i)' <=> Touched(s, "DELETE", u, i)
        BY <1>1, <2>5, InsertedKeeps, TouchedKeeps DEF Silent
      <3>3. \A i : i \in DOMAIN rows'[u] <=> i \in DOMAIN rows[u]
        BY <2>3
      <3>4. QED BY <2>7, <3>1, <3>2, <3>3 DEF Accounts
    <2>10. ValuesStemFromRequests'
      <3> SUFFICES ASSUME NEW u \in Tables, NEW i, i \in DOMAIN rows'[u],
                          NEW c \in Columns(u) \ {Id[u]}, NEW v, v = rows'[u][i][c]
                   PROVE  Stems(u, i, c, v)'
        BY DEF ValuesStemFromRequests
      <3>1. CASE u = t /\ i = k /\ row[c] # rows[t][k][c]
        <4>1. Touched(r, "POST", u, i)'
          BY <1>0, <1>1, <2>4, <3>1, Executed DEF Touched, Answered, Table, Key
        <4>2. c \in DOMAIN request'[r].body
                /\ \E d \in DOMAIN request'[r].body : v = Put(u, c, request'[r].body[d])
          BY <1>1, <2>2, <2>3, <3>1
        <4>3. QED BY <4>1, <4>2 DEF Stems
      <3>2. CASE ~ (u = t /\ i = k /\ row[c] # rows[t][k][c])
        <4>1. i \in DOMAIN rows[u] /\ v = rows[u][i][c]
          BY <2>3, <3>2, <1>3
        <4>2. QED BY <1>1, <4>1, StemsKeep DEF IInv, ValuesStemFromRequests
      <3>3. QED BY <3>1, <3>2
    <2>11. QED BY <1>1, <2>3, <2>6, <2>8, <2>9, <2>10, AccountsArePrimed DEF Safe
  <1>4. UNCHANGED rows \/ ~ UNCHANGED rows
    OBVIOUS
  <1>5. CASE ~ UNCHANGED rows
    <2>1. /\ k \in DOMAIN rows[t]
          /\ \E order \in Orders(q.body) :
               LET row == Updated(t, k, q.body, order)
               IN  /\ IsAccepted(t, row) /\ row[Id[t]] \notin DOMAIN rows[t] \ {k}
                   /\ Write(t, k, row)
                   /\ Reply(r, Answer(200, IF row = rows[t][k] THEN 0 ELSE 1))
      BY <1>5 DEF updateRow
    <2>2. QED BY <1>3, <2>1
  <1>6. QED BY <1>2, <1>4, <1>5

LEMMA DeleteSafe ==
  ASSUME IInv, NEW r \in Requests, deleteRow(r)
  PROVE  Safe' /\ DOMAIN rows' = Tables /\ UNCHANGED nextKey
  <1> DEFINE q == request[r]
  <1> DEFINE t == Table(q)
  <1> DEFINE k == Key(q)
  <1>0. TypeOK /\ Execute(r)
    BY DEF IInv, Execute
  <1>1. /\ OnlyOf(r) /\ request' = request /\ phase[r] = "execute" /\ q.method = "DELETE"
        /\ UNCHANGED nextKey /\ t \in Tables
    BY <1>0, Executed DEF deleteRow, Running, TypeOK
  <1>2. CASE (Reply(r, Failed) \/ Reply(r, Answer(200, 0))) /\ UNCHANGED rows
    <2>1. answer'[r] = Failed \/ answer'[r] = Answer(200, 0)
      BY <1>0, <1>2, Replies
    <2>2. QED BY <1>0, <1>1, <1>2, <2>1, ExecuteQuiet DEF TypeOK
  <1>3. CASE /\ k \in DOMAIN rows[t]
             /\ rows' = [rows EXCEPT ![t] = [i \in DOMAIN rows[t] \ {k} |-> rows[t][i]]]
             /\ Reply(r, Answer(200, 1))
    <2>1. /\ DOMAIN rows' = Tables
          /\ \A u \in Tables : \A i :
               i \in DOMAIN rows'[u] <=> i \in DOMAIN rows[u] /\ ~ (u = t /\ i = k)
          /\ \A u \in Tables : \A i \in DOMAIN rows'[u] : rows'[u][i] = rows[u][i]
      BY <1>0, <1>1, <1>3 DEF TypeOK
    <2>2. RowsConform'
      BY <1>1, <2>1 DEF IInv, RowsConform
    <2>3. \A u, i : ~ Inserted(r, u, i)'
      BY <1>1 DEF Inserted, Answered
    <2>4. \A u, i : Touched(r, "DELETE", u, i)' <=> u = t /\ i = k
      BY <1>0, <1>1, <1>3, Replies, Fields DEF Touched, Answered, Table, Key
    <2>5. \A u, i : (i \in Given(u))' <=> i \in Given(u)
      BY <1>1, <2>3, GivenGrows
    <2>6. GivenAreOld'
      BY <1>1, <2>5 DEF IInv, GivenAreOld
    <2>7. ASSUME NEW u \in Tables PROVE Accounts(u)'
      <3>1. Accounts(u)
        BY AccountsAre DEF IInv
      <3>2. \A s \in Requests : \A i :
              /\ Inserted(s, u, i)' <=> Inserted(s, u, i)
              /\ Touched(s, "DELETE", u, i)' <=>
                   Touched(s, "DELETE", u, i) \/ (s = r /\ u = t /\ i = k)
        BY <1>1, <2>3, <2>4, InsertedKeeps, TouchedKeeps
      <3>3. u = t => k \in Given(u) /\ \A s \in Requests : ~ Touched(s, "DELETE", u, k)
        BY <1>3, <3>1 DEF Accounts
      <3>4. QED BY <2>1, <2>5, <3>1, <3>2, <3>3 DEF Accounts
    <2>8. ValuesStemFromRequests'
      <3> SUFFICES ASSUME NEW u \in Tables, NEW i, i \in DOMAIN rows'[u],
                          NEW c \in Columns(u) \ {Id[u]}, NEW v, v = rows'[u][i][c]
                   PROVE  Stems(u, i, c, v)'
        BY DEF ValuesStemFromRequests
      <3>1. i \in DOMAIN rows[u] /\ v = rows[u][i][c]
        BY <2>1
      <3>2. QED BY <1>1, <3>1, StemsKeep DEF IInv, ValuesStemFromRequests
    <2>9. QED BY <1>1, <2>1, <2>2, <2>6, <2>7, <2>8, AccountsArePrimed DEF Safe
  <1>4. QED BY <1>2, <1>3 DEF deleteRow

LEMMA Inductive == IInv /\ [Next]_vars => IInv'
  <1> SUFFICES ASSUME IInv, [Next]_vars PROVE IInv'
    OBVIOUS
  <1>1. ASSUME NEW r \in Requests, Step(r) PROVE IInv'
    <2>1. Safe' /\ DOMAIN rows' = Tables /\ nextKey' \in [Tables -> Nat \ {0}]
      <3>1. CASE \E q \in Inputs[r] : Receive(r, q)
        BY <3>1, ReceiveSafe DEF IInv, TypeOK
      <3>2. CASE getRows(r) \/ getRow(r)
        <4>1. UNCHANGED <<rows, nextKey>> /\ request[r].method = "GET" /\ Execute(r)
          BY <3>2 DEF getRows, getRow, Running, Execute
        <4>2. QED BY <4>1, ExecuteQuiet DEF IInv, TypeOK
      <3>3. CASE insertRow(r)
        BY <3>3, InsertSafe
      <3>4. CASE updateRow(r)
        BY <3>4, UpdateSafe DEF IInv, TypeOK
      <3>5. CASE deleteRow(r)
        BY <3>5, DeleteSafe DEF IInv, TypeOK
      <3>6. QED BY <1>1, <3>1, <3>2, <3>3, <3>4, <3>5 DEF Step, Execute
    <2>2. QED BY <1>1, <2>1, TypeStep DEF IInv, Safe
  <1>2. ASSUME UNCHANGED vars PROVE IInv'
    <2>1. (TypeOK /\ Validated /\ RowsConform)'
      BY <1>2 DEF IInv, vars, TypeOK, Validated, RowsConform
    <2>2. \A s \in Requests : \A m : Answered(s, m)' <=> Answered(s, m)
      BY <1>2 DEF vars, Answered
    <2>3. \A t, k, c, v : Stems(t, k, c, v)' <=> Stems(t, k, c, v)
      BY <1>2, <2>2 DEF vars, Stems, Inserted, Touched, Table, Key
    <2>4. \A t : Given(t)' = Given(t)
      BY <1>2, <2>2 DEF vars, Given, Table
    <2>5. \A t : Accounts(t)' <=> Accounts(t)
      BY <1>2, <2>2, <2>4 DEF vars, Accounts, Inserted, Touched, Table, Key
    <2>6. QED
      BY <1>2, <2>1, <2>3, <2>4, <2>5, AccountsAre, AccountsArePrimed
      DEF IInv, vars, GivenAreOld, ValuesStemFromRequests
  <1>3. QED BY <1>1, <1>2 DEF Next, Step

-----------------------------------------------------------------------------
(* The theorems.                                                           *)

\* The inductive invariant of db_explorer's handlers and the database they share
\* (db_explorer.go:206-361), whatever the schema.
THEOREM Invariance == Spec => []IInv
  <1>1. QED BY InitHolds, Inductive, PTL DEF Spec

\* Every variable keeps its type through all handlers.
THEOREM TypeCorrectness == Spec => []TypeOK
  <1>1. IInv => TypeOK
    BY DEF IInv
  <1>2. QED BY <1>1, Invariance, PTL

\* Every row has all columns of its table, no forbidden NULL, and its own key,
\* whatever prepareInsertParameters and prepareUpdateParameters are given.
THEOREM Conformance == Spec => []RowsConform
  <1>1. IInv => RowsConform
    BY DEF IInv
  <1>2. QED BY <1>1, Invariance, PTL

\* insertRow gives no key twice, and deleteRow reports each removal once.
THEOREM Accounting == Spec => []EveryKeyIsAccountedFor
  <1>1. IInv => EveryKeyIsAccountedFor
    BY DEF IInv
  <1>2. QED BY <1>1, Invariance, PTL

\* What a table holds was in the database before, or was sent by a request that
\* insertRow or updateRow ran and that was answered so.
THEOREM NothingInvented == Spec => []ValuesStemFromRequests
  <1>1. IInv => ValuesStemFromRequests
    BY DEF IInv
  <1>2. QED BY <1>1, Invariance, PTL
\* Concurrent requests to one row do not undo each other: a row is removed by its
\* DELETE only, and a POST changes no column that it did not send, and no key.
THEOREM NoLostUpdate == Spec => OnlyWhatWasSent
  <1> DEFINE Kept(t, k) == k \in DOMAIN rows'[t] /\ rows'[t][k] = rows[t][k]
  <1>1. ASSUME IInv, NEW r \in Requests, Step(r) PROVE StepIsPermitted
    <2> USE <1>1
    <2>0. TypeOK
      BY DEF IInv
    <2>1. CASE rows' = rows
      BY <2>1 DEF StepIsPermitted
    <2>2. CASE insertRow(r) /\ rows' # rows
      <3> DEFINE t == Table(request[r])
      <3> DEFINE row == RowOf(t, prepareInsertParameters(t, request[r].body))
      <3>1. row[Id[t]] \notin DOMAIN rows[t] /\ Write(t, row[Id[t]], row)
        BY <2>2 DEF insertRow
      <3>2. t \in Tables
        BY <2>0, <2>2 DEF insertRow, Running, TypeOK
      <3> HIDE DEF row
      <3>3. QED BY <2>0, <3>1, <3>2, Written DEF StepIsPermitted
    <2>3. CASE updateRow(r) /\ rows' # rows
      <3> DEFINE q == request[r]
      <3> DEFINE t == Table(q)
      <3> DEFINE k == Key(q)
      <3>1. Running(r, "POST", Nat) /\ k \in DOMAIN rows[t]
        BY <2>3 DEF updateRow
      <3>2. PICK order \in Orders(q.body) :
               LET row == Updated(t, k, q.body, order)
               IN  /\ IsAccepted(t, row) /\ Write(t, k, row)
                   /\ Reply(r, Answer(200, IF row = rows[t][k] THEN 0 ELSE 1))
        BY <2>3 DEF updateRow
      <3> DEFINE row == Updated(t, k, q.body, order)
      <3>3. /\ t \in Tables /\ row[Id[t]] = k
            /\ \A c \in Columns(t) : row[c] = rows[t][k][c]
                                       \/ (c \in DOMAIN q.body /\ c # Id[t])
        BY <3>1, <3>2, RowUpdated DEF Running
      <3>4. Write(t, k, row) /\ answer'[r].status = 200 /\ Executes(r)
        BY <2>0, <3>1, <3>2, Replies, Fields DEF Running, Executes
      <3> HIDE DEF row
      <3>5. /\ \A u \in Tables \ {t} : rows'[u] = rows[u]
            /\ \A i : i \in DOMAIN rows'[t] <=> i \in DOMAIN rows[t] \/ i = k
            /\ rows'[t][k] = row
            /\ \A i \in DOMAIN rows[t] \ {k} : rows'[t][i] = rows[t][i]
        BY <2>0, <3>3, <3>4, Written
      <3>6. Permits(r, t, k)
        BY <3>1, <3>3, <3>4, <3>5 DEF Running, Permits
      <3>7. \A u \in Tables : \A i \in DOMAIN rows[u] : (u = t /\ i = k) \/ Kept(u, i)
        BY <3>5
      <3>8. QED BY <3>6, <3>7 DEF StepIsPermitted
    <2>4. CASE deleteRow(r) /\ rows' # rows
      <3> DEFINE t == Table(request[r])
      <3> DEFINE k == Key(request[r])
      <3>1. /\ k \in DOMAIN rows[t] /\ Running(r, "DELETE", Nat)
            /\ rows' = [rows EXCEPT ![t] = [i \in DOMAIN rows[t] \ {k} |-> rows[t][i]]]
            /\ Reply(r, Answer(200, 1))
        BY <2>4 DEF deleteRow
      <3>2. answer'[r].status = 200 /\ Executes(r)
        BY <2>0, <3>1, Replies, Fields DEF Running, Executes
      <3>3. Permits(r, t, k)
        BY <2>0, <3>1, <3>2 DEF Running, TypeOK, Permits
      <3>4. \A u \in Tables : \A i \in DOMAIN rows[u] : (u = t /\ i = k) \/ Kept(u, i)
        BY <2>0, <3>1 DEF TypeOK
      <3>5. QED BY <3>3, <3>4 DEF StepIsPermitted
    <2>5. rows' = rows \/ insertRow(r) \/ updateRow(r) \/ deleteRow(r)
      BY Received DEF IInv, Step, Execute, getRows, getRow
    <2>6. QED BY <2>1, <2>2, <2>3, <2>4, <2>5
  <1>2. IInv /\ [Next]_vars => [StepIsPermitted]_vars
    BY <1>1 DEF Next, Step
  <1>3. QED BY <1>2, Invariance, PTL DEF Spec, OnlyWhatWasSent

-----------------------------------------------------------------------------
(* Requests that fit the tables.                                           *)

MayTake(t, c, v) == Fits(t, c, v) \/ (v = Null /\ ~ Required[t][c])

GoodPost(t, q) ==
  /\ q.method = "POST" /\ Len(q.path) > 1 /\ Key(q) # NotANumber
  /\ \E c \in Columns(t) \ {Id[t]} : DOMAIN q.body = {c} /\ MayTake(t, c, q.body[c])

GoodPut(t, q) ==
  /\ q.method = "PUT"
  /\ \A c \in Columns(t) \ {Id[t]} :
       \/ c \in DOMAIN q.body /\ Fits(t, c, q.body[c])
       \/ /\ c \in DOMAIN q.body => q.body[c] = Null
          /\ Required[t][c] => Type[t][c] # "other"

Good(q) == Table(q) \in Tables /\ (GoodPost(Table(q), q) \/ GoodPut(Table(q), q))

GoodAnswered ==
  \A r \in Requests : phase[r] = "answered" /\ Good(request[r]) => answer[r].status = 200

LEMMA GoodIs == GoodAnswered => GoodRequestsSucceed
  BY DEF GoodRequestsSucceed, GoodAnswered, Good, GoodPost, GoodPut, MayTake

\* Neither validateField nor the database refuses what a column may take
LEMMA TakenIsStored ==
  ASSUME NEW t \in Tables, NEW c \in Columns(t), NEW v, MayTake(t, c, v)
  PROVE  validateField(t, c, v) /\ Put(t, c, v) # Rejected
  <1>1. CASE Fits(t, c, v)
    BY <1>1 DEF Fits, Put
  <1>2. CASE v = Null /\ ~ Required[t][c]
    <2>1. Null \notin Numbers /\ Null \notin Strings /\ Null # Rejected
      BY DbAssumption DEF Values
    <2>2. QED BY <1>2, <2>1 DEF validateField, Put
  <1>3. QED BY <1>1, <1>2 DEF MayTake

\* postHandler and putHandler let it through
LEMMA GoodReceived ==
  ASSUME IInv, NEW r \in Requests, NEW q \in Inputs[r], Receive(r, q), Good(q)
  PROVE  phase'[r] = "execute"
  <1> DEFINE t == Table(q)
  <1>1. t \in Tables
    BY DEF Good
  <1>2. CASE GoodPost(t, q)
    <2>1. PICK c \in Columns(t) \ {Id[t]} : DOMAIN q.body = {c} /\ MayTake(t, c, q.body[c])
      BY <1>2 DEF GoodPost
    <2>2. validateField(t, c, q.body[c])
      BY <1>1, <2>1, TakenIsStored
    <2>3. Invalid(t, q.body) = {}
      BY <2>1, <2>2 DEF Invalid
    <2>4. q.method = "POST" /\ Len(q.path) > 1
      BY <1>2 DEF GoodPost
    <2>5. postHandler(r, q)
      BY <2>4 DEF Receive, getHandler, deleteHandler, putHandler, otherMethod
    <2>6. Len(q.path) # 1
      BY <2>4, Input DEF IsInput
    <2>7. Goto(r, "execute")
      BY <1>1, <2>3, <2>5, <2>6 DEF postHandler
    <2>8. QED BY <2>7, Moves DEF IInv
  <1>3. CASE GoodPut(t, q)
    <2>1. q.method = "PUT"
      BY <1>3 DEF GoodPut
    <2>2. putHandler(r, q)
      BY <2>1 DEF Receive, getHandler, deleteHandler, postHandler, otherMethod
    <2>3. Goto(r, "execute")
      BY <1>1, <2>2 DEF putHandler
    <2>4. QED BY <2>3, Moves DEF IInv
  <1>4. QED BY <1>2, <1>3 DEF Good

\* INSERT accepts it: what was not sent has a default, and the key is new
LEMMA GoodInserted ==
  ASSUME IInv, NEW r \in Requests, insertRow(r), Good(request[r])
  PROVE  answer'[r].status = 200
  <1> DEFINE q == request[r]
  <1> DEFINE t == Table(q)
  <1> DEFINE p == prepareInsertParameters(t, q.body)
  <1> DEFINE row == RowOf(t, p)
  <1>1. t \in Tables /\ GoodPut(t, q) /\ TypeOK
    BY DEF insertRow, Running, Good, GoodPost, IInv
  <1>2. Id[t] \in Columns(t) /\ nextKey[t] \in Nat /\ nextKey[t] # Rejected
    BY <1>1, DbAssumption DEF TypeOK
  <1>3. row[Id[t]] = nextKey[t]
    BY <1>2 DEF RowOf, prepareInsertParameters
  <1>4. nextKey[t] \notin DOMAIN rows[t]
    <2>1. \A k \in DOMAIN rows[t] : k \in Nat /\ k < nextKey[t]
      BY <1>1, AccountsAre DEF IInv, GivenAreOld, Accounts
    <2>2. QED BY <1>2, <2>1
  <1>5. ASSUME NEW c \in Columns(t) \ {Id[t]} PROVE row[c] # Rejected
    <2>1. row[c] = Put(t, c, p[c])
      BY DEF RowOf
    <2>2. CASE c \in DOMAIN q.body /\ Fits(t, c, q.body[c])
      <3>1. p[c] = q.body[c] /\ MayTake(t, c, q.body[c])
        BY <2>2 DEF prepareInsertParameters, Fits, MayTake
      <3>2. QED BY <1>1, <2>1, <3>1, TakenIsStored
    <2>3. CASE (c \in DOMAIN q.body => q.body[c] = Null) /\ ~ Required[t][c]
      <3>1. p[c] = Null /\ MayTake(t, c, Null)
        BY <2>3 DEF prepareInsertParameters, MayTake
      <3>2. QED BY <1>1, <2>1, <3>1, TakenIsStored
    <2>4. CASE /\ c \in DOMAIN q.body => q.body[c] = Null
               /\ Required[t][c] /\ Type[t][c] # "other"
      <3>1. p[c] = getDefaultValue(t, c) /\ Type[t][c] \in {"varchar", "text", "int"}
        <4>1. Type[t][c] \in Types
          BY <1>1, DbAssumption
        <4>2. QED BY <2>4, <4>1 DEF prepareInsertParameters, Types
      <3>2. CASE Type[t][c] = "int"
        <4>1. p[c] = 0 /\ 0 # Null /\ Stored["int"][0] = 0 /\ 0 # Rejected
          BY <3>1, <3>2, DbAssumption DEF getDefaultValue
        <4>2. QED BY <2>1, <3>2, <4>1 DEF Put
      <3>3. CASE Type[t][c] \in {"varchar", "text"}
        <4>1. p[c] = Empty /\ Empty # Null /\ Empty # Rejected
          BY <3>1, <3>3, DbAssumption DEF getDefaultValue, Values
        <4>2. Stored[Type[t][c]][Empty] = Empty
          BY <3>3, DbAssumption DEF Types
        <4>3. QED BY <2>1, <4>1, <4>2 DEF Put
      <3>4. QED BY <3>1, <3>2, <3>3
    <2>5. QED BY <1>1, <2>2, <2>3, <2>4 DEF GoodPut
  <1>6. IsAccepted(t, row)
    BY <1>2, <1>3, <1>5 DEF IsAccepted
  <1>7. Reply(r, Answer(200, nextKey[t]))
    <2> HIDE DEF row
    <2>1. \/ ~ IsAccepted(t, row) \/ row[Id[t]] \in DOMAIN rows[t]
          \/ Reply(r, Answer(200, row[Id[t]]))
      BY DEF insertRow, row
    <2>2. QED BY <1>3, <1>4, <1>6, <2>1
  <1>8. QED BY <1>1, <1>7, Replies, Fields

\* UPDATE accepts it: a single column can only get its own value
LEMMA GoodUpdated ==
  ASSUME IInv, NEW r \in Requests, updateRow(r), Good(request[r])
  PROVE  answer'[r].status = 200
  <1> DEFINE q == request[r]
  <1> DEFINE t == Table(q)
  <1> DEFINE k == Key(q)
  <1>1. t \in Tables /\ GoodPost(t, q) /\ TypeOK
    BY DEF updateRow, Running, Good, GoodPut, IInv
  <1>2. PICK c \in Columns(t) \ {Id[t]} : DOMAIN q.body = {c} /\ MayTake(t, c, q.body[c])
    BY <1>1 DEF GoodPost
  <1>3. Put(t, c, q.body[c]) # Rejected
    BY <1>1, <1>2, TakenIsStored
  <1>4. ~ Malformed(q.body)
    <2>1. Unknown # c /\ Null \notin Unbindable
      BY <1>1, DbAssumption DEF Values
    <2>2. ASSUME q.body[c] \in Unbindable PROVE FALSE
      <3>1. Type[t][c] \in Types
        BY <1>1, DbAssumption
      <3>2. Stored[Type[t][c]][q.body[c]] = Rejected
        BY <2>2, <3>1, DbAssumption
      <3>3. QED BY <1>2, <2>1, <2>2, <3>2 DEF MayTake, Fits
    <2>3. QED BY <1>2, <2>1, <2>2 DEF Malformed
  <1>5. ASSUME NEW order \in Orders(q.body), k \in DOMAIN rows[t]
        PROVE  LET row == Updated(t, k, q.body, order)
               IN  IsAccepted(t, row) /\ row[Id[t]] \notin DOMAIN rows[t] \ {k}
    <2> DEFINE row == Updated(t, k, q.body, order)
    <2>1. order[c] = c
      BY <1>2 DEF Orders, Bijection, Injection
    <2>2. IsRow(t, k, rows[t][k])
      BY <1>1, <1>5 DEF IInv, RowsConform
    <2>3. row[c] # Rejected
      BY <1>2, <1>3, <2>1 DEF Updated
    <2>4. \A d \in Columns(t) \ {c} : row[d] = rows[t][k][d]
      BY <1>2 DEF Updated
    <2>5. \A d \in Columns(t) : rows[t][k][d] # Rejected
      <3>1. \A d \in Columns(t) : Type[t][d] \in Types
        BY <1>1, DbAssumption
      <3>2. Rejected # Null /\ \A ty \in Types : Rejected \notin Holds(ty)
        BY DbAssumption DEF Holds
      <3>3. QED BY <2>2, <3>1, <3>2 DEF IsRow
    <2>6. row[Id[t]] = k
      BY <1>1, <1>2, <2>2, <2>4, DbAssumption DEF IsRow
    <2>7. QED BY <2>3, <2>4, <2>5, <2>6 DEF IsAccepted
  <1>6. \E result : Reply(r, Answer(200, result))
    BY <1>1, <1>4, <1>5 DEF updateRow, GoodPost
  <1>7. QED BY <1>1, <1>6, Replies, Fields

\* A POST of one column that fits, and a PUT of values that fit, succeed for any
\* tables, whatever other requests do meanwhile: postHandler and putHandler let them
\* through, getDefaultValue fills in what is missing, and no key is given twice
\* (db_explorer.go:104-150, 303-361).
THEOREM GoodRequests == Spec => []GoodRequestsSucceed
  <1>1. Init => GoodAnswered
    BY DEF Init, GoodAnswered
  <1>2. ASSUME IInv, GoodAnswered, [Next]_vars PROVE GoodAnswered'
    <2>1. ASSUME NEW r \in Requests, Step(r) PROVE GoodAnswered'
      <3>1. phase'[r] = "answered" /\ Good(request'[r]) => answer'[r].status = 200
        <4>1. CASE \E q \in Inputs[r] : Receive(r, q)
          BY <4>1, <1>2, Received, GoodReceived DEF IInv
        <4>2. CASE insertRow(r) \/ updateRow(r)
          <5>1. request' = request
            BY <4>2 DEF insertRow, updateRow
          <5>2. QED BY <4>2, <5>1, <1>2, GoodInserted, GoodUpdated
        <4>3. CASE getRows(r) \/ getRow(r) \/ deleteRow(r)
          <5>1. request' = request /\ request[r].method \in {"GET", "DELETE"}
            BY <4>3 DEF getRows, getRow, deleteRow, Running
          <5>2. QED BY <5>1 DEF Good, GoodPost, GoodPut
        <4>4. QED BY <2>1, <4>1, <4>2, <4>3 DEF Step, Execute
      <3>2. OnlyOf(r)
        BY <1>2, <2>1, TypeStep
      <3>3. QED BY <1>2, <3>1, <3>2 DEF OnlyOf, GoodAnswered
    <2>2. CASE UNCHANGED vars
      BY <1>2, <2>2 DEF vars, GoodAnswered
    <2>3. QED BY <1>2, <2>1, <2>2 DEF Next, Step
  <1>3. QED BY <1>1, <1>2, Invariance, GoodIs, PTL DEF Spec

-----------------------------------------------------------------------------
(* Records: what a GET shows is what the tables hold when it runs.         *)

\* The record has a key that was given, and each value was written to its row
Backed(t, record) ==
  /\ record[Id[t]] \in Given(t)
  /\ \A c \in Columns(t) \ {Id[t]} : Stems(t, record[Id[t]], c, record[c])

LEMMA BackedKeeps ==
  ASSUME NEW r \in Requests, OnlyOf(r), NEW t, NEW record, Backed(t, record)
  PROVE  Backed(t, record)'
  <1>1. (record[Id[t]] \in Given(t))'
    BY GivenGrows DEF Backed
  <1>2. ASSUME NEW c \in Columns(t) \ {Id[t]} PROVE Stems(t, record[Id[t]], c, record[c])'
    BY StemsKeep DEF Backed
  <1>3. QED BY <1>1, <1>2 DEF Backed, Columns

\* A table has finitely many rows, and a scan of it is a sequence of its keys
LEMMA ScanOfRows ==
  ASSUME IInv, NEW t \in Tables, NEW scan \in Scans(DOMAIN rows[t])
  PROVE  Len(scan) \in Nat /\ DOMAIN scan = 1 .. Len(scan) /\ scan \in Seq(DOMAIN rows[t])
  <1>1. nextKey[t] \in Nat \ {0}
    BY DEF IInv, TypeOK
  <1>2. DOMAIN rows[t] \subseteq 0 .. nextKey[t] - 1
    BY <1>1 DEF IInv, RowsConform
  <1>3. IsFiniteSet(0 .. nextKey[t] - 1)
    BY <1>1, FS_Interval
  <1>4. IsFiniteSet(DOMAIN rows[t])
    BY <1>2, <1>3, FS_Subset
  <1>5. Cardinality(DOMAIN rows[t]) \in Nat
    BY <1>4, FS_CardinalityType
  <1>6. scan \in [1 .. Cardinality(DOMAIN rows[t]) -> DOMAIN rows[t]]
    BY DEF Scans
  <1>7. QED BY <1>5, <1>6

\* Where all types are known, a row is shown as it is
LEMMA RowIsBacked ==
  ASSUME IInv, NEW t \in Tables, Scanned(t), NEW k \in DOMAIN rows[t]
  PROVE  Backed(t, transformRow(t, rows[t][k]))
  <1> DEFINE record == transformRow(t, rows[t][k])
  <1>1. \A i \in DOMAIN FieldOrdered[t] : Type[t][FieldOrdered[t][i]] # "other"
    BY DEF Scanned, Columns
  <1>2. \A c \in Columns(t) : record[c] = rows[t][k][c]
    BY <1>1 DEF transformRow, Scanned
  <1>3. Id[t] \in Columns(t)
    BY DbAssumption
  <1>4. record[Id[t]] = k
    BY <1>2, <1>3 DEF IInv, RowsConform, IsRow
  <1>5. k \in Given(t)
    BY DEF IInv, EveryKeyIsAccountedFor
  <1>6. \A c \in Columns(t) \ {Id[t]} : Stems(t, k, c, record[c])
    BY <1>2 DEF IInv, ValuesStemFromRequests
  <1> HIDE DEF record
  <1>7. QED BY <1>4, <1>5, <1>6 DEF Backed, record

\* The records that a GET is answered with are rows of its table
LEMMA RecordsOfExecute ==
  ASSUME IInv, NEW r \in Requests, Execute(r), Scanned(Table(request[r])),
         NEW record \in Records(r)'
  PROVE  Backed(Table(request[r]), record)
  <1> DEFINE q == request[r]
  <1> DEFINE t == Table(q)
  <1>1. TypeOK /\ request' = request /\ t \in Tables
    BY Executed DEF IInv, TypeOK
  <1>2. answer'[r].status = 200 /\ q.method = "GET" /\ Len(q.path) \in {1, 2}
    BY <1>1 DEF Records, Answered
  <1>3. /\ Len(q.path) = 1 =>
             \E i \in DOMAIN answer'[r].result : record = answer'[r].result[i]
        /\ Len(q.path) = 2 => record = answer'[r].result
    BY <1>1 DEF Records
  <1>4. getRows(r) \/ getRow(r)
    BY <1>2 DEF Execute, insertRow, updateRow, deleteRow, Running
  <1>5. CASE getRow(r)
    <2>1. Len(q.path) = 2
      BY <1>5 DEF getRow, Running
    <2>2. CASE Key(q) \in DOMAIN rows[t] /\ Scanned(t)
      <3>1. Reply(r, Answer(200, transformRow(t, rows[t][Key(q)])))
        BY <1>5, <2>2 DEF getRow
      <3>2. record = transformRow(t, rows[t][Key(q)])
        BY <1>1, <1>3, <2>1, <3>1, Replies, Fields
      <3>3. QED BY <1>1, <2>2, <3>2, RowIsBacked
    <2>3. CASE ~ (Key(q) \in DOMAIN rows[t] /\ Scanned(t))
      <3>1. Reply(r, Answer(404, "not_found"))
        BY <1>5, <2>3 DEF getRow
      <3>2. QED BY <1>1, <1>2, <3>1, Replies, Fields, 404 # 200
    <2>4. QED BY <2>2, <2>3
  <1>6. CASE getRows(r)
    <2>1. Len(q.path) = 1
      BY <1>6 DEF getRows, Running
    <2> DEFINE limit == OrDefault(q.limit, 5)
    <2> DEFINE offset == OrDefault(q.offset, 0)
    <2>2. CASE Reply(r, Failed)
      BY <1>1, <1>2, <2>2, Replies, Fields, 500 # 200 DEF Failed
    <2>3. ASSUME NEW scan \in Scans(DOMAIN rows[t]), offset >= 0,
                 Reply(r, Answer(200, Page(t, scan, limit, offset)))
          PROVE  Backed(t, record)
      <3>1. answer'[r].result = Page(t, scan, limit, offset)
        BY <1>1, <2>3, Replies, Fields
      <3> DEFINE last == IF offset + limit < Len(scan) THEN offset + limit ELSE Len(scan)
      <3> DEFINE page == SubSeq(scan, offset + 1, last)
      <3>2. limit \in Int /\ offset \in Nat
        <4>1. q \in Inputs[r]
          BY Executed, <1>1 DEF TypeOK
        <4>2. q.limit \in Int \cup {NotANumber} /\ q.offset \in Int \cup {NotANumber}
          BY <4>1, Input DEF IsInput
        <4>3. limit \in Int /\ offset \in Int
          BY <4>2 DEF OrDefault
        <4>4. QED BY <2>3, <4>3
      <3>3. Len(scan) \in Nat /\ DOMAIN scan = 1 .. Len(scan) /\ scan \in Seq(DOMAIN rows[t])
        BY <1>1, <2>3, ScanOfRows
      <3>4. ASSUME NEW i \in DOMAIN page PROVE page[i] \in DOMAIN rows[t]
        <4> HIDE DEF limit, offset
        <4>1. last \in Int /\ last <= Len(scan)
          BY <3>2, <3>3
        <4>2. page = [j \in 1 .. (1 + last - (offset + 1)) |-> scan[offset + j]]
          BY <3>2, <3>3, <4>1
        <4>3. i \in 1 .. (last - offset)
          BY <3>2, <4>1, <4>2
        <4>4. offset + i \in 1 .. Len(scan)
          BY <3>2, <3>3, <4>1, <4>3
        <4>5. scan[offset + i] \in DOMAIN rows[t]
          BY <3>3, <4>4
        <4> HIDE DEF page, last
        <4>6. page[i] = scan[offset + i]
          BY <3>2, <4>1, <4>2, <4>3
        <4>7. QED BY <4>5, <4>6
      <3>5. Page(t, scan, limit, offset) = [i \in DOMAIN page |-> transformRow(t, rows[t][page[i]])]
        BY DEF Page
      <3> HIDE DEF page, limit, offset
      <3>6. PICK i \in DOMAIN page : record = transformRow(t, rows[t][page[i]])
        BY <1>3, <2>1, <3>1, <3>5
      <3>7. QED BY <1>1, <3>4, <3>6, RowIsBacked
    <2>4. QED BY <1>6, <2>2, <2>3 DEF getRows
  <1>7. QED BY <1>4, <1>5, <1>6

\* A handler that answers before it runs a statement shows no records
LEMMA RecordsOfReceive ==
  ASSUME IInv, NEW r \in Requests, NEW q \in Inputs[r], Receive(r, q)
  PROVE  Records(r)' = {}
  <1>1. TypeOK /\ request'[r] = q
    BY Received DEF IInv
  <1>2. SUFFICES ASSUME Answered(r, "GET")', Table(q) \in Tables, Len(q.path) \in {1, 2}
                 PROVE  FALSE
    BY <1>1 DEF Records
  <1>3. q.method = "GET" /\ answer'[r].status = 200 /\ phase'[r] = "answered"
    BY <1>1, <1>2 DEF Answered
  <1>4. getHandler(r, q)
    BY <1>3 DEF Receive, deleteHandler, postHandler, putHandler, otherMethod
  <1>5. Table(q) # Empty
    BY <1>2, DbAssumption
  <1>6. CASE q.path = <<Empty>> /\ Reply(r, Answer(200, Tables))
    BY <1>5, <1>6 DEF Table
  <1>7. CASE Goto(r, "execute")
    BY <1>1, <1>3, <1>7, Moves
  <1>8. ~ (Len(q.path) > 2)
    <2>1. Len(q.path) = 1 \/ Len(q.path) = 2
      BY <1>2
    <2>2. ~ (1 > 2) /\ ~ (2 > 2)
      OBVIOUS
    <2>3. CASE Len(q.path) = 1
      BY <2>2, <2>3, Zenon
    <2>4. QED BY <2>1, <2>2, <2>3, Zenon
  <1>9. QED BY <1>2, <1>4, <1>6, <1>7, <1>8 DEF getHandler

AllBacked ==
  \A r \in Requests : \A record \in Records(r) :
    Scanned(Table(request[r])) => Backed(Table(request[r]), record)

\* Whatever other requests do meanwhile, getRow and getRows show records that were
\* given and whose values were written to them (db_explorer.go:206-254).
THEOREM RecordsStored == Spec => []RecordsWereStored
  <1>1. Init => AllBacked
    BY DEF Init, AllBacked, Records, Answered
  <1>2. ASSUME IInv, AllBacked, [Next]_vars PROVE AllBacked'
    <2>1. ASSUME NEW r \in Requests, Step(r) PROVE AllBacked'
      <3>1. OnlyOf(r)
        BY <1>2, <2>1, TypeStep
      <3>2. ASSUME NEW s \in Requests \ {r}, NEW record \in Records(s)',
                   Scanned(Table(request'[s]))
            PROVE  Backed(Table(request[s]), record) /\ request'[s] = request[s]
        <4>1. phase'[s] = phase[s] /\ request'[s] = request[s] /\ answer'[s] = answer[s]
          BY <3>1 DEF OnlyOf
        <4>2. record \in Records(s)
          BY <4>1, <3>2 DEF Records, Answered, Table
        <4>3. QED BY <1>2, <3>2, <4>1, <4>2 DEF AllBacked
      <3>3. ASSUME NEW record \in Records(r)', Scanned(Table(request'[r]))
            PROVE  Backed(Table(request[r]), record) /\ request'[r] = request[r]
        <4>1. Execute(r)
          BY <1>2, <2>1, <3>3, RecordsOfReceive DEF Step
        <4>2. request' = request
          BY <1>2, <4>1, Executed DEF IInv
        <4>3. QED BY <1>2, <3>3, <4>1, <4>2, RecordsOfExecute
      <3>4. \A s \in Requests : \A record \in Records(s)' :
              Scanned(Table(request'[s])) => Backed(Table(request[s]), record)'
        BY <3>1, <3>2, <3>3, BackedKeeps
      <3>5. QED BY <3>2, <3>3, <3>4, <3>1, BackedKeeps DEF AllBacked
    <2>2. CASE UNCHANGED vars
      <3>1. \A s \in Requests : \A m : Answered(s, m)' <=> Answered(s, m)
        BY <2>2 DEF vars, Answered
      <3>2. \A t, k, c, v : Stems(t, k, c, v)' <=> Stems(t, k, c, v)
        BY <2>2, <3>1 DEF vars, Stems, Inserted, Touched, Table, Key
      <3>3. \A t : Given(t)' = Given(t)
        BY <2>2, <3>1 DEF vars, Given, Table
      <3>4. \A s \in Requests : Records(s)' = Records(s)
        BY <2>2, <3>1 DEF vars, Records, Table
      <3>5. \A t, record : Backed(t, record)' <=> Backed(t, record)
        BY <3>2, <3>3 DEF Backed
      <3>6. QED BY <1>2, <2>2, <3>4, <3>5 DEF AllBacked, vars
    <2>3. QED BY <1>2, <2>1, <2>2 DEF Next, Step
  <1>3. AllBacked => RecordsWereStored
    BY DEF AllBacked, Backed, RecordsWereStored
  <1>4. QED BY <1>1, <1>2, <1>3, Invariance, PTL DEF Spec
=============================================================================
