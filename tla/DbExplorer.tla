----------------------------- MODULE DbExplorer -----------------------------
(***************************************************************************)
(* part_2/hw6_db_explorer: an HTTP server that reads the tables of a MySQL *)
(* database and serves create, read, update and delete requests for them.  *)
(* A handler routes and validates its request (Receive), then runs at most *)
(* one SQL statement and answers (Execute); handlers run concurrently and  *)
(* share the database only, which is external and modelled by what its     *)
(* statements do: InnoDB, strict mode, an AUTO_INCREMENT key per table.    *)
(***************************************************************************)
EXTENDS Integers, FiniteSets, SequencesExt

CONSTANTS
  Requests,      \* ids of requests; each is made at most once
  Inputs,        \* Inputs[r]: what the client of request r may send
  Tables,
  FieldOrdered,  \* FieldOrdered[t]: the columns of table t in their order
  Id,            \* Id[t]: its key
  Type,          \* Type[t][c], Required[t][c]: the columns' types, and NOT NULL
  Required,
  Strings, Numbers, Others,  \* JSON values; Others: booleans, arrays, objects
  Unbindable,    \* arrays and objects: the SQL driver has no parameter for them
  Null,
  Empty,         \* the empty string
  Unknown,       \* a table, or a name in a body, that the database does not have
  NotANumber,    \* a key, limit or offset that is no number, or not there
  Stored,        \* Stored[ty][v]: what a column of type ty makes of v, or Rejected
  Rejected,
  InitialRows, InitialKey,   \* the database at the start
  NoAnswer

Types == {"varchar", "text", "int", "other"}
Values == Strings \cup Numbers \cup Others

Columns(t) == {FieldOrdered[t][i] : i \in DOMAIN FieldOrdered[t]}

\* The values that a column of type ty may hold
Holds(ty) ==
  IF ty = "int" THEN Int ELSE IF ty = "other" THEN Strings \cup Int ELSE Strings

\* A request.  The path is given by its parts: / is <<Empty>>.  The body is what
\* Decode leaves in the map: nothing if the body is no JSON object.
IsInput(q) ==
  /\ q.method \in {"GET", "PUT", "POST", "DELETE", "HEAD"}
  /\ Len(q.path) > 0 /\ q.path[1] \in Tables \cup {Unknown, Empty}
  /\ Len(q.path) > 1 => q.path[2] \in Nat \cup {NotANumber}
  /\ {q.limit, q.offset} \subseteq Int \cup {NotANumber}
  /\ DOMAIN q.body \subseteq UNION {Columns(t) : t \in Tables} \cup {Unknown}
  /\ \A c \in DOMAIN q.body : q.body[c] \in Values \cup {Null}

IsRow(t, k, row) ==
  /\ DOMAIN row = Columns(t) /\ row[Id[t]] = k
  /\ \A c \in Columns(t) :
       \/ row[c] = Null /\ ~ Required[t][c]
       \/ row[c] # Null /\ row[c] \in Holds(Type[t][c])

ASSUME DbAssumption ==
  /\ \A r \in Requests : \A q \in Inputs[r] : IsInput(q)
  /\ Tables \cap {Unknown, Empty} = {}
  /\ \A t \in Tables :
       /\ FieldOrdered[t] \in Seq(Columns(t)) /\ Unknown \notin Columns(t)
       /\ Type[t] \in [Columns(t) -> Types] /\ Required[t] \in [Columns(t) -> BOOLEAN]
       /\ Id[t] \in Columns(t) /\ Type[t][Id[t]] = "int" /\ Required[t][Id[t]]
  /\ Numbers \subseteq Int /\ 0 \in Numbers /\ Empty \in Strings
  /\ Strings \cap Int = {} /\ Unbindable \subseteq Others
  /\ Null \notin Values \cup Int /\ Rejected \notin Strings \cup Int \cup {Null}
  /\ NotANumber \notin Int
  /\ \A ty \in Types :
       /\ Stored[ty] \in [Values -> Holds(ty) \cup {Rejected}]
       /\ ty # "int" => Stored[ty][Empty] = Empty
       /\ \A v \in Unbindable : Stored[ty][v] = Rejected
  /\ Stored["int"][0] = 0
  /\ DOMAIN InitialRows = Tables /\ InitialKey \in [Tables -> Nat \ {0}]
  /\ \A t \in Tables : \A k \in DOMAIN InitialRows[t] :
       k \in Nat /\ k < InitialKey[t] /\ IsRow(t, k, InitialRows[t][k])

VARIABLES
  phase,     \* phase[r]: "idle", "execute", "answered"
  request,   \* what request r carries
  answer,    \* what it has been answered
  rows,      \* rows[t]: the rows of table t by their key
  nextKey    \* nextKey[t]: its AUTO_INCREMENT counter

vars == <<phase, request, answer, rows, nextKey>>

Init ==
  /\ phase = [r \in Requests |-> "idle"]
  /\ request = [r \in Requests |-> NoAnswer]
  /\ answer = [r \in Requests |-> NoAnswer]
  /\ rows = InitialRows /\ nextKey = InitialKey

Table(q) == q.path[1]
Key(q) == q.path[2]

Answer(status, result) == [status |-> status, result |-> result]
Aborted == Answer(0, "aborted")   \* the handler panicked
UnknownTable == Answer(404, "unknown")
Failed == Answer(500, "failed")
Nothing == Answer(200, "nothing")

Reply(r, a) ==
  /\ phase' = [phase EXCEPT ![r] = "answered"]
  /\ answer' = [answer EXCEPT ![r] = a]

Goto(r, p) == phase' = [phase EXCEPT ![r] = p] /\ UNCHANGED answer

-----------------------------------------------------------------------------
(* Up to its statement a handler depends on its request only.              *)

validateField(t, c, v) ==
  /\ ~ (v = Null /\ Required[t][c])
  /\ v \in Numbers => Type[t][c] = "int"
  /\ v \in Strings => Type[t][c] \in {"varchar", "text"}

\* Fault: postHandler does not validate the key
InvalidButKey(t, body) ==
  {i \in DOMAIN FieldOrdered[t] :
     LET c == FieldOrdered[t][i]
     IN  c \in DOMAIN body /\ c # Id[t] /\ ~ validateField(t, c, body[c])}

\* The positions of the columns that validateInputParameters refuses
Invalid(t, body) ==
  {i \in DOMAIN FieldOrdered[t] :
     LET c == FieldOrdered[t][i]
     IN  c \in DOMAIN body /\ (c = Id[t] \/ ~ validateField(t, c, body[c]))}

getHandler(r, q) ==
  /\ q.method = "GET"
  /\ \/ q.path = <<Empty>> /\ Reply(r, Answer(200, Tables))
     \/ Len(q.path) = 1 /\ q.path # <<Empty>> /\ Table(q) \notin Tables
          /\ Reply(r, UnknownTable)
     \/ Len(q.path) = 2 /\ Table(q) \notin Tables /\ Reply(r, Aborted)
     \/ Len(q.path) \in 1 .. 2 /\ Table(q) \in Tables /\ Goto(r, "execute")
     \/ Len(q.path) > 2 /\ Reply(r, Nothing)

deleteHandler(r, q) ==
  /\ q.method = "DELETE"
  /\ \/ Len(q.path) = 1 /\ Reply(r, Aborted)
     \/ Len(q.path) > 1 /\ Table(q) \notin Tables /\ Reply(r, UnknownTable)
     \/ Len(q.path) > 1 /\ Table(q) \in Tables /\ Goto(r, "execute")

postHandler(r, q) ==
  /\ q.method = "POST"
  /\ \/ Len(q.path) = 1 /\ Reply(r, Aborted)
     \/ Len(q.path) > 1 /\ Table(q) \notin Tables /\ Reply(r, UnknownTable)
     \/ /\ Len(q.path) > 1 /\ Table(q) \in Tables
        /\ LET invalid == Invalid(Table(q), q.body)
           IN  \/ invalid = {} /\ Goto(r, "execute")
               \/ \E i \in invalid :
                    /\ \A j \in invalid : i <= j
                    /\ Reply(r, Answer(400, FieldOrdered[Table(q)][i]))

\* Fault: the table is not looked up
putHandlerUnchecked(r, q) == q.method = "PUT" /\ Goto(r, "execute")

putHandler(r, q) ==
  /\ q.method = "PUT"
  /\ \/ Table(q) \notin Tables /\ Reply(r, UnknownTable)
     \/ Table(q) \in Tables /\ Goto(r, "execute")

otherMethod(r, q) == q.method = "HEAD" /\ Reply(r, Nothing)

Receive(r, q) ==
  /\ phase[r] = "idle"
  /\ request' = [request EXCEPT ![r] = q]
  /\ \/ getHandler(r, q) \/ deleteHandler(r, q) \/ postHandler(r, q)
     \/ putHandler(r, q) \/ otherMethod(r, q)
  /\ UNCHANGED <<rows, nextKey>>

-----------------------------------------------------------------------------
(* What MySQL does.                                                        *)

\* Parameter v as a value of column c
Put(t, c, v) ==
  IF v = Null THEN IF Required[t][c] THEN Rejected ELSE Null
              ELSE Stored[Type[t][c]][v]

\* Row k of table t becomes row, under the key that row has
Write(t, k, row) ==
  rows' = [rows EXCEPT ![t] =
    [i \in (DOMAIN rows[t] \ {k}) \cup {row[Id[t]]} |->
       IF i = row[Id[t]] THEN row ELSE rows[t][i]]]

\* The row that INSERT makes of the parameters p
RowOf(t, p) ==
  [c \in Columns(t) |->
     IF c = Id[t] /\ p[c] = Null THEN nextKey[t] ELSE Put(t, c, p[c])]

IsAccepted(t, row) ==
  \A c \in Columns(t) : row[c] # Rejected

-----------------------------------------------------------------------------
(* The statements and their answers.                                       *)

Running(r, method, parts) ==
  /\ phase[r] = "execute" /\ request[r].method = method
  /\ Len(request[r].path) \in parts

OrDefault(n, default) == IF n = NotANumber THEN default ELSE n

\* A column of another type stops Scan: getRow fails, and getRows, which ignores
\* the error, leaves that column out and shows the columns after it as NULL
Scanned(t) == \A c \in Columns(t) : Type[t][c] # "other"

\* Fault: NULL is shown as the empty string
transformRowNoValid(t, row) ==
  [c \in {d \in Columns(t) : Type[t][d] # "other"} |->
     IF row[c] = Null THEN Empty ELSE row[c]]

transformRow(t, row) ==
  [c \in {d \in Columns(t) : Type[t][d] # "other"} |->
     IF \E i, j \in DOMAIN FieldOrdered[t] :
          i < j /\ Type[t][FieldOrdered[t][i]] = "other" /\ FieldOrdered[t][j] = c
     THEN Null ELSE row[c]]

\* The order in which MySQL scans rows with these keys: that of the keys
Scans(keys) ==
  {s \in [1 .. Cardinality(keys) -> keys] :
     \A i, j \in 1 .. Cardinality(keys) : i < j => s[i] < s[j]}

\* The page that LIMIT and OFFSET cut out of a scan
Page(t, scan, limit, offset) ==
  LET page == SubSeq(scan, offset + 1,
                     IF offset + limit < Len(scan) THEN offset + limit ELSE Len(scan))
  IN  [i \in DOMAIN page |-> transformRow(t, rows[t][page[i]])]

getRows(r) ==
  /\ Running(r, "GET", {1})
  /\ LET q == request[r]
         limit == OrDefault(q.limit, 5)
         offset == OrDefault(q.offset, 0)
     IN  \/ (limit < 0 \/ offset < 0) /\ Reply(r, Failed)
         \/ /\ limit >= 0 /\ offset >= 0
            /\ \E scan \in Scans(DOMAIN rows[Table(q)]) :
                 Reply(r, Answer(200, Page(Table(q), scan, limit, offset)))
  /\ UNCHANGED <<request, rows, nextKey>>

getRow(r) ==
  /\ Running(r, "GET", {2})
  /\ LET q == request[r]
         t == Table(q)
     IN  Reply(r, IF Key(q) \in DOMAIN rows[t] /\ Scanned(t)
                  THEN Answer(200, transformRow(t, rows[t][Key(q)]))
                  ELSE Answer(404, "not_found"))
  /\ UNCHANGED <<request, rows, nextKey>>

\* Fault: no default for int
DefaultOfStrings(t, c) ==
  IF Type[t][c] \in {"varchar", "text"} THEN Empty ELSE Null

getDefaultValue(t, c) ==
  CASE Type[t][c] \in {"varchar", "text"} -> Empty
    [] Type[t][c] = "int" -> 0
    [] Type[t][c] = "other" -> Null

\* Fault: the key is inserted as it was sent
InsertParametersWithKey(t, body) ==
  [c \in Columns(t) |->
     IF c \in DOMAIN body /\ body[c] # Null THEN body[c]
     ELSE IF c = Id[t] \/ ~ Required[t][c] THEN Null ELSE getDefaultValue(t, c)]

\* Fault: a field that may be NULL is always inserted as NULL
InsertParametersRequired(t, body) ==
  [c \in Columns(t) |->
     IF c = Id[t] \/ ~ Required[t][c] THEN Null
     ELSE IF c \in DOMAIN body /\ body[c] # Null THEN body[c]
     ELSE getDefaultValue(t, c)]

prepareInsertParameters(t, body) ==
  [c \in Columns(t) |->
     IF c = Id[t] THEN Null
     ELSE IF c \in DOMAIN body /\ body[c] # Null THEN body[c]
     ELSE IF ~ Required[t][c] THEN Null ELSE getDefaultValue(t, c)]

insertRow(r) ==
  /\ Running(r, "PUT", Nat)
  /\ LET t == Table(request[r])
         row == RowOf(t, prepareInsertParameters(t, request[r].body))
         key == row[Id[t]]
     IN  \/ /\ ~ IsAccepted(t, row) \/ key \in DOMAIN rows[t]
            /\ Reply(r, Failed) /\ UNCHANGED <<rows, nextKey>>
         \/ /\ IsAccepted(t, row) /\ key \notin DOMAIN rows[t]
            /\ Write(t, key, row) /\ Reply(r, Answer(200, key))
            /\ nextKey' = [nextKey EXCEPT ![t] = IF key < @ THEN @ ELSE key + 1]
  /\ UNCHANGED request

\* prepareUpdateQuery lists the columns and prepareUpdateParameters the values in
\* the order of a range over the map each, and the two orders need not agree: a
\* column may get the value of another one
Orders(body) == Bijection(DOMAIN body, DOMAIN body)

Updated(t, k, body, order) ==
  [c \in Columns(t) |->
     IF c \in DOMAIN body THEN Put(t, c, body[order[c]]) ELSE rows[t][k][c]]

\* UPDATE statements that fail whatever the table holds
Malformed(body) ==
  \/ DOMAIN body = {} \/ Unknown \in DOMAIN body
  \/ \E c \in DOMAIN body : body[c] \in Unbindable

updateRow(r) ==
  LET q == request[r]
      t == Table(q)
      k == Key(q)
  IN  /\ Running(r, "POST", Nat)
      /\ \/ /\ Malformed(q.body) \/ k = NotANumber
            /\ Reply(r, Failed) /\ UNCHANGED rows
         \/ /\ ~ Malformed(q.body) /\ k \notin DOMAIN rows[t]
            /\ Reply(r, Answer(200, 0)) /\ UNCHANGED rows
         \/ /\ ~ Malformed(q.body) /\ k \in DOMAIN rows[t]
            /\ \E order \in Orders(q.body) :
                 LET row == Updated(t, k, q.body, order)
                     fails == ~ IsAccepted(t, row) \/ row[Id[t]] \in DOMAIN rows[t] \ {k}
                 IN  \/ fails /\ Reply(r, Failed) /\ UNCHANGED rows
                     \/ /\ ~ fails /\ Write(t, k, row)
                        /\ Reply(r, Answer(200, IF row = rows[t][k] THEN 0 ELSE 1))
      /\ UNCHANGED <<request, nextKey>>

deleteRow(r) ==
  LET t == Table(request[r])
      k == Key(request[r])
  IN  /\ Running(r, "DELETE", Nat)
      /\ \/ k = NotANumber /\ Reply(r, Failed) /\ UNCHANGED rows
         \/ /\ k \notin DOMAIN rows[t]
            /\ Reply(r, Answer(200, 0)) /\ UNCHANGED rows
         \/ /\ k \in DOMAIN rows[t]
            /\ rows' = [rows EXCEPT ![t] = [i \in DOMAIN rows[t] \ {k} |-> rows[t][i]]]
            /\ Reply(r, Answer(200, 1))
      /\ UNCHANGED <<request, nextKey>>

Execute(r) == getRows(r) \/ getRow(r) \/ insertRow(r) \/ updateRow(r) \/ deleteRow(r)

Next == \E r \in Requests : (\E q \in Inputs[r] : Receive(r, q)) \/ Execute(r)

Spec == Init /\ [][Next]_vars

-----------------------------------------------------------------------------
(* Safety.                                                                 *)

Answered(r, method) ==
  phase[r] = "answered" /\ answer[r].status = 200 /\ request[r].method = method

\* The database confirms that r inserted, updated or deleted row k of table t
Inserted(r, t, k) == Answered(r, "PUT") /\ Table(request[r]) = t /\ answer[r].result = k

Touched(r, method, t, k) ==
  Answered(r, method) /\ Table(request[r]) = t /\ Key(request[r]) = k /\ answer[r].result = 1

\* Every variable has its type.
TypeOK ==
  /\ phase \in [Requests -> {"idle", "execute", "answered"}]
  /\ DOMAIN request = Requests /\ DOMAIN answer = Requests
  /\ \A r \in Requests : phase[r] # "idle" => request[r] \in Inputs[r]
  /\ \A r \in Requests : phase[r] = "execute" => Table(request[r]) \in Tables
  /\ \A r \in Requests : phase[r] = "answered" =>
       answer[r] = Answer(answer[r].status, answer[r].result)
  /\ DOMAIN rows = Tables /\ nextKey \in [Tables -> Nat \ {0}]

\* Whatever a PUT leaves out or sends in the wrong type, each row has all columns
\* of its table, no NULL where the table forbids it, and its own key.
RowsConform ==
  \A t \in Tables : \A k \in DOMAIN rows[t] :
    k \in Nat /\ k < nextKey[t] /\ IsRow(t, k, rows[t][k])

\* The keys that a client of table t has ever been told, or found there
Given(t) ==
  DOMAIN InitialRows[t] \cup {answer[r].result : r \in {s \in Requests :
                                Answered(s, "PUT") /\ Table(request[s]) = t}}

\* PUT ignores the key it is sent: no key is given twice, a row that was given is
\* there until exactly one DELETE has reported its removal, and it never returns.
EveryKeyIsAccountedFor ==
  \A t \in Tables :
    /\ DOMAIN rows[t] =
         {k \in Given(t) : ~ \E r \in Requests : Touched(r, "DELETE", t, k)}
    /\ \A r, s \in Requests : \A k \in Given(t) :
         /\ Inserted(r, t, k) => k \notin DOMAIN InitialRows[t] /\ (Inserted(s, t, k) => r = s)
         /\ Touched(r, "DELETE", t, k) /\ Touched(s, "DELETE", t, k) => r = s
    /\ \A r \in Requests :
         LET k == Key(request[r]) IN Touched(r, "DELETE", t, k) => k \in Given(t)

\* What insertRow stores in column c for a body that holds, or leaves out, c
Sent(t, c, body) ==
  IF c \in DOMAIN body /\ body[c] # Null THEN Stored[Type[t][c]][body[c]]
  ELSE IF ~ Required[t][c] THEN Null
  ELSE IF Type[t][c] = "int" THEN 0 ELSE Empty

\* v is what column c of row k started with, in the database or by the PUT that was
\* answered with k, or what an answered POST to this row wrote that sent c
Stems(t, k, c, v) ==
  \/ k \in DOMAIN InitialRows[t] /\ v = InitialRows[t][k][c]
  \/ \E r \in Requests : Inserted(r, t, k) /\ v = Sent(t, c, request[r].body)
  \/ \E r \in Requests : Touched(r, "POST", t, k) /\ c \in DOMAIN request[r].body
       /\ \E d \in DOMAIN request[r].body : v = Put(t, c, request[r].body[d])

\* Nothing in a table is invented or lost: every value stems from the database as
\* it was or from a request that wrote it, and that was answered so.
ValuesStemFromRequests ==
  \A t \in Tables : \A k \in DOMAIN rows[t] : \A c \in Columns(t) \ {Id[t]} :
    Stems(t, k, c, rows[t][k][c])

\* The records that r has been answered
Records(r) ==
  IF ~ Answered(r, "GET") \/ Table(request[r]) \notin Tables THEN {}
  ELSE IF Len(request[r].path) = 1 THEN {answer[r].result[i] : i \in DOMAIN answer[r].result}
  ELSE IF Len(request[r].path) = 2 THEN {answer[r].result} ELSE {}

\* Whatever runs at the same time, a record that a GET shows is one that was given,
\* and each of its values was written to it (in tables whose types are known).
RecordsWereStored ==
  \A r \in Requests :
    LET t == Table(request[r])
    IN  \A record \in Records(r) :
          Scanned(t) =>
            /\ record[Id[t]] \in Given(t)
            /\ \A c \in Columns(t) \ {Id[t]} : Stems(t, record[Id[t]], c, record[c])

\* Whether column c of table t can take v
Fits(t, c, v) == v # Null /\ validateField(t, c, v) /\ Stored[Type[t][c]][v] # Rejected

\* hw6.md:20: requests that fit the tables work for any table.  A POST that sends
\* one column a value that fits, or NULL if it may be NULL, succeeds, and so does a
\* PUT whose values fit: what a PUT leaves out has a default.
GoodRequestsSucceed ==
  \A r \in Requests :
    LET q == request[r]
        t == Table(q)
    IN  (phase[r] = "answered" /\ t \in Tables) =>
          /\ \A c \in Columns(t) \ {Id[t]} :
               (q.method = "POST" /\ Len(q.path) > 1 /\ Key(q) # NotANumber
                 /\ DOMAIN q.body = {c}
                 /\ (Fits(t, c, q.body[c]) \/ (q.body[c] = Null /\ ~ Required[t][c])))
               => answer[r].status = 200
          /\ (q.method = "PUT"
               /\ \A c \in Columns(t) \ {Id[t]} :
                    \/ c \in DOMAIN q.body /\ Fits(t, c, q.body[c])
                    \/ /\ c \in DOMAIN q.body => q.body[c] = Null
                       /\ Required[t][c] => Type[t][c] # "other")
             => answer[r].status = 200

-----------------------------------------------------------------------------
(* The inductive invariant.                                                *)

\* Only what postHandler has validated reaches the statement
Validated ==
  \A r \in Requests : phase[r] = "execute" =>
    /\ request[r].method = "POST" => Invalid(Table(request[r]), request[r].body) = {}
    /\ request[r].method \in {"POST", "DELETE"} => Len(request[r].path) > 1

\* The next key is a new one
GivenAreOld ==
  \A t \in Tables : \A k \in Given(t) : k \in Nat /\ k < nextKey[t]

IInv ==
  /\ TypeOK /\ Validated /\ RowsConform /\ GivenAreOld
  /\ EveryKeyIsAccountedFor /\ ValuesStemFromRequests

-----------------------------------------------------------------------------
(* Action properties.                                                      *)

Executes(r) == phase[r] = "execute" /\ phase'[r] = "answered"

\* The step of r removes row k of table t as its DELETE, or changes columns of it
\* that its POST sent, and not the key
Permits(r, t, k) ==
  /\ Executes(r) /\ answer'[r].status = 200
  /\ Table(request[r]) = t /\ Key(request[r]) = k
  /\ \/ request[r].method = "DELETE" /\ k \notin DOMAIN rows'[t]
     \/ /\ request[r].method = "POST" /\ k \in DOMAIN rows'[t]
        /\ \A c \in Columns(t) \ (DOMAIN request[r].body \ {Id[t]}) :
             rows'[t][k][c] = rows[t][k][c]

StepIsPermitted ==
  \A t \in Tables : \A k \in DOMAIN rows[t] :
    \/ k \in DOMAIN rows'[t] /\ rows'[t][k] = rows[t][k]
    \/ \E r \in Requests : Permits(r, t, k)

\* Requests to one row that run at the same time do not undo each other: a row
\* only goes away by its DELETE, and a step changes no column that its POST did not
\* send, and never the key.
OnlyWhatWasSent == [][StepIsPermitted]_vars

\* main_test.go:399-426: after a POST with two fields each field has its value.
UpdateWritesWhatWasSent ==
  [][\A r \in Requests :
       LET q == request[r]
       IN  (Executes(r) /\ q.method = "POST" /\ answer'[r].status = 200
             /\ Key(q) \in DOMAIN rows'[Table(q)]) =>
           \A c \in DOMAIN q.body :
             rows'[Table(q)][Key(q)][c] = Put(Table(q), c, q.body[c])]_vars
=============================================================================
