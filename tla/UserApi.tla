------------------------------ MODULE UserApi ------------------------------
(***************************************************************************)
(* part_2/hw5_codegen: the handlers that the generator wrote for MyApi and *)
(* OtherApi (api_handlers.go) and the methods they call (api.go).  Every   *)
(* request runs in a goroutine of its own; users and nextID are shared and *)
(* guarded by the RWMutex mu.  One action per step on mu, users or nextID; *)
(* what a handler does before its first lock is one action.                *)
(***************************************************************************)
EXTENDS Integers, Sequences

CONSTANTS
  Requests,     \* ids of requests; each is made at most once
  NoRequest,
  Inputs,       \* Inputs[r]: what the client of request r may send
  Logins,       \* the non-empty values of login (username in OtherApi)
  Length,       \* Length[l]: its number of bytes
  Names,        \* the non-empty values of full_name, account_name and name
  Lower,        \* Lower[n]: strings.ToLower
  Statuses,     \* the non-empty values of status (class in OtherApi)
  Absent,       \* the empty value of a form field
  NotInt,       \* an age (level in OtherApi) that strconv.Atoi refuses
  Rvasily, VasilyRomanov,   \* the user of NewMyApi
  BadUser, BadUsername      \* logins that Profile and Create fail on

ProfilePath == "/user/profile"
CreatePath == "/user/create"

\* A request: the API it goes to, its path, method, X-Auth header and form
Input ==
  [api : {"my", "other"}, path : {ProfilePath, CreatePath, "other path"},
   method : {"GET", "POST", "PUT"}, auth : BOOLEAN,
   login : Logins \cup {Absent}, full_name : Names \cup {Absent},
   name : Names \cup {Absent}, status : Statuses \cup {Absent},
   age : Int \cup {NotInt}]

ASSUME UserApiAssumption ==
  /\ NoRequest \notin Requests
  /\ Inputs \in [Requests -> SUBSET Input]
  /\ Absent \notin Logins \cup Names \cup Statuses
  /\ {"user", "moderator", "admin"} \subseteq Statuses
  /\ Rvasily \in Logins /\ VasilyRomanov \in Names
  /\ Length \in [Logins -> Nat] /\ Lower \in [Names -> Names]
  /\ NotInt \notin Int

VARIABLES
  pc,       \* where each request is
  input,    \* what it carries
  answer,   \* what it has been answered, or is about to be
  number,   \* local variable id of Create
  users, nextID,
  readers,  \* the requests that hold mu for reading
  writer    \* the request that has called mu.Lock(), or NoRequest

vars == <<pc, input, answer, number, users, nextID, readers, writer>>

-----------------------------------------------------------------------------
(* The generated validation.                                               *)

Code ==
  [s \in {"user", "moderator", "admin"} |->
     IF s = "user" THEN 0 ELSE IF s = "moderator" THEN 10 ELSE 20]

\* The constants the generator put into the two create handlers
Rules(api) ==
  IF api = "my"
  THEN [minLength |-> 10, default |-> "user",
        enum |-> {"user", "moderator", "admin"}, min |-> 0, max |-> 128]
  ELSE [minLength |-> 3, default |-> "warrior",
        enum |-> {"warrior", "sorcerer", "rouge"}, min |-> 1, max |-> 50]

Status(q) == IF q.status = Absent THEN Rules(q.api).default ELSE q.status

\* full_name (account_name), else the name in lower case
Name(q) ==
  IF q.full_name # Absent THEN q.full_name
  ELSE IF q.name # Absent THEN Lower[q.name] ELSE Absent

Error(status, text) == [status |-> status, error |-> text]

\* The checks of a create handler in their order, each with its answer
Checks(q) ==
  LET rule == Rules(q.api)
  IN  << <<q.method = "POST", Error(406, "bad method")>>,
         <<q.auth, Error(403, "unauthorized")>>,
         <<q.login # Absent, Error(400, "login must me not empty")>>,
         <<q.login # Absent => Length[q.login] >= rule.minLength, Error(400, "len")>>,
         <<Status(q) \in rule.enum, Error(400, "must be one of")>>,
         <<q.age # NotInt, Error(400, "must be int")>>,
         <<q.age # NotInt => q.age >= rule.min, Error(400, "must be >=")>>,
         <<q.age # NotInt => q.age <= rule.max, Error(400, "must be <=")>> >>

\* Fault: the generator does not emit the last check, max
AcceptedShort(q) == \A k \in 1 .. 7 : Checks(q)[k][1]

Accepted(q) == \A k \in 1 .. 8 : Checks(q)[k][1]

Refusal(q) ==
  LET k == CHOOSE i \in 1 .. 8 : ~ Checks(q)[i][1] /\ \A j \in 1 .. i - 1 : Checks(q)[j][1]
  IN  Checks(q)[k][2]

\* profile reads the login of a GET or a POST and checks it; with any other
\* method it looks for the empty login
ReadsLogin(q) == q.method \in {"GET", "POST"}
ProfileLogin(q) == IF ReadsLogin(q) THEN q.login ELSE Absent

-----------------------------------------------------------------------------
Init ==
  /\ pc = [r \in Requests |-> "idle"]
  /\ input = [r \in Requests |-> Absent]
  /\ answer = [r \in Requests |-> Absent]
  /\ number = [r \in Requests |-> 0]
  /\ users = [l \in {Rvasily} |->
               [id |-> 42, login |-> l, name |-> VasilyRomanov, status |-> Code["admin"]]]
  /\ nextID = 43
  /\ readers = {} /\ writer = NoRequest

Goto(r, l) == pc' = [pc EXCEPT ![r] = l]

Reply(r, a) == Goto(r, "answered") /\ answer' = [answer EXCEPT ![r] = a]

(* Up to its first lock a handler depends on its request only.             *)

ServeHTTP(r, q) ==
  /\ q.path = "other path" \/ (q.api = "other" /\ q.path = ProfilePath)
  /\ Reply(r, Error(404, "unknown method"))

\* The requests that Profile and Create go on with to the lock
ToProfile(q) ==
  /\ q.api = "my" /\ q.path = ProfilePath
  /\ ReadsLogin(q) => q.login # Absent
  /\ ProfileLogin(q) # BadUser

ToCreate(q) ==
  /\ q.api = "my" /\ q.path = CreatePath
  /\ Accepted(q) /\ q.login # BadUsername

profile(r, q) ==
  /\ q.api = "my" /\ q.path = ProfilePath
  /\ \/ ReadsLogin(q) /\ q.login = Absent /\ Reply(r, Error(400, "login must me not empty"))
     \/ ProfileLogin(q) = BadUser /\ Reply(r, Error(500, "bad user"))
     \/ ToProfile(q) /\ Goto(r, "rlock") /\ UNCHANGED answer

create(r, q) ==
  /\ q.path = CreatePath
  /\ \/ ~ Accepted(q) /\ Reply(r, Refusal(q))
     \/ Accepted(q) /\ q.api = "other"
          /\ Reply(r, [status |-> 200, user |-> [id |-> 12, login |-> q.login,
                                                 name |-> Name(q), level |-> q.age]])
     \/ Accepted(q) /\ q.api = "my" /\ q.login = BadUsername
          /\ Reply(r, Error(500, "bad user"))
     \/ ToCreate(q) /\ Goto(r, "lock") /\ UNCHANGED answer

Receive(r, q) ==
  /\ pc[r] = "idle"
  /\ input' = [input EXCEPT ![r] = q]
  /\ ServeHTTP(r, q) \/ profile(r, q) \/ create(r, q)
  /\ UNCHANGED <<number, users, nextID, readers, writer>>

-----------------------------------------------------------------------------
(* Create, from mu.Lock() on.                                              *)

\* mu.Lock() keeps other writers and new readers out ...
Lock(r) ==
  /\ pc[r] = "lock" /\ writer = NoRequest
  /\ writer' = r /\ Goto(r, "locking")
  /\ UNCHANGED <<input, answer, number, users, nextID, readers>>

\* Fault: the write lock does not wait for the readers
EnterEarly(r) ==
  /\ pc[r] = "locking"
  /\ Goto(r, "check")
  /\ UNCHANGED <<input, answer, number, users, nextID, readers, writer>>

\* ... and returns when the readers have left
Enter(r) ==
  /\ pc[r] = "locking" /\ readers = {}
  /\ Goto(r, "check")
  /\ UNCHANGED <<input, answer, number, users, nextID, readers, writer>>

Conflict == Error(409, "user exist")
NotFound == Error(404, "user not exist")

\* Fault: the number is taken before the login is looked up
ExistTakesId(r) ==
  /\ pc[r] = "check" /\ input[r].login \in DOMAIN users
  /\ answer' = [answer EXCEPT ![r] = Conflict]
  /\ nextID' = nextID + 1
  /\ Goto(r, "unlock")
  /\ UNCHANGED <<input, number, users, readers, writer>>

Exist(r) ==
  /\ pc[r] = "check" /\ input[r].login \in DOMAIN users
  /\ answer' = [answer EXCEPT ![r] = Conflict]
  /\ Goto(r, "unlock")
  /\ UNCHANGED <<input, number, users, nextID, readers, writer>>

\* Fault: an existing login is overwritten
TakeIdAnyway(r) ==
  /\ pc[r] = "check"
  /\ number' = [number EXCEPT ![r] = nextID]
  /\ nextID' = nextID + 1
  /\ Goto(r, "insert")
  /\ UNCHANGED <<input, answer, users, readers, writer>>

\* id := nextID; nextID++
TakeId(r) ==
  /\ pc[r] = "check" /\ input[r].login \notin DOMAIN users
  /\ number' = [number EXCEPT ![r] = nextID]
  /\ nextID' = nextID + 1
  /\ Goto(r, "insert")
  /\ UNCHANGED <<input, answer, users, readers, writer>>

\* Fault: login and name are swapped
NewUserSwapped(r) ==
  [id |-> number[r], login |-> Name(input[r]), name |-> input[r].login,
   status |-> Code[Status(input[r])]]

NewUser(r) ==
  [id |-> number[r], login |-> input[r].login, name |-> Name(input[r]),
   status |-> Code[Status(input[r])]]

Insert(r) ==
  /\ pc[r] = "insert"
  /\ users' = [l \in DOMAIN users \cup {input[r].login} |->
                 IF l = input[r].login THEN NewUser(r) ELSE users[l]]
  /\ answer' = [answer EXCEPT ![r] = [status |-> 200, id |-> number[r]]]
  /\ Goto(r, "unlock")
  /\ UNCHANGED <<input, number, nextID, readers, writer>>

\* Fault: no defer, and the conflict returns without mu.Unlock()
UnlockIfCreated(r) ==
  /\ pc[r] = "unlock"
  /\ writer' = (IF answer[r] = Conflict THEN writer ELSE NoRequest) /\ Goto(r, "done")
  /\ UNCHANGED <<input, answer, number, users, nextID, readers>>

\* the deferred mu.Unlock(), and the answer is written
Unlock(r) ==
  /\ pc[r] = "unlock"
  /\ writer' = NoRequest /\ Goto(r, "done")
  /\ UNCHANGED <<input, answer, number, users, nextID, readers>>

-----------------------------------------------------------------------------
(* Profile, from mu.RLock() on.                                            *)

RLock(r) ==
  /\ pc[r] = "rlock" /\ writer = NoRequest
  /\ readers' = readers \cup {r} /\ Goto(r, "lookup")
  /\ UNCHANGED <<input, answer, number, users, nextID, writer>>

Lookup(r) ==
  /\ pc[r] = "lookup"
  /\ LET l == ProfileLogin(input[r])
     IN  answer' = [answer EXCEPT ![r] =
           IF l \in DOMAIN users THEN [status |-> 200, user |-> users[l]]
                                 ELSE NotFound]
  /\ Goto(r, "runlock")
  /\ UNCHANGED <<input, number, users, nextID, readers, writer>>

RUnlock(r) ==
  /\ pc[r] = "runlock"
  /\ readers' = readers \ {r} /\ Goto(r, "done")
  /\ UNCHANGED <<input, answer, number, users, nextID, writer>>

-----------------------------------------------------------------------------
Handler(r) ==
  \/ Lock(r) \/ Enter(r) \/ Exist(r) \/ TakeId(r) \/ Insert(r) \/ Unlock(r)
  \/ RLock(r) \/ Lookup(r) \/ RUnlock(r)

Next == \E r \in Requests : (\E q \in Inputs[r] : Receive(r, q)) \/ Handler(r)

Spec == Init /\ [][Next]_vars

(* Every goroutine that can move does.  sync.RWMutex serves writers in the *)
(* order of their calls and readers no later than the next writer, so no   *)
(* goroutine waits for ever on a lock that is released again and again.    *)
Fairness ==
  \A r \in Requests :
    /\ WF_vars(Enter(r) \/ Exist(r) \/ TakeId(r) \/ Insert(r) \/ Unlock(r)
               \/ Lookup(r) \/ RUnlock(r))
    /\ SF_vars(Lock(r)) /\ SF_vars(RLock(r))

FairSpec == Spec /\ Fairness

-----------------------------------------------------------------------------
(* Safety.                                                                 *)

User == [id : Nat, login : Logins, name : Names \cup {Absent}, status : {0, 10, 20}]

\* Every variable has its type; the map has each user under its own login.
TypeOK ==
  /\ pc \in [Requests -> {"idle", "lock", "locking", "check", "insert", "unlock",
                           "rlock", "lookup", "runlock", "answered", "done"}]
  /\ DOMAIN input = Requests
  /\ \A r \in Requests : pc[r] # "idle" => input[r] \in Inputs[r]
  /\ DOMAIN answer = Requests
  /\ number \in [Requests -> Nat]
  /\ DOMAIN users \subseteq Logins
  /\ \A l \in DOMAIN users : users[l] \in User /\ users[l].login = l
  /\ nextID \in Nat /\ nextID > 42
  /\ readers \subseteq Requests /\ writer \in Requests \cup {NoRequest}

Writing(r) == pc[r] \in {"check", "insert", "unlock"}
Reading(r) == pc[r] \in {"lookup", "runlock"}

\* Go ends the process when a map is written while another goroutine reads or
\* writes it: whoever is in Create's section is there alone, and nobody is in
\* Profile's section meanwhile.
NoConcurrentMapAccess ==
  \A r \in Requests : Writing(r) =>
    \A s \in Requests \ {r} : ~ Writing(s) /\ ~ Reading(s)

\* id has been taken from nextID and its user is not in the map yet
Inserting == \E r \in Requests : pc[r] = "insert"

\* The ids of the users are 42, 43, ... without a gap and without a repetition,
\* but for the one that is just being inserted: a create that is refused, by
\* validation, by Create or because the login is taken, uses no id up.
IdsWithoutGaps ==
  /\ \A l, m \in DOMAIN users : users[l].id = users[m].id => l = m
  /\ {users[l].id : l \in DOMAIN users} =
       42 .. (IF Inserting THEN nextID - 2 ELSE nextID - 1)

\* Answered before the first lock, or after the last
Done(r) == pc[r] \in {"answered", "done"}

\* The tags of CreateParams, as api.go:60-65 declares them
TagsHold(q) ==
  /\ q.login # Absent /\ Length[q.login] >= 10
  /\ q.status \in {"user", "moderator", "admin", Absent}
  /\ q.age \in 0 .. 128

\* Not the case in which the code takes a field that no tag names in place of full_name
NamedOnce(q) == q.full_name # Absent \/ q.name = Absent

\* A create request reaches the map exactly when it is an authorised POST whose
\* fields fulfil the tags of CreateParams, and its login is not the one that
\* Create fails on; and every user but rvasily stems from such a request and has
\* its status (user by default) and its full_name, whatever its field name is
\* (hw5.md:25), if NamedOnce.
ValidationFollowsTheTags ==
  /\ \A r \in Requests :
       LET q == input[r]
       IN  (Done(r) /\ q.api = "my" /\ q.path = CreatePath) =>
             (answer[r].status \in {200, 409} <=>
                /\ q.method = "POST" /\ q.auth /\ TagsHold(q) /\ q.login # BadUsername)
  /\ \A l \in DOMAIN users \ {Rvasily} : \E r \in Requests :
       /\ pc[r] \in {"unlock", "done"} /\ input[r].login = l /\ TagsHold(input[r])
       /\ NamedOnce(input[r]) => users[l].name = input[r].full_name
       /\ users[l].status = Code[IF input[r].status = Absent THEN "user"
                                                             ELSE input[r].status]
       /\ answer[r] = [status |-> 200, id |-> users[l].id]

-----------------------------------------------------------------------------
(* MyApi implements AtomicRegistry: the requests that reach Profile's or   *)
(* Create's lock are its operations.                                       *)

Reached(r) == pc[r] \notin {"idle", "answered"}

OperationOf(q) ==
  IF q.path = ProfilePath
  THEN [kind |-> "lookup", login |-> ProfileLogin(q)]
  ELSE [kind |-> "create", login |-> q.login, name |-> Name(q),
        status |-> Code[Status(q)]]

Operations ==
  [kind : {"lookup"}, login : Logins \cup {Absent}]
    \cup [kind : {"create"}, login : Logins, name : Names \cup {Absent}, status : {0, 10, 20}]

Phase(r) ==
  IF ~ Reached(r) THEN "idle"
  ELSE IF pc[r] = "done" THEN "returned"
  ELSE IF pc[r] \in {"unlock", "runlock"} THEN "effected" ELSE "called"

phases == [r \in Requests |-> Phase(r)]
operations == [r \in Requests |-> IF Reached(r) THEN OperationOf(input[r]) ELSE Absent]
results == [r \in Requests |-> IF Reached(r) THEN answer[r] ELSE Absent]

Registry == INSTANCE AtomicRegistry WITH
  Callers <- Requests, Operations <- Operations,
  Founder <- [id |-> 42, login |-> Rvasily, name |-> VasilyRomanov, status |-> 20],
  Conflict <- Conflict, NotFound <- NotFound, Nothing <- Absent,
  accounts <- users,
  next <- (IF Inserting THEN nextID - 1 ELSE nextID),
  phase <- phases, operation <- operations, result <- results

\* Every Create and Profile takes effect at one instant between the request and
\* its answer: two creates of a login never both succeed, a profile asked for
\* after a create was answered finds that user, and no user ever changes.
IsAtomicRegistry == Registry!Spec

-----------------------------------------------------------------------------
(* The inductive invariant.                                                *)

\* mu can be read off the program counters
Locks ==
  /\ \A r \in Requests : r \in readers <=> Reading(r)
  /\ \A r \in Requests : Writing(r) \/ pc[r] = "locking" <=> writer = r
  /\ \A r \in Requests : Writing(r) => readers = {}

\* Only what passed the handler's checks is past them
Checked ==
  \A r \in Requests :
    /\ Writing(r) \/ pc[r] \in {"lock", "locking"} => ToCreate(input[r])
    /\ Reading(r) \/ pc[r] = "rlock" => ToProfile(input[r])
    /\ pc[r] = "done" => ToCreate(input[r]) \/ ToProfile(input[r])

\* Between TakeId and Insert the login is free and the number is the last
Fresh ==
  \A r \in Requests : pc[r] = "insert" =>
    input[r].login \notin DOMAIN users /\ number[r] = nextID - 1

\* What each request has been answered
Answers ==
  \A r \in Requests :
    /\ pc[r] \in {"idle", "lock", "locking", "check", "insert", "rlock", "lookup"}
         => answer[r] = Absent
    /\ pc[r] \in {"unlock", "done"} /\ ToCreate(input[r])
         => answer[r] = Conflict \/ answer[r] = [status |-> 200, id |-> number[r]]
    /\ pc[r] = "answered" /\ input[r].api = "my" /\ input[r].path = CreatePath
         => ~ ToCreate(input[r]) /\ answer[r].status \in {400, 403, 406, 500}

\* Every user but rvasily was created by a request, and its answer says so
Origin ==
  \A l \in DOMAIN users \ {Rvasily} : \E r \in Requests :
    /\ pc[r] \in {"unlock", "done"} /\ ToCreate(input[r])
    /\ users[l] = NewUser(r)
    /\ answer[r] = [status |-> 200, id |-> users[l].id]

IInv ==
  TypeOK /\ Locks /\ Checked /\ Fresh /\ Answers /\ IdsWithoutGaps /\ Origin

-----------------------------------------------------------------------------
(* Liveness, under FairSpec.                                               *)

\* Every request is answered: readers and writers do not block each other for
\* ever, and no path through Create leaves mu locked.
EveryRequestAnswered ==
  \A r \in Requests : (pc[r] # "idle") ~> Done(r)
=============================================================================
