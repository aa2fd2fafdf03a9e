--------------------------- MODULE AtomicRegistry ---------------------------
(***************************************************************************)
(* What MyApi promises its callers: a registry of accounts in which every  *)
(* operation takes effect at one instant between its call and its return.  *)
(* Accounts are never changed or removed, and new ones are numbered one    *)
(* after the other; an operation that is refused uses no number up.        *)
(***************************************************************************)
EXTENDS Integers

CONSTANTS
  Callers,     \* ids of operations; each is called at most once
  Operations,  \* records with a kind, "create" or "lookup", and a login
  Founder,     \* the account that exists from the beginning
  Conflict,    \* the result of a create whose login is taken
  NotFound,    \* the result of a lookup that finds nothing
  Nothing      \* no operation, no result yet

VARIABLES accounts, next, phase, operation, result

vars == <<accounts, next, phase, operation, result>>

Exists(l) == l \in DOMAIN accounts

Account(op, n) == [id |-> n, login |-> op.login, name |-> op.name, status |-> op.status]

Init ==
  /\ accounts = [l \in {Founder.login} |-> Founder]
  /\ next = Founder.id + 1
  /\ phase = [c \in Callers |-> "idle"]
  /\ operation = [c \in Callers |-> Nothing]
  /\ result = [c \in Callers |-> Nothing]

Call(c, op) ==
  /\ phase[c] = "idle"
  /\ phase' = [phase EXCEPT ![c] = "called"]
  /\ operation' = [operation EXCEPT ![c] = op]
  /\ UNCHANGED <<accounts, next, result>>

Ready(c, kind) == phase[c] = "called" /\ operation[c].kind = kind

\* The instant at which the operation of c takes effect, with result res
TakesEffect(c, res) ==
  /\ phase' = [phase EXCEPT ![c] = "effected"]
  /\ result' = [result EXCEPT ![c] = res]
  /\ UNCHANGED operation

Create(c) ==
  LET op == operation[c]
  IN  /\ Ready(c, "create") /\ ~ Exists(op.login)
      /\ TakesEffect(c, [status |-> 200, id |-> next])
      /\ accounts' = [l \in DOMAIN accounts \cup {op.login} |->
                        IF l = op.login THEN Account(op, next) ELSE accounts[l]]
      /\ next' = next + 1

Refuse(c) ==
  /\ Ready(c, "create") /\ Exists(operation[c].login)
  /\ TakesEffect(c, Conflict)
  /\ UNCHANGED <<accounts, next>>

Find(c) ==
  /\ Ready(c, "lookup") /\ Exists(operation[c].login)
  /\ TakesEffect(c, [status |-> 200, user |-> accounts[operation[c].login]])
  /\ UNCHANGED <<accounts, next>>

Miss(c) ==
  /\ Ready(c, "lookup") /\ ~ Exists(operation[c].login)
  /\ TakesEffect(c, NotFound)
  /\ UNCHANGED <<accounts, next>>

Return(c) ==
  /\ phase[c] = "effected"
  /\ phase' = [phase EXCEPT ![c] = "returned"]
  /\ UNCHANGED <<accounts, next, operation, result>>

Next ==
  \E c \in Callers :
    \/ \E op \in Operations : Call(c, op)
    \/ Create(c) \/ Refuse(c) \/ Find(c) \/ Miss(c) \/ Return(c)

Spec == Init /\ [][Next]_vars
=============================================================================
