---------------------------- MODULE SearchPaging ----------------------------
(***************************************************************************)
(* part_1/hw4_test_coverage: SearchClient.FindUsers (client.go), the       *)
(* server that its tests run (SearchServerHandler in client_test.go), and  *)
(* what lies between the two: answers that come late, in part or never.    *)
(***************************************************************************)
EXTENDS Integers, Sequences, FiniteSets

CONSTANTS
  Datasets,  \* what dataset.xml may hold: sequences of users
  Searches,  \* [token, limit, offset, query, field, order]; token: it is testToken
  MaxLimit,  \* 25
  OtherReplies  \* what a server other than SearchServerHandler answers

\* A user; hits: the queries found in the name or in About
Person == [id : Int, age : Int, name : Int, hits : SUBSET STRING]

\* What a body may be: nothing, JSON with or without a known "Error", users, no JSON
Bodies == {"none", "noError", "badOrderField", "users", "garbled"}

ASSUME SearchPagingAssumption ==
  /\ MaxLimit \in Nat
  /\ Datasets \subseteq Seq(Person)
  /\ Searches \subseteq [token : BOOLEAN, limit : Int, offset : Int, query : STRING,
                         field : STRING, order : Int]
  /\ OtherReplies \subseteq [own : {FALSE}, status : Nat, body : Bodies, users : Seq(Person)]

VARIABLES
  stage,     \* "idle", "asked", "answered", "returned"
  dataset,
  req,       \* the request as the caller made it
  limit,     \* req.Limit, when FindUsers has changed it
  reply,     \* [own, status, body, users]; own: SearchServerHandler's
  response,  \* [is : {"page", "error"}, why, Users, NextPage]
  trouble    \* the file could not be read, or the answer was late, lost or cut

pagingVars == <<stage, dataset, req, limit, reply, response, trouble>>

-----------------------------------------------------------------------------
(* getUsers: the users found, sorted.                                      *)

FoundIn(ds, r) == {k \in 1 .. Len(ds) : r.query = "" \/ r.query \in ds[k].hits}

Key(u, field) ==
  CASE field = "Age" -> u.age [] field = "Name" -> u.name [] OTHER -> u.id

Compare(u, v, field) ==
  IF Key(u, field) > Key(v, field) THEN 1 ELSE IF Key(u, field) < Key(v, field) THEN 0 - 1 ELSE 0

\* The ways to put the users found in order: as in the file, or so that none comes
\* before a lesser one.  sort.Slice may swap equal users
Orders(ds, r) ==
  {p \in [1 .. Cardinality(FoundIn(ds, r)) -> FoundIn(ds, r)] :
     \A j, k \in DOMAIN p : j < k =>
       /\ p[j] # p[k]
       /\ IF r.order = 0 THEN p[j] < p[k]
          ELSE Compare(ds[p[k]], ds[p[j]], r.field) # r.order}

Sorted(ds, r) == {[k \in DOMAIN p |-> ds[p[k]]] : p \in Orders(ds, r)}

\* The page is users[Offset:] or users[Offset:Limit]
CutToEnd(n) == req.offset + limit > n
OutOfRange(n) == IF CutToEnd(n) THEN req.offset > n ELSE req.offset > limit
Page(users) ==
  SubSeq(users, req.offset + 1, IF CutToEnd(Len(users)) THEN Len(users) ELSE limit)

-----------------------------------------------------------------------------

Fails(why) == [is |-> "error", why |-> why, Users |-> << >>, NextPage |-> FALSE]

Reply(status, body, users) == [own |-> TRUE, status |-> status, body |-> body, users |-> users]

PagingInit ==
  /\ stage = "idle" /\ dataset = << >> /\ req = << >> /\ limit = 0
  /\ reply = Reply(0, "none", << >>) /\ response = Fails("none") /\ trouble = FALSE

\* Fault: the cap after the increment
LimitCappedLast(n) == IF n + 1 > MaxLimit THEN MaxLimit ELSE n + 1

\* One user more than asked for, and no more than the cap
LimitSent(n) == (IF n > MaxLimit THEN MaxLimit ELSE n) + 1

\* A call, up to client.Do
FindUsers(r, ds) ==
  /\ stage = "idle"
  /\ req' = r /\ dataset' = ds
  /\ LET why == IF r.limit < 0 THEN "limit" ELSE IF r.offset < 0 THEN "offset" ELSE "none"
     IN  IF why # "none"
         THEN stage' = "returned" /\ response' = Fails(why) /\ UNCHANGED limit
         ELSE /\ stage' = "asked" /\ UNCHANGED response
              /\ limit' = LimitSent(r.limit)
  /\ UNCHANGED <<reply, trouble>>

\* SearchServerHandler answers.  The message it expects of getValidatedInput for a
\* missing order field is not the one it gets, so its answer has no "Error"
Refuse ==
  /\ stage = "asked" /\ (~ req.token \/ req.field = "")
  /\ stage' = "answered"
  /\ reply' = IF ~ req.token THEN Reply(401, "none", << >>) ELSE Reply(400, "noError", << >>)
  /\ UNCHANGED <<dataset, req, limit, response, trouble>>

\* A page out of range is a panic, and the client's connection ends
SearchServerHandler(users) ==
  /\ stage = "asked" /\ req.token /\ req.field # ""
  /\ IF OutOfRange(Len(users))
     THEN stage' = "returned" /\ response' = Fails("unknown") /\ UNCHANGED reply
     ELSE stage' = "answered" /\ reply' = Reply(200, "users", Page(users)) /\ UNCHANGED response
  /\ UNCHANGED <<dataset, req, limit, trouble>>

FileFails ==
  /\ stage = "asked" /\ req.token /\ req.field # ""
  /\ stage' = "answered" /\ reply' = Reply(500, "none", << >>) /\ trouble' = TRUE
  /\ UNCHANGED <<dataset, req, limit, response>>

\* A server other than that one, as in most tests
OtherServer(r) ==
  /\ stage = "asked"
  /\ stage' = "answered" /\ reply' = r
  /\ UNCHANGED <<dataset, req, limit, response, trouble>>

\* No answer within a second, or none at all, whatever the server did
NoAnswer(why) ==
  /\ stage \in {"asked", "answered"}
  /\ stage' = "returned" /\ response' = Fails(why) /\ trouble' = TRUE
  /\ UNCHANGED <<dataset, req, limit, reply>>

\* The body stops in the middle, and ReadAll's error is overlooked
BodyCut ==
  /\ stage = "answered" /\ reply.body \notin {"none", "garbled"}
  /\ reply' = [reply EXCEPT !.body = "garbled"] /\ trouble' = TRUE
  /\ UNCHANGED <<stage, dataset, req, limit, response>>

\* The rest of FindUsers: one user more than asked for tells that there is a next page
ReceiveReply ==
  /\ stage = "answered"
  /\ stage' = "returned"
  /\ response' =
       CASE reply.status = 401 -> Fails("token")
         [] reply.status = 500 -> Fails("fatal")
         [] reply.status = 400 ->
              Fails(CASE reply.body \in {"garbled", "none"} -> "error json"
                      [] reply.body = "badOrderField" -> "order field"
                      [] OTHER -> "bad request")
         [] OTHER ->
              IF reply.body # "users" THEN Fails("result json")
              ELSE LET data == reply.users
                       more == Len(data) = limit
                   IN  [is |-> "page", why |-> "none", NextPage |-> more,
                        Users |-> IF more THEN SubSeq(data, 1, Len(data) - 1) ELSE data]
  /\ UNCHANGED <<dataset, req, limit, reply, trouble>>

PagingNext ==
  \/ \E r \in Searches, ds \in Datasets : FindUsers(r, ds)
  \/ \E users \in Sorted(dataset, req) : SearchServerHandler(users)
  \/ \E r \in OtherReplies : OtherServer(r)
  \/ \E why \in {"timeout", "unknown"} : NoAnswer(why)
  \/ Refuse \/ FileFails \/ BodyCut \/ ReceiveReply

PagingSpec == PagingInit /\ [][PagingNext]_pagingVars

-----------------------------------------------------------------------------
(* Safety.                                                                 *)

Asked == IF req.limit > MaxLimit THEN MaxLimit ELSE req.limit

Valid == req.limit >= 0 /\ req.offset >= 0 /\ req.token

\* The fields that readme.md:17 sorts by.  Of the others it wants the empty one to mean
\* Name and the rest refused; the server refuses the empty one and sorts by Id for the rest
Sortable == {"Id", "Age", "Name"}

\* Where users[Offset:Limit] is the page: from the start, or up to the end
Reachable(n) == req.offset = 0 \/ (req.offset <= n /\ n < req.offset + Asked + 1)

\* Of what SearchServerHandler answers to a search by Id, Age or Name, FindUsers gives
\* the caller users of the page asked for, in a right order, from its start and without
\* a gap, never announces a next page that is not there, and refuses what is invalid;
\* where the cut is right, it gives all of the page, announces the next page if there
\* is one, and fails only if the file, the server or the network did
\* (client.go:67-135, client_test.go:121-130).
PageAskedFor ==
  (stage = "returned" /\ reply.own /\ req.field \in Sortable) =>
    LET n == Cardinality(FoundIn(dataset, req))
        last == IF req.offset + Asked < n THEN req.offset + Asked ELSE n
    IN  /\ response.is = "page" =>
             /\ Valid
             /\ response.NextPage => n > req.offset + Asked
             /\ \E users \in Sorted(dataset, req) : \E m \in req.offset .. last :
                  /\ response.Users = SubSeq(users, req.offset + 1, m)
                  /\ Reachable(n) => m = last /\ response.NextPage = (n > last)
        /\ (response.is = "error" /\ Valid /\ Reachable(n)) => trouble

\* The inductive invariant: the call under way is for what has passed the checks, and
\* what SearchServerHandler has answered is what it had to
CallUnderWay ==
  stage \in {"asked", "answered"} =>
    /\ dataset \in Datasets /\ req \in Searches
    /\ req.limit >= 0 /\ req.offset >= 0 /\ limit = LimitSent(req.limit)

OwnAnswer ==
  (stage = "answered" /\ reply.own) =>
    \/ reply.status = 401 /\ ~ req.token
    \/ reply.status = 400 /\ req.field = ""
    \/ reply.status = 500 /\ trouble
    \/ /\ reply.status = 200 /\ Valid
       /\ reply.body # "users" => trouble
       /\ \E users \in Sorted(dataset, req) :
            ~ OutOfRange(Len(users)) /\ reply.users = Page(users)

PagingIInv ==
  /\ stage \in {"idle", "asked", "answered", "returned"}
  /\ reply \in [own : BOOLEAN, status : Nat, body : Bodies, users : Seq(Person)]
  /\ CallUnderWay /\ OwnAnswer /\ PageAskedFor
=============================================================================
