---------------------------- MODULE MC_Exercises ----------------------------
(***************************************************************************)
(* The sequential programs of the course, and the statistics of one Admin  *)
(* client, on small instances.  They share nothing: every behaviour starts *)
(* as one program and stays it.                                            *)
(***************************************************************************)
EXTENDS Statistics, UserSearch, SearchPaging, HandlersGen, I2s, DirTree

VARIABLE program

ExerciseInit ==
  /\ program \in {"Statistics", "UserSearch", "SearchPaging", "HandlersGen", "I2s", "DirTree"}
  /\ StatInit /\ SearchInit /\ PagingInit /\ GenInit /\ i2sInit /\ TreeInit

ExerciseNext ==
  /\ UNCHANGED program
  /\ \/ /\ program = "Statistics" /\ StatNext
        /\ UNCHANGED <<searchVars, pagingVars, genVars, i2sVars, treeVars>>
     \/ /\ program = "UserSearch" /\ SearchNext
        /\ UNCHANGED <<statVars, pagingVars, genVars, i2sVars, treeVars>>
     \/ /\ program = "SearchPaging" /\ PagingNext
        /\ UNCHANGED <<statVars, searchVars, genVars, i2sVars, treeVars>>
     \/ /\ program = "HandlersGen" /\ GenNext
        /\ UNCHANGED <<statVars, searchVars, pagingVars, i2sVars, treeVars>>
     \/ /\ program = "I2s" /\ i2sNext
        /\ UNCHANGED <<statVars, searchVars, pagingVars, genVars, treeVars>>
     \/ /\ program = "DirTree" /\ TreeNext
        /\ UNCHANGED <<statVars, searchVars, pagingVars, genVars, i2sVars>>

ExerciseSpec ==
  ExerciseInit /\ [][ExerciseNext]_<<program, statVars, searchVars, pagingVars, genVars,
                                     i2sVars, treeVars>>

-----------------------------------------------------------------------------
(* hw3: android, msie, both and other are browsers.                        *)

CONSTANTS android, msie, both, other, ann, bob

AnEmail == <<"a", "x">>

MCEmails == {AnEmail, <<"b">>, <<"b", "c", "d">>}

Users(browsers, emails, name) ==
  [kind : {"object"}, long : {FALSE}, browsers : browsers, email : emails, name : name]

\* Regular lines, and then what may go wrong with a line
MCLines ==
  Users({<<android, msie>>, <<both>>, <<other, android, android>>, << >>}, {AnEmail}, {ann})
  \cup Users({<<msie, both>>}, {AnEmail, <<"b">>, <<"b", "c", "d">>, Unset}, {bob})
  \cup Users({Unset}, {AnEmail}, {bob})
  \cup [kind : {"null", "other"}, long : {FALSE}, browsers : {Unset}, email : {Unset},
        name : {Unset}]
  \cup [kind : {"object"}, long : {TRUE}, browsers : {<<both>>}, email : {AnEmail},
        name : {bob}]

MCFiles == [lines : UNION {[1 .. n -> MCLines] : n \in 0 .. 2}, newline : BOOLEAN]

-----------------------------------------------------------------------------
(* hw4: the pages of up to three users, MaxLimit being 2.                  *)

Zoe == [id |-> 1, age |-> 20, name |-> 3, hits |-> {"x"}]
Ann == [id |-> 2, age |-> 20, name |-> 1, hits |-> {}]
Joe == [id |-> 3, age |-> 19, name |-> 2, hits |-> {"x"}]

MCDatasets == {<< >>, <<Zoe>>, <<Zoe, Ann>>, <<Joe, Zoe, Ann>>, <<Ann, Zoe, Joe>>}

MCSearches ==
  [token : {TRUE}, limit : {0 - 1, 0, 1, 2, 3}, offset : {0 - 1, 0, 1, 2, 4},
   query : {""}, field : {"Age"}, order : {0 - 1, 1}]
  \cup [token : {TRUE}, limit : {1}, offset : {0, 1}, query : {"", "x"},
        field : {"", "Id", "Name", "Gender"}, order : {0, 1, 2}]
  \cup [token : {FALSE}, limit : {1}, offset : {0}, query : {""}, field : {"Age"}, order : {0}]

MCOtherReplies ==
  [own : {FALSE}, status : {400}, body : {"noError", "badOrderField", "garbled"}, users : {<< >>}]
  \cup [own : {FALSE}, status : {200}, body : {"garbled"}, users : {<< >>}]

-----------------------------------------------------------------------------
(* hw5: a file like api.go, its parts, and files the generator is not for. *)

MCTexts == {"", "x", "AB", "ab", "user", "admin", "1", "9"}
MCAtoi == [t \in MCTexts |-> CASE t = "1" -> 1 [] t = "9" -> 9 [] OTHER -> NotInt]
MCLength == [t \in MCTexts |-> CASE t = "" -> 0 [] t \in {"x", "1", "9"} -> 1
                                 [] t \in {"ab", "AB"} -> 2 [] OTHER -> 4]
MCLower == [t \in MCTexts |-> IF t = "AB" THEN "ab" ELSE t]

Item(key, vals) == [key |-> key, vals |-> vals]
Tagged(name, type, items) == [name |-> name, type |-> type, tagged |-> TRUE, items |-> items]
Struct(name, fields) == [decl |-> "struct", name |-> name, fields |-> fields]
Func(recv, name, url, auth, method, paramIn) ==
  [decl |-> "func", marked |-> TRUE, recv |-> recv, name |-> name, plain |-> TRUE,
   url |-> url, auth |-> auth, method |-> method, paramIn |-> paramIn,
   result |-> IF recv = "MyApi" THEN "user" ELSE "otheruser"]

Login == Tagged("login", "string", <<Item("required", << >>)>>)
LoginMin == Tagged("login", "string", <<Item("required", << >>), Item("min", <<2>>)>>)
Name == Tagged("name", "string", <<Item("paramname", <<"full_name">>)>>)
Status == Tagged("status", "string", <<Item("enum", <<"user", "admin">>),
                                       Item("default", <<"user">>)>>)
Age == Tagged("age", "int", <<Item("min", <<1>>), Item("max", <<2>>)>>)

ProfileParams == Struct("ProfileParams", <<Login>>)
CreateParams(fields) == Struct("CreateParams", fields)
NewUserStruct == Struct("NewUser", <<Tagged("id", "uint64", << >>)>>)
OtherCreateParams == Struct("OtherCreateParams", <<Age, Login>>)

Profile == Func("MyApi", "profile", "/user/profile", FALSE, "", "ProfileParams")
Create == Func("MyApi", "create", "/user/create", TRUE, "POST", "CreateParams")
OtherCreate == Func("OtherApi", "create", "/user/create", FALSE, "POST", "OtherCreateParams")
Unmarked == [Func("MyApi", "serve", "", FALSE, "", "ProfileParams") EXCEPT !.marked = FALSE]

ApiGo(fields) == <<ProfileParams, CreateParams(fields), NewUserStruct, Profile, Unmarked, Create,
                   OtherCreateParams, OtherCreate>>

All == <<LoginMin, Name, Status, Age>>

\* A field of every sort that the templates do not support, alone
Unsupported ==
  {[Login EXCEPT !.tagged = FALSE], [Login EXCEPT !.items = << >>], [Age EXCEPT !.type = "other"],
   [Login EXCEPT !.type = "int"], [Name EXCEPT !.type = "int"], [Status EXCEPT !.type = "int"],
   [Status EXCEPT !.items = <<Item("enum", <<"user">>)>>]}
  \cup {[Login EXCEPT !.name = name] : name \in {"type", "err", "user"}}
  \cup {[Age EXCEPT !.type = "uint64"], [LoginMin EXCEPT !.items[2].key = "max"]}

MCSources ==
  {ApiGo(All), Reverse(ApiGo(All)), ApiGo(<<Age, Status, Name, LoginMin>>),
   ApiGo(<<Status, [Status EXCEPT !.name = "name"]>>), ApiGo(<<Login, Login>>)}
  \cup {<<Create, CreateParams(<<f>>)>> : f \in Unsupported \cup {Login, Name, Status, Age}}
  \cup {<<CreateParams(<<Age, Name>>), [Create EXCEPT !.method = how]>> : how \in {"POST", ""}}
  \cup {<<ProfileParams, Profile, [Profile EXCEPT !.name = "other"]>>,
        <<ProfileParams, [Profile EXCEPT !.plain = FALSE]>>, <<ProfileParams, Unmarked>>,
        <<ProfileParams, [Profile EXCEPT !.result = ""]>>,
        <<ProfileParams, [Profile EXCEPT !.name = "range"]>>,
        <<ProfileParams, [Profile EXCEPT !.recv = ""]>>, <<NewUserStruct, ProfileParams, Profile>>}

MCParams ==
  [login : {"", "x", "AB"}, full_name : {"", "AB"}, status : {"", "user", "x"},
   age : {"", "1", "9"}]
  \cup [login : {"AB"}, full_name : {""}, name : {"AB"}, status : {"user"}, age : {"1"}]

MCRequests ==
  [recv : {"MyApi"}, url : {"/user/create"}, method : {"POST"}, auth : {TRUE}, params : MCParams]
  \cup [recv : {"MyApi", "OtherApi"}, url : {"/user/create", "/user/profile"},
        method : {"GET", "POST", "PUT"}, auth : BOOLEAN,
        params : [login : {"", "AB"}, age : {"1"}]]

-----------------------------------------------------------------------------
(* hw8: the structs of the tests.  A tree is put together from its parts.  *)

Leaf(x) == << >> :> x
Nest(root, parts) ==
  [p \in DOMAIN root \cup UNION {{<<k>> \o q : q \in DOMAIN parts[k]} : k \in DOMAIN parts} |->
     IF p = << >> THEN root[p] ELSE parts[Head(p)][Tail(p)]]

Num(n) == Leaf([json |-> "number", val |-> n])
Str(s) == Leaf([json |-> "string", val |-> s])
Yes == Leaf([json |-> "bool", val |-> TRUE])
Null == Leaf([json |-> "null"])
Map(parts) == Nest(Leaf([json |-> "map"]), parts)
Slice(parts) == Nest(Leaf([json |-> "slice"]), parts)
StructOf(fields) == Nest(Leaf("struct"), fields)
SliceOf(elem) == Nest(Leaf("slice"), Elem :> elem)

\* The fields, Nope being none of them
ID == 1
Username == 2
Active == 3
SubSimple == 4
ManySimple == 5
Blocks == 6
Nope == 7

SimpleType == StructOf(ID :> Leaf("int") @@ Username :> Leaf("string") @@ Active :> Leaf("bool"))
IDBlock == StructOf(ID :> Leaf("int"))
ComplexType == StructOf(SubSimple :> SimpleType @@ ManySimple :> SliceOf(SimpleType)
                          @@ Blocks :> SliceOf(IDBlock))

Good == Map(ID :> Num(420) @@ Username :> Str("r") @@ Active :> Yes)
Bad == Map(ID :> Str("x") @@ Username :> Str("r"))
EmptyMap == Map(<< >>)

\* Every map with some of these keys and values of these sorts
SimpleData ==
  {Map(f) : f \in UNION {[K -> {Num(0 - 25), Str("r"), Yes, Null}] :
                           K \in SUBSET {ID, Username, Nope}}}

SubData == {Good, Bad, Yes, Slice(<<Good>>)}
ManyData == {Slice(<< >>), Slice(<<Good, Good>>), Slice(<<Good, Bad>>), EmptyMap, Good, Yes,
             Slice(<<Slice(<< >>)>>), Null}
BlockData == {Slice(<<Map(ID :> Num(425))>>), Slice(<<Good>>), Str("b"), Slice(<<Yes>>)}

ComplexData ==
  {Map(SubSimple :> s @@ ManySimple :> q) : s \in SubData, q \in ManyData}
  \cup {Map(SubSimple :> s @@ ManySimple :> q @@ Blocks :> r) :
          s \in SubData, q \in ManyData, r \in BlockData}

OldSimple == Nest(<< >>, ID :> Leaf(7) @@ Username :> Leaf("old"))
OldMany == Nest(Leaf(1), <<OldSimple>>)
OldComplex == Nest(<< >>, SubSimple :> OldSimple @@ ManySimple :> OldMany)

CallsOn(data, type, old) ==
  [data : data, type : {type}, out : {old}, pointer : {TRUE}]

MCCalls ==
  CallsOn(SimpleData \cup SubData \cup {Null}, SimpleType, OldSimple)
  \cup CallsOn(ComplexData \cup SubData, ComplexType, OldComplex)
  \cup CallsOn(ManyData, SliceOf(SimpleType), OldMany)
  \cup [data : {Good}, type : {SimpleType}, out : {OldSimple}, pointer : {FALSE}]

-----------------------------------------------------------------------------
(* hw1: trees of directories 1 and 2 and of files, three deep.             *)

SomePaths == {<<1>>, <<2>>, <<1, 1>>, <<1, 2>>, <<2, 1>>, <<1, 1, 1>>, <<1, 2, 1>>, <<1, 2, 2>>}

\* The leaves are files, but for those called 1 if so chosen; one directory may not
\* open, and reading the top may end in an error
DiskOf(paths, ones, closed, failing) ==
  [p \in paths |->
     [dir |-> \/ p = << >> \/ (ones /\ p[Len(p)] = 1)
              \/ \E q \in paths \ {<< >>} : In(q) = p,
      opens |-> p # closed, fails |-> failing /\ p = << >>]]

MCDisks ==
  LET Whole(P) == \A p \in P \ {<< >>} : In(p) \in P
      shapes == {P \cup {<< >>, <<1>>, <<1, 2>>} : P \in SUBSET SomePaths}
  IN  {DiskOf(P, ones, closed, FALSE) : P \in {S \in shapes : Whole(S)}, ones \in BOOLEAN,
         closed \in {<< >>, <<1>>, <<1, 2>>, <<0>>}}
      \cup {DiskOf({<< >>, <<1>>}, FALSE, <<0>>, TRUE), DiskOf({<< >>}, FALSE, <<0>>, FALSE)}
=============================================================================
