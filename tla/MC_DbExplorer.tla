---------------------------- MODULE MC_DbExplorer ----------------------------
(***************************************************************************)
(* An instance of DbExplorer for TLC: table items with the columns id, title *)
(* (NOT NULL), size (int, NOT NULL) and updated, and table events, with a    *)
(* column of a type that db_explorer does not know between two others.       *)
(***************************************************************************)
EXTENDS DbExplorer

CONSTANTS
  r1, r2, r3,
  items, events, id, title, size, updated, at, note,
  a, b, seven,      \* strings; seven is "7"
  yes, list         \* true and an array

MCFields == (items :> <<id, title, size, updated>> @@ events :> <<id, at, note>>)
MCId == (items :> id @@ events :> id)
MCType ==
  (items :> (id :> "int" @@ title :> "varchar" @@ size :> "int" @@ updated :> "text")
   @@ events :> (id :> "int" @@ at :> "other" @@ note :> "varchar"))
MCRequired ==
  (items :> (id :> TRUE @@ title :> TRUE @@ size :> TRUE @@ updated :> FALSE)
   @@ events :> (id :> TRUE @@ at :> FALSE @@ note :> TRUE))

\* Strings are stored as they are in a text column, numbers and booleans as their
\* digits (b stands for those of 0 and 1); an int column refuses a string that is
\* no number.
MCStored ==
  [ty \in {"varchar", "text", "int", "other"} |->
     [v \in {Empty, a, b, seven, 0, 1, 7, yes, list} |->
        CASE v = list -> Rejected
          [] ty = "int" /\ v \in {a, b, Empty} -> Rejected
          [] ty = "int" /\ v = seven -> 7
          [] ty = "int" /\ v = yes -> 1
          [] ty \in {"varchar", "text"} /\ v = 7 -> seven
          [] ty \in {"varchar", "text"} /\ v \in {0, 1, yes} -> b
          [] OTHER -> IF v = yes THEN 1 ELSE v]]

MCRows ==
  (items :> (1 :> (id :> 1 @@ title :> a @@ size :> 0 @@ updated :> Null))
   @@ events :> (1 :> (id :> 1 @@ at :> 0 @@ note :> a)))
MCKey == (items :> 2 @@ events :> 2)

Plain(m, p, body) ==
  [method |-> m, path |-> p, limit |-> NotANumber, offset |-> NotANumber, body |-> body]

NoBody == [c \in {} |-> Null]

Post(k, body) == Plain("POST", <<items, k>>, body)
PutItem(body) == Plain("PUT", <<items>>, body)
Get(p) == Plain("GET", p, NoBody)
Delete(p) == Plain("DELETE", p, NoBody)

Bodies == {title :> b, updated :> b, title :> b @@ size :> 7}

\* Requests that read and write the same rows
Common ==
  {Post(1, body) : body \in Bodies \cup {updated :> Null}}
  \cup {PutItem(body) : body \in Bodies \cup {NoBody}}
  \cup {Post(2, title :> b), Delete(<<items, 1>>), Delete(<<items, 2>>),
        Get(<<items, 1>>), Get(<<items>>)}

OddBodies ==
  {NoBody, size :> 7, size :> yes, size :> a, size :> seven, title :> Null, title :> 7,
   id :> 7, id :> 1, updated :> list, title :> b @@ Unknown :> a, title :> b @@ updated :> a}

\* Requests on both sides of every check
Odd ==
  {Post(1, body) : body \in OddBodies} \cup {PutItem(body) : body \in OddBodies}
  \cup {Post(NotANumber, title :> b), Delete(<<items, NotANumber>>), Delete(<<items>>),
        Delete(<<Unknown, 1>>), Plain("POST", <<items>>, NoBody),
        Plain("POST", <<Unknown, 1>>, NoBody), Plain("PUT", <<Unknown>>, NoBody),
        Plain("PUT", <<events>>, NoBody), Plain("PUT", <<events>>, note :> b),
        Plain("POST", <<events, 1>>, at :> 7), Plain("POST", <<events, 1>>, at :> yes),
        Plain("HEAD", <<items>>, NoBody)}
  \cup {Get(p) : p \in {<<Empty>>, <<Unknown>>, <<Unknown, 1>>, <<items, 2>>,
                        <<items, 1, Empty>>, <<events>>, <<events, 1>>}}
  \cup {[Get(<<items>>) EXCEPT !.limit = n, !.offset = o] : n \in {0 - 1, 1}, o \in {NotANumber, 1}}

MCInputs == [r \in Requests |-> IF r = r3 THEN Common \cup Odd ELSE Common]

\* An update of two columns with values of one type
PairInputs == [r \in Requests |-> {Post(1, title :> b @@ updated :> a)} \cup Common]
=============================================================================
