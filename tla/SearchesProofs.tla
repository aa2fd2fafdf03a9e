--------------------------- MODULE SearchesProofs ---------------------------
(***************************************************************************)
(* Proofs about the two searches of the course.  UserSearch: FastSearch    *)
(* prints what SlowSearch prints, for every file of regular lines,         *)
(* whatever the pool holds.  SearchPaging: what FindUsers returns is the   *)
(* page that was asked for, for all datasets, searches and caps.           *)
(***************************************************************************)
EXTENDS UserSearch, SearchPaging, FiniteSetTheorems, TLAPS

-----------------------------------------------------------------------------
(* UserSearch.                                                             *)

\* A prefix of regular lines is regular
LEMMA RegularPrefix ==
  ASSUME NEW lines, NEW n \in Nat, Regular(lines, n + 1)
  PROVE  Regular(lines, n)
BY DEF Regular

\* Of a regular line every browser is a string
LEMMA RegularStrings ==
  \A lines : \A n \in Nat : Regular(lines, n) =>
    \A k \in 1 .. n : Strings(lines[k]) = Elements(lines[k].browsers)
<1>. SUFFICES ASSUME NEW lines, NEW n \in Nat, Regular(lines, n), NEW k \in 1 .. n
              PROVE  Strings(lines[k]) = Elements(lines[k].browsers)
  OBVIOUS
<1>1. lines[k].browsers \in Seq(Browsers) /\ lines[k].kind = "object"
  BY DEF Regular
<1>2. lines[k].browsers \in Seq(Browsers \cup {Wrong})
  BY <1>1
<1>3. lines[k].browsers \notin {Unset, Wrong}
  BY <1>2, UserSearchAssumption
<1>4. \A j \in 1 .. Len(lines[k].browsers) : lines[k].browsers[j] # Wrong
  BY <1>1, UserSearchAssumption
<1>. QED  BY <1>1, <1>3, <1>4 DEF Strings, Elements

\* A regular line is decoded, and nothing of the User before it is left
LEMMA RegularDecodes ==
  ASSUME NEW lines, NEW n \in Nat, Regular(lines, n), NEW k \in 1 .. n, NEW old
  PROVE  /\ Decodes(lines[k])
         /\ Unmarshal(lines[k], old) = [browsers |-> lines[k].browsers,
                                        email |-> lines[k].email, name |-> lines[k].name]
<1>1. /\ lines[k].browsers \in Seq(Browsers) /\ lines[k].kind = "object"
      /\ lines[k].name \in UserNames /\ lines[k].email \in Emails
  BY DEF Regular
<1>2. lines[k].browsers \in Seq(Browsers \cup {Wrong})
  BY <1>1
<1>3. /\ lines[k].browsers \notin {Unset, Wrong}
      /\ lines[k].name \notin {Unset, Wrong} /\ lines[k].email \notin {Unset, Wrong}
  BY <1>1, <1>2, UserSearchAssumption
<1>4. \A j \in 1 .. Len(lines[k].browsers) : lines[k].browsers[j] # Wrong
  BY <1>1, UserSearchAssumption
<1>. QED  BY <1>1, <1>3, <1>4 DEF Decodes, Unmarshal

\* The strings of one line more
LEMMA AllStringsNext ==
  \A lines : \A n \in Nat \ {0} :
    AllStrings(lines, n) = AllStrings(lines, n - 1) \cup Strings(lines[n])
<1>. SUFFICES ASSUME NEW lines, NEW n \in Nat \ {0}
              PROVE  AllStrings(lines, n) = AllStrings(lines, n - 1) \cup Strings(lines[n])
  OBVIOUS
<1>1. \A k : k \in 1 .. n <=> k \in 1 .. n - 1 \/ k = n
  OBVIOUS
<1>. QED  BY <1>1, Zenon DEF AllStrings

LEMMA AllStringsNone == \A lines : AllStrings(lines, 0) = {}
BY DEF AllStrings

\* SlowSearch's result grows by the next line, if that is wanted
LEMMA SlowFoundNext ==
  ASSUME NEW lines, NEW n \in Nat
  PROVE  SlowFound(lines, n + 1) =
           SlowFound(lines, n) \cup (IF Wanted(lines[n + 1]) THEN {Entry(lines, n + 1)} ELSE {})
<1>1. \A j : j \in 1 .. n + 1 <=> j \in 1 .. n \/ j = n + 1
  OBVIOUS
<1>. QED  BY <1>1 DEF SlowFound

LEMMA SlowFoundNone == \A lines : SlowFound(lines, 0) = {}
BY DEF SlowFound

\* Lists and appending
LEMMA ListsAppend ==
  ASSUME NEW T, NEW q \in Seq(T), NEW e \in T, NEW E, Lists(q, E), NEW n \in Int,
         e[1] = n, \A x \in E : x[1] \in Int /\ x[1] < n
  PROVE  Lists(Append(q, e), E \cup {e})
<1>. DEFINE r == Append(q, e)
<1>1. /\ Len(q) \in Nat /\ Len(r) = Len(q) + 1 /\ r[Len(q) + 1] = e
      /\ \A k \in 1 .. Len(q) : r[k] = q[k]
  OBVIOUS
<1>2. \A k : k \in 1 .. Len(r) <=> k \in 1 .. Len(q) \/ k = Len(q) + 1
  BY <1>1
<1>. HIDE DEF r
<1>3. E \cup {e} = {r[k] : k \in 1 .. Len(r)}
  BY <1>1, <1>2 DEF Lists
<1>4. ASSUME NEW j \in 1 .. Len(r), NEW k \in 1 .. Len(r), j < k
      PROVE  r[j][1] < r[k][1]
  <2>1. j \in 1 .. Len(q) /\ r[j] = q[j] /\ q[j] \in E
    BY <1>1, <1>2, <1>4 DEF Lists
  <2>2. CASE k = Len(q) + 1
    BY <1>1, <2>1, <2>2
  <2>3. CASE k \in 1 .. Len(q)
    BY <1>1, <1>4, <2>1, <2>3 DEF Lists
  <2>. QED  BY <1>2, <2>2, <2>3
<1>5. Lists(r, E \cup {e})
  BY <1>3, <1>4 DEF Lists
<1>. QED  BY <1>5 DEF r

-----------------------------------------------------------------------------
(* The inductive invariant.  The new value of Seen, of LinesDone and of    *)
(* what was found is computed for every action, and the rest follows.      *)

LEMMA SearchInitInv == SearchInit => SearchIInv
BY DEF SearchInit, SearchIInv, Started

\* What every file has
LEMMA FileType ==
  ASSUME NEW f \in Files
  PROVE  f.lines \in Seq(Line) /\ Len(f.lines) \in Nat
<1>1. f \in File
  BY UserSearchAssumption
<1>. QED  BY <1>1 DEF File

\* A search starts with nothing seen
LEMMA SearchStart ==
  ASSUME SearchIInv, NEW f \in Files, FastSearch(f)
  PROVE  SearchIInv'
<1>1. phase' = "lines" /\ file' = f /\ pos' = 0 /\ checked' = << >> /\ count' = 0
        /\ i' = 0 - 1 /\ users' = << >>
  BY DEF FastSearch
<1>2. Started'
  BY <1>1, FileType DEF Started
<1>3. LinesDone' = 0 /\ Seen' = {}
  BY <1>1, AllStringsNone DEF LinesDone, Seen
<1>4. DOMAIN << >> = {} /\ IsFiniteSet({}) /\ Cardinality({}) = 0
  BY FS_EmptySet
<1>5. Lists(<< >>, {})
  BY DEF Lists
<1>6. SoFar'
  <2>1. << >> \in Seq(Nat \X UserNames \X Emails)
    OBVIOUS
  <2>. QED  BY <1>1, <1>3, <1>4, <1>5, <2>1, SlowFoundNone DEF SoFar
<1>7. LookedAt'
  BY <1>1 DEF LookedAt
<1>. QED  BY <1>1, <1>2, <1>6, <1>7 DEF SearchIInv

\* A line is read: the loop over its browsers has seen none of them
LEMMA SearchReadLine ==
  ASSUME SearchIInv, ReadLine
  PROVE  SearchIInv'
<1>. DEFINE lines == file.lines
<1>1. /\ phase = "lines" /\ pos' = pos + 1 /\ file' = file /\ b' = 1
      /\ userAndroid' = FALSE /\ userMSIE' = FALSE
      /\ UNCHANGED <<checked, count, i, users>>
      /\ phase' \in {"browsers", "panicked"}
      /\ pos + 1 \in 1 .. Len(lines)
  BY DEF ReadLine, Readable
<1>2. file \in Files /\ pos \in Nat /\ lines \in Seq(Line) /\ Len(lines) \in Nat
  BY <1>1, FileType DEF SearchIInv, Started
<1>3. Started'
  BY <1>1, <1>2 DEF Started
<1>4. ASSUME Regular(lines, pos + 1)
      PROVE  phase' # "panicked" /\ LookedAt' /\ SoFar'
  <2>1. Regular(lines, pos)
    BY <1>2, <1>4, RegularPrefix
  <2>2. SoFar
    BY <1>1, <2>1 DEF SearchIInv
  <2>3. \A old : /\ Decodes(lines[pos + 1])
                  /\ Unmarshal(lines[pos + 1], old)
                       = [browsers |-> lines[pos + 1].browsers, email |-> lines[pos + 1].email,
                          name |-> lines[pos + 1].name]
    <3>1. pos + 1 \in Nat /\ pos + 1 \in 1 .. pos + 1
      BY <1>2
    <3>. QED  BY <1>4, <3>1, RegularDecodes
  <2>4. phase' = "browsers" /\ user' = [browsers |-> lines[pos + 1].browsers,
                                        email |-> lines[pos + 1].email,
                                        name |-> lines[pos + 1].name]
    BY <2>3 DEF ReadLine
  <2>5. lines[pos + 1].browsers \in Seq(Browsers)
    BY <1>1, <1>4 DEF Regular
  <2>6. LookedAt'
    <3>1. user'.browsers \in Seq(Browsers) /\ Len(user'.browsers) \in Nat
      BY <2>4, <2>5
    <3>2. b' \in 1 .. Len(user'.browsers) + 1
      BY <1>1, <3>1
    <3>3. ~ (\E n \in 1 .. b' - 1 : user'.browsers[n] \in Androids)
            /\ ~ (\E n \in 1 .. b' - 1 : user'.browsers[n] \in MSIEs)
      BY <1>1
    <3>4. pos' > 0
      BY <1>1, <1>2
    <3>. QED  BY <1>1, <2>4, <3>2, <3>3, <3>4 DEF LookedAt
  <2>7. LinesDone = pos /\ LinesDone' = pos
    BY <1>1, <1>2, <2>4 DEF LinesDone
  <2>8. InLoop' = {}
    BY <1>1 DEF InLoop
  <2>9. Seen' = Seen
    BY <1>1, <2>4, <2>7, <2>8 DEF Seen
  <2>10. SoFar'
    BY <1>1, <2>2, <2>7, <2>9 DEF SoFar
  <2>. QED  BY <2>4, <2>6, <2>10
<1>. QED  BY <1>1, <1>3, <1>4 DEF SearchIInv

\* One browser more has been seen, and counted if it is new and wanted
LEMMA SearchNextBrowser ==
  ASSUME SearchIInv, NextBrowser
  PROVE  SearchIInv'
<1>. DEFINE lines == file.lines
            browser == user.browsers[b]
            W == Androids \cup MSIEs
<1>1. /\ phase = "browsers" /\ b <= Len(user.browsers) /\ b' = b + 1
      /\ UNCHANGED <<phase, file, pos, user, i, users>>
  BY DEF NextBrowser, scan
<1>2. Started'
  BY <1>1 DEF SearchIInv, Started
<1>3. ASSUME Regular(lines, pos)
      PROVE  LookedAt' /\ SoFar'
  <2>1. LookedAt /\ SoFar
    BY <1>1, <1>3 DEF SearchIInv
  <2>2. pos \in Nat /\ pos > 0 /\ user.browsers = lines[pos].browsers
    BY <1>1, <2>1, FileType DEF LookedAt, SearchIInv, Started
  <2>3. user.browsers \in Seq(Browsers)
    BY <1>3, <2>2 DEF Regular
  <2>4. b \in 1 .. Len(user.browsers) /\ b' \in 1 .. Len(user.browsers) + 1
          /\ browser \in Browsers /\ Len(user.browsers) \in Nat
    BY <1>1, <2>1, <2>3 DEF LookedAt
  <2>5. \A n : n \in 1 .. b' - 1 <=> n \in 1 .. b - 1 \/ n = b
    BY <1>1, <2>4
  <2>6. Seen' = Seen \cup {browser}
    <3>1. InLoop' = InLoop \cup {browser}
      BY <1>1, <2>5 DEF InLoop
    <3>2. LinesDone' = LinesDone
      BY <1>1 DEF LinesDone
    <3>3. Seen = AllStrings(lines, LinesDone) \cup InLoop
      BY <1>1 DEF Seen
    <3>4. Seen' = AllStrings(lines, LinesDone) \cup InLoop'
      BY <1>1, <3>2 DEF Seen
    <3>. HIDE DEF browser
    <3>. QED  BY <3>1, <3>3, <3>4
  <2>7. browser \in Seen => checked[browser] = (browser \in W)
    BY <2>1 DEF SoFar
  <2>8. DOMAIN checked = Seen
    BY <2>1 DEF SoFar
  <2>9. /\ userMSIE' = (userMSIE \/ browser \in Androids)
        /\ userAndroid' = (userAndroid \/ browser \in MSIEs)
    BY <2>7, <2>8 DEF NextBrowser
  <2>10. LookedAt'
    <3>1. userMSIE' = (\E n \in 1 .. b' - 1 : user.browsers[n] \in Androids)
      BY <1>1, <2>1, <2>5, <2>9 DEF LookedAt
    <3>2. userAndroid' = (\E n \in 1 .. b' - 1 : user.browsers[n] \in MSIEs)
      BY <1>1, <2>1, <2>5, <2>9 DEF LookedAt
    <3>. QED  BY <1>1, <2>1, <2>4, <3>1, <3>2 DEF LookedAt
  <2>11. /\ DOMAIN checked' = Seen'
         /\ \A x \in Seen' : checked'[x] = (x \in W)
    <3>1. CASE browser \in Seen
      BY <2>1, <2>6, <2>8, <3>1 DEF NextBrowser, SoFar
    <3>2. CASE browser \notin Seen
      <4>1. checked' = [x \in Seen \cup {browser} |->
                         IF x = browser THEN browser \in MSIEs \/ browser \in Androids
                         ELSE checked[x]]
        BY <2>8, <3>2 DEF NextBrowser
      <4>. QED  BY <2>1, <2>6, <4>1 DEF SoFar
    <3>. QED  BY <3>1, <3>2
  <2>12. IsFiniteSet(Seen') /\ count' = Cardinality(Seen' \cap W)
    <3>1. IsFiniteSet(Seen) /\ count = Cardinality(Seen \cap W)
      BY <2>1 DEF SoFar
    <3>2. IsFiniteSet(Seen \cap W)
      BY <3>1, FS_Subset
    <3>3. IsFiniteSet(Seen')
      BY <2>6, <3>1, FS_AddElement
    <3>4. CASE browser \notin Seen /\ browser \in W
      <4>1. Seen' \cap W = (Seen \cap W) \cup {browser} /\ browser \notin Seen \cap W
        BY <2>6, <3>4
      <4>2. count' = count + 1
        BY <2>8, <3>4 DEF NextBrowser
      <4>. QED  BY <3>1, <3>2, <3>3, <4>1, <4>2, FS_AddElement
    <3>5. CASE ~ (browser \notin Seen /\ browser \in W)
      <4>1. Seen' \cap W = Seen \cap W
        BY <2>6, <3>5
      <4>2. count' = count
        BY <2>8, <3>5 DEF NextBrowser
      <4>. QED  BY <3>1, <3>3, <4>1, <4>2
    <3>. QED  BY <3>4, <3>5
  <2>13. SoFar'
    <3>1. LinesDone' = LinesDone
      BY <1>1 DEF LinesDone
    <3>. QED  BY <1>1, <2>1, <2>11, <2>12, <3>1 DEF SoFar
  <2>. QED  BY <2>10, <2>13
<1>. QED  BY <1>1, <1>2, <1>3 DEF SearchIInv

\* The line is done: it is appended if it is wanted
LEMMA SearchEndOfUser ==
  ASSUME SearchIInv, EndOfUser
  PROVE  SearchIInv'
<1>. DEFINE lines == file.lines
<1>1. /\ phase = "browsers" /\ b > Len(user.browsers) /\ i' = i + 1
      /\ UNCHANGED <<file, pos, user, b, checked, count>>
      /\ phase' \in {"lines", "panicked"}
  BY DEF EndOfUser, scan, flags
<1>2. Started'
  BY <1>1 DEF SearchIInv, Started
<1>3. ASSUME Regular(lines, pos)
      PROVE  phase' # "panicked" /\ LookedAt' /\ SoFar'
  <2>1. LookedAt /\ SoFar
    BY <1>1, <1>3 DEF SearchIInv
  <2>2. pos \in Nat /\ pos > 0 /\ pos \in 1 .. pos
          /\ user.browsers = lines[pos].browsers
          /\ user.name = lines[pos].name /\ user.email = lines[pos].email
    BY <1>1, <2>1, FileType DEF LookedAt, SearchIInv, Started
  <2>3. /\ user.browsers \in Seq(Browsers) /\ user.name \in UserNames /\ user.email \in Emails
        /\ Wanted(lines[pos]) => Len(user.email) = 2
    BY <1>3, <2>2 DEF Regular
  <2>4. b = Len(user.browsers) + 1 /\ Len(user.browsers) \in Nat
    BY <1>1, <2>1, <2>3 DEF LookedAt
  <2>5. Strings(lines[pos]) = InLoop
    <3>1. b - 1 = Len(user.browsers)
      BY <2>4
    <3>2. Strings(lines[pos]) = Elements(lines[pos].browsers)
      BY <1>3, <2>2, RegularStrings
    <3>. QED  BY <2>2, <3>1, <3>2 DEF InLoop, Elements
  <2>6. Wanted(lines[pos]) <=> userAndroid /\ userMSIE
    BY <1>1, <2>1, <2>5 DEF Wanted, LookedAt, InLoop
  <2>7. LinesDone = pos - 1 /\ LinesDone' = pos /\ LinesDone \in Nat /\ LinesDone + 1 = pos
    BY <1>1, <2>2 DEF LinesDone
  <2>8. Seen' = Seen
    <3>1. Seen' = AllStrings(lines, pos)
      BY <1>1, <2>7 DEF Seen
    <3>2. Seen = AllStrings(lines, pos - 1) \cup Strings(lines[pos])
      BY <1>1, <2>5, <2>7 DEF Seen
    <3>3. AllStrings(lines, pos) = AllStrings(lines, pos - 1) \cup Strings(lines[pos])
      <4>. HIDE DEF lines
      <4>. QED  BY <2>2, AllStringsNext
    <3>. QED  BY <3>1, <3>2, <3>3
  <2>9. i' = LinesDone' - 1 /\ i' = pos - 1
    BY <1>1, <2>1, <2>7 DEF SoFar
  <2>10. phase' = "lines" /\ users' \in Seq(Nat \X UserNames \X Emails)
           /\ Lists(users', SlowFound(lines, pos))
    <3>. DEFINE T == Nat \X UserNames \X Emails
                E == SlowFound(lines, pos - 1)
                e == Entry(lines, pos)
    <3>1. users \in Seq(T) /\ Lists(users, E)
      BY <2>1, <2>7 DEF SoFar
    <3>2. SlowFound(lines, pos) = E \cup (IF Wanted(lines[pos]) THEN {e} ELSE {})
      BY <2>7, SlowFoundNext
    <3>3. CASE ~ Wanted(lines[pos])
      <4>1. phase' = "lines" /\ users' = users
        BY <2>6, <3>3 DEF EndOfUser
      <4>. QED  BY <3>1, <3>2, <3>3, <4>1
    <3>4. CASE Wanted(lines[pos])
      <4>1. Len(user.email) = 2
        BY <2>3, <3>4
      <4>2. user.email \in Seq(STRING)
        BY <2>3, UserSearchAssumption
      <4>3. SubSeq(user.email, 1, 2) = user.email
        BY <4>1, <4>2
      <4>4. e = <<i', user.name, SubSeq(user.email, 1, 2)>>
        BY <2>2, <2>9, <4>3 DEF Entry
      <4>5. phase' = "lines" /\ users' = Append(users, e)
        BY <2>6, <3>4, <4>1, <4>4 DEF EndOfUser
      <4>6. e \in T /\ e[1] = pos - 1 /\ pos - 1 \in Int
        BY <2>2, <2>3 DEF Entry
      <4>7. \A x \in E : x[1] \in Int /\ x[1] < pos - 1
        BY <2>2 DEF SlowFound, Entry
      <4>8. Lists(Append(users, e), E \cup {e})
        <5>. HIDE DEF e, E, T
        <5>. QED  BY <3>1, <4>6, <4>7, ListsAppend
      <4>9. Append(users, e) \in Seq(T)
        <5>. HIDE DEF e, T
        <5>. QED  BY <3>1, <4>6
      <4>. QED  BY <3>2, <3>4, <4>5, <4>8, <4>9
    <3>. QED  BY <3>3, <3>4
  <2>11. SoFar'
    BY <1>1, <2>1, <2>7, <2>8, <2>9, <2>10 DEF SoFar
  <2>12. LookedAt'
    BY <2>10 DEF LookedAt
  <2>. QED  BY <2>10, <2>11, <2>12
<1>. QED  BY <1>1, <1>2, <1>3 DEF SearchIInv

LEMMA SearchInvNext == SearchIInv /\ [SearchNext]_searchVars => SearchIInv'
<1>. SUFFICES ASSUME SearchIInv, [SearchNext]_searchVars PROVE SearchIInv'
  OBVIOUS
<1>1. CASE \E f \in Files : FastSearch(f)
  BY <1>1, SearchStart
<1>2. CASE ReadLine
  BY <1>2, SearchReadLine
<1>3. CASE NextBrowser
  BY <1>3, SearchNextBrowser
<1>4. CASE EndOfUser
  BY <1>4, SearchEndOfUser
<1>5. CASE Finish
  <2>1. LinesDone' = LinesDone /\ Seen' = Seen
    BY <1>5 DEF Finish, scan, flags, LinesDone, Seen, InLoop
  <2>2. Started'
    BY <1>5 DEF Finish, scan, flags, SearchIInv, Started
  <2>3. SoFar => SoFar'
    BY <1>5, <2>1 DEF Finish, scan, flags, SoFar
  <2>4. LookedAt'
    BY <1>5 DEF Finish, LookedAt
  <2>. QED  BY <1>5, <2>2, <2>3, <2>4 DEF Finish, scan, flags, SearchIInv
<1>6. CASE UNCHANGED searchVars
  <2>1. LinesDone' = LinesDone /\ Seen' = Seen
    BY <1>6 DEF searchVars, LinesDone, Seen, InLoop
  <2>2. Started'
    BY <1>6 DEF searchVars, SearchIInv, Started
  <2>3. SoFar => SoFar'
    BY <1>6, <2>1 DEF searchVars, SoFar
  <2>4. LookedAt => LookedAt'
    BY <1>6 DEF searchVars, LookedAt
  <2>. QED  BY <1>6, <2>2, <2>3, <2>4 DEF searchVars, SearchIInv
<1>. QED  BY <1>1, <1>2, <1>3, <1>4, <1>5, <1>6 DEF SearchNext

-----------------------------------------------------------------------------
\* What SubSeq cuts out of a sequence
LEMMA SubSeqFacts ==
  ASSUME NEW S, NEW q \in Seq(S), NEW a \in Nat \ {0}, NEW c \in Nat,
         a <= c + 1, c <= Len(q)
  PROVE  /\ SubSeq(q, a, c) \in Seq(S) /\ Len(SubSeq(q, a, c)) = c + 1 - a
         /\ \A k \in 1 .. c + 1 - a : SubSeq(q, a, c)[k] = q[a + k - 1]
OBVIOUS

\* SlowSearch finds the same in equal lines
LEMMA SameLines ==
  ASSUME NEW lines, NEW more, NEW n \in Nat, \A k \in 1 .. n : lines[k] = more[k]
  PROVE  SlowFound(lines, n) = SlowFound(more, n) /\ SeenBrowsers(lines, n) = SeenBrowsers(more, n)
<1>1. AllStrings(lines, n) = AllStrings(more, n)
  BY Zenon DEF AllStrings
<1>2. SlowFound(lines, n) = SlowFound(more, n)
  <2>1. \A j \in 1 .. n : (Wanted(lines[j]) <=> Wanted(more[j])) /\ Entry(lines, j) = Entry(more, j)
    BY DEF Wanted, Entry
  <2>. QED  BY <2>1 DEF SlowFound
<1>. QED  BY <1>1, <1>2 DEF SeenBrowsers

\* It does not panic at regular lines
LEMMA RegularPrints ==
  ASSUME NEW lines, NEW n \in Nat, Regular(lines, n), NEW k \in 1 .. n
  PROVE  ~ SlowPanics(lines[k])
<1>1. lines[k].kind = "object" /\ lines[k].email \in Emails
  BY DEF Regular
<1>. QED  BY <1>1 DEF SlowPanics

\* Of regular lines alone it prints what is found in them
LEMMA SlowOfCut ==
  ASSUME file \in Files, NEW n \in 1 .. Len(file.lines), Regular(file.lines, n)
  PROVE  SlowSearch(Cut(n)) = [is |-> "prints", found |-> SlowFound(file.lines, n),
                               browsers |-> Cardinality(SeenBrowsers(file.lines, n))]
<1>. DEFINE q == SubSeq(file.lines, 1, n)
<1>1. file.lines \in Seq(Line) /\ Len(file.lines) \in Nat
  BY FileType
<1>2. n \in Nat /\ Len(q) = n /\ \A k \in 1 .. n : q[k] = file.lines[k]
  BY <1>1, SubSeqFacts
<1>3. Cut(n).lines = q /\ Cut(n).newline = FALSE
  BY DEF Cut
<1>. HIDE DEF q
<1>4. q # << >>
  BY <1>1, <1>2
<1>5. Split(Cut(n)) = q
  BY <1>3, <1>4 DEF Split
<1>6. \A k \in 1 .. n : ~ SlowPanics(q[k])
  BY <1>2, RegularPrints
<1>7. SlowFound(q, n) = SlowFound(file.lines, n) /\ SeenBrowsers(q, n) = SeenBrowsers(file.lines, n)
  BY <1>2, SameLines
<1>. QED  BY <1>2, <1>5, <1>6, <1>7 DEF SlowSearch

\* If it prints anything of a file, that does not end in a newline; and lines that add
\* nothing change nothing
LEMMA SlowOfWhole ==
  ASSUME file \in Files, pos \in 0 .. Len(file.lines), SlowSearch(file).is = "prints",
         RestAddsNothing
  PROVE  SlowSearch(file) = [is |-> "prints", found |-> SlowFound(file.lines, pos),
                             browsers |-> Cardinality(SeenBrowsers(file.lines, pos))]
<1>. DEFINE lines == file.lines
            n == Len(lines)
            W == Androids \cup MSIEs
<1>1. lines \in Seq(Line) /\ n \in Nat /\ pos \in Nat
  BY FileType
<1>2. ~ (\E k \in 1 .. Len(Split(file)) : SlowPanics(Split(file)[k]))
  BY DEF SlowSearch
<1>3. Split(file) = lines
  <2>1. SUFFICES ASSUME Split(file) = Append(lines, EmptyLine) PROVE FALSE
    BY DEF Split
  <2>2. Len(Split(file)) = n + 1 /\ Split(file)[n + 1] = EmptyLine /\ n + 1 \in 1 .. n + 1
    BY <1>1, <2>1
  <2>3. SlowPanics(EmptyLine)
    BY DEF SlowPanics, EmptyLine
  <2>. QED  BY <1>2, <2>2, <2>3
<1>4. \A k : k \in 1 .. n <=> k \in 1 .. pos \/ k \in pos + 1 .. n
  BY <1>1
<1>5. SlowFound(lines, n) = SlowFound(lines, pos)
  <2>1. \A k \in pos + 1 .. n : ~ Wanted(lines[k])
    BY DEF RestAddsNothing
  <2>. HIDE DEF lines, n
  <2>2. {k \in 1 .. n : Wanted(lines[k])} = {k \in 1 .. pos : Wanted(lines[k])}
    BY <1>4, <2>1
  <2>. QED  BY <2>2, Zenon DEF SlowFound
<1>6. SeenBrowsers(lines, n) = SeenBrowsers(lines, pos)
  <2>1. \A k \in pos + 1 .. n : Strings(lines[k]) \cap W \subseteq SeenBrowsers(lines, pos)
    BY DEF RestAddsNothing
  <2>. HIDE DEF lines, n
  <2>2. \A x : x \in AllStrings(lines, n) <=> \E k \in 1 .. n : x \in Strings(lines[k])
    BY DEF AllStrings
  <2>3. \A x : x \in AllStrings(lines, pos) <=> \E k \in 1 .. pos : x \in Strings(lines[k])
    BY DEF AllStrings
  <2>. QED  BY <1>4, <2>1, <2>2, <2>3 DEF SeenBrowsers
<1>. QED  BY <1>2, <1>3, <1>5, <1>6 DEF SlowSearch

\* FastSearch prints the users and the number of browsers that SlowSearch prints of the
\* lines it reads, for every file of regular lines and whatever a line or a search
\* before has left in the pool; and those SlowSearch prints of the whole file, if it
\* prints anything and the other lines add nothing (fast.go:28-102, common.go:16-110).
THEOREM SameResult == SearchSpec => []FastPrintsWhatSlowPrints
<1>1. SearchSpec => []SearchIInv
  BY SearchInitInv, SearchInvNext, PTL DEF SearchSpec
<1>2. SearchIInv => FastPrintsWhatSlowPrints
  <2>. SUFFICES ASSUME SearchIInv, phase \in {"done", "panicked"}, Regular(file.lines, pos)
                PROVE  /\ phase = "done"
                       /\ IF pos = 0 THEN count = 0 /\ users = << >>
                          ELSE Prints(SlowSearch(Cut(pos)))
                       /\ (SlowSearch(file).is = "prints" /\ RestAddsNothing) =>
                            Prints(SlowSearch(file))
    BY DEF FastPrintsWhatSlowPrints
  <2>. DEFINE found == SlowFound(file.lines, pos)
              seen == Cardinality(SeenBrowsers(file.lines, pos))
  <2>1. phase = "done" /\ SoFar /\ file \in Files /\ pos \in 0 .. Len(file.lines)
    BY DEF SearchIInv, Started
  <2>2. LinesDone = pos /\ Seen = AllStrings(file.lines, pos)
    BY <2>1 DEF LinesDone, Seen
  <2>3. count = seen /\ Lists(users, found) /\ users \in Seq(Nat \X UserNames \X Emails)
    BY <2>1, <2>2 DEF SoFar, SeenBrowsers
  <2>4. ASSUME found # {}
        PROVE  FastText(users) = SlowText(users)
    <3>1. users # << >>
      BY <2>3, <2>4 DEF Lists
    <3>. QED  BY <3>1 DEF FastText, SlowText
  <2>5. ASSUME NEW slow, slow = [is |-> "prints", found |-> found, browsers |-> seen]
        PROVE  Prints(slow)
    <3>. HIDE DEF found, seen
    <3>. QED  BY <2>3, <2>4, <2>5 DEF Prints
  <2>6. ASSUME pos = 0
        PROVE  count = 0 /\ users = << >>
    <3>1. found = {} /\ SeenBrowsers(file.lines, pos) = {}
      BY <2>6, SlowFoundNone, AllStringsNone DEF SeenBrowsers
    <3>2. seen = 0
      BY <3>1, FS_EmptySet
    <3>3. ~ (1 \in 1 .. Len(users))
      <4>1. 1 \in 1 .. Len(users) => users[1] \in found
        BY <2>3, Zenon DEF Lists
      <4>. QED  BY <3>1, <4>1
    <3>4. Len(users) \in Nat /\ (Len(users) = 0 => users = << >>)
      BY <2>3
    <3>5. Len(users) = 0
      BY <3>3, <3>4
    <3>. QED  BY <2>3, <3>2, <3>4, <3>5
  <2>7. ASSUME pos # 0
        PROVE  Prints(SlowSearch(Cut(pos)))
    <3>1. pos \in 1 .. Len(file.lines)
      BY <2>1, <2>7, FileType
    <3>. QED  BY <2>1, <2>5, <3>1, SlowOfCut
  <2>8. ASSUME SlowSearch(file).is = "prints", RestAddsNothing
        PROVE  Prints(SlowSearch(file))
    BY <2>1, <2>5, <2>8, SlowOfWhole
  <2>. QED  BY <2>1, <2>6, <2>7, <2>8
<1>. QED  BY <1>1, <1>2, PTL

-----------------------------------------------------------------------------
(* SearchPaging.                                                           *)

ReplyType == [own : BOOLEAN, status : Nat, body : Bodies, users : Seq(Person)]

-----------------------------------------------------------------------------
(* Sequences.                                                              *)

\* The start of a start
LEMMA SubSeqTwice ==
  ASSUME NEW S, NEW q \in Seq(S), NEW c \in Nat, NEW d \in Nat, d <= c, c <= Len(q)
  PROVE  SubSeq(SubSeq(q, 1, c), 1, d) = SubSeq(q, 1, d)
<1> DEFINE start == SubSeq(q, 1, c)
<1>1. start \in Seq(S) /\ Len(start) = c /\ \A k \in 1 .. c : start[k] = q[k]
  BY SubSeqFacts
<1>2. /\ SubSeq(start, 1, d) \in Seq(S) /\ Len(SubSeq(start, 1, d)) = d
      /\ \A k \in 1 .. d : SubSeq(start, 1, d)[k] = start[k]
  <2> HIDE DEF start
  <2> QED
    BY <1>1, SubSeqFacts
<1>3. /\ SubSeq(q, 1, d) \in Seq(S) /\ Len(SubSeq(q, 1, d)) = d
      /\ \A k \in 1 .. d : SubSeq(q, 1, d)[k] = q[k]
  BY SubSeqFacts
<1> HIDE DEF start
<1> QED
  BY <1>1, <1>2, <1>3

\* The types of the constants, one by one
LEMMA ConstantTypes ==
  /\ MaxLimit \in Nat /\ Datasets \subseteq Seq(Person)
  /\ \A r \in Searches : r.limit \in Int /\ r.offset \in Int
  /\ OtherReplies \subseteq [own : {FALSE}, status : Nat, body : Bodies, users : Seq(Person)]
<1>1. /\ MaxLimit \in Nat /\ Datasets \subseteq Seq(Person)
      /\ OtherReplies \subseteq [own : {FALSE}, status : Nat, body : Bodies, users : Seq(Person)]
  BY SearchPagingAssumption, Zenon
<1>2. \A r \in Searches : r.limit \in Int /\ r.offset \in Int
  BY SearchPagingAssumption
<1> QED
  BY <1>1, <1>2

\* A sorted list has the users found, each once
LEMMA SortedFacts ==
  ASSUME NEW ds \in Datasets, NEW r, NEW list \in Sorted(ds, r)
  PROVE  /\ list \in Seq(Person) /\ Len(list) = Cardinality(FoundIn(ds, r))
         /\ Cardinality(FoundIn(ds, r)) \in Nat
<1> DEFINE n == Cardinality(FoundIn(ds, r))
<1>1. ds \in Seq(Person) /\ Len(ds) \in Nat
  <2>1. ds \in Seq(Person)
    BY ConstantTypes, Zenon
  <2> QED
    BY <2>1
<1>2. FoundIn(ds, r) \subseteq 1 .. Len(ds)
  BY DEF FoundIn
<1>3. IsFiniteSet(FoundIn(ds, r)) /\ n \in Nat
  <2>1. IsFiniteSet(1 .. Len(ds))
    <3>1. 1 \in Int /\ Len(ds) \in Int
      BY <1>1
    <3> QED
      BY <3>1, FS_Interval
  <2>2. IsFiniteSet(FoundIn(ds, r))
    BY <1>2, <2>1, FS_Subset
  <2> QED
    BY <2>2, FS_CardinalityType
<1>4. PICK p \in [1 .. n -> FoundIn(ds, r)] : list = [k \in 1 .. n |-> ds[p[k]]]
  BY DEF Sorted, Orders
<1>5. \A k \in 1 .. n : ds[p[k]] \in Person
  BY <1>1, <1>2
<1> HIDE DEF n
<1>6. list \in Seq(Person) /\ Len(list) = n
  BY <1>3, <1>4, <1>5
<1> QED
  BY <1>3, <1>6 DEF n

\* The cap, and the one user more
LEMMA LimitFacts ==
  ASSUME CallUnderWay, stage \in {"asked", "answered"}
  PROVE  /\ Asked \in Nat /\ limit = Asked + 1 /\ req.offset \in Nat /\ req.limit \in Nat
<1>1. req.limit \in Nat /\ req.offset \in Nat /\ MaxLimit \in Nat
  BY ConstantTypes DEF CallUnderWay
<1> QED
  BY <1>1 DEF CallUnderWay, LimitSent, Asked

-----------------------------------------------------------------------------
(* The page.                                                               *)

\* Where the cut is right, the page is not out of range
LEMMA ReachableInRange ==
  ASSUME CallUnderWay, stage = "asked", NEW n \in Nat, Reachable(n)
  PROVE  ~ OutOfRange(n)
BY LimitFacts DEF Reachable, OutOfRange, CutToEnd

\* What SearchServerHandler sends is a sequence of users
LEMMA PageFacts ==
  ASSUME CallUnderWay, stage \in {"asked", "answered"}, NEW list \in Sorted(dataset, req),
         ~ OutOfRange(Len(list))
  PROVE  /\ Page(list) \in Seq(Person)
         /\ Len(Page(list)) = (IF CutToEnd(Len(list)) THEN Len(list) ELSE limit) - req.offset
<1>1. dataset \in Datasets
  BY DEF CallUnderWay
<1>2. list \in Seq(Person) /\ Len(list) \in Nat
  BY <1>1, SortedFacts
<1>3. limit \in Nat /\ req.offset \in Nat
  BY LimitFacts
<1>4. CASE CutToEnd(Len(list))
  <2>1. req.offset <= Len(list)
    BY <1>2, <1>3, <1>4 DEF OutOfRange
  <2>2. /\ SubSeq(list, req.offset + 1, Len(list)) \in Seq(Person)
        /\ Len(SubSeq(list, req.offset + 1, Len(list))) = Len(list) + 1 - (req.offset + 1)
    BY <1>2, <1>3, <2>1, SubSeqFacts
  <2>3. Len(list) + 1 - (req.offset + 1) = Len(list) - req.offset
    BY <1>2, <1>3
  <2> QED
    BY <1>4, <2>2, <2>3 DEF Page
<1>5. CASE ~ CutToEnd(Len(list))
  <2>1. req.offset <= limit /\ limit <= Len(list)
    BY <1>2, <1>3, <1>5 DEF OutOfRange, CutToEnd
  <2>2. /\ SubSeq(list, req.offset + 1, limit) \in Seq(Person)
        /\ Len(SubSeq(list, req.offset + 1, limit)) = limit + 1 - (req.offset + 1)
    <3>1. req.offset + 1 \in Nat \ {0} /\ req.offset + 1 <= limit + 1
      BY <1>3, <2>1
    <3> QED
      BY <1>2, <1>3, <2>1, <3>1, SubSeqFacts
  <2>3. limit + 1 - (req.offset + 1) = limit - req.offset
    BY <1>3
  <2> QED
    BY <1>5, <2>2, <2>3 DEF Page
<1> QED
  BY <1>4, <1>5

\* The users found, and the last of the page asked for
Found == Cardinality(FoundIn(dataset, req))
LastOfPage == IF req.offset + Asked < Found THEN req.offset + Asked ELSE Found

\* What ReceiveReply makes of a page
More(list) == Len(Page(list)) = limit
Returned(list) ==
  IF More(list) THEN SubSeq(Page(list), 1, Len(Page(list)) - 1) ELSE Page(list)

\* The user more than asked for tells that there is a next page, and is left out
LEMMA PageReturned ==
  ASSUME CallUnderWay, stage = "answered"
  PROVE  \A list \in Sorted(dataset, req) :
           ~ OutOfRange(Len(list)) =>
             /\ More(list) => Found > req.offset + Asked
             /\ \E m \in req.offset .. LastOfPage :
                  /\ Returned(list) = SubSeq(list, req.offset + 1, m)
                  /\ Reachable(Found) => m = LastOfPage /\ More(list) = (Found > LastOfPage)
<1> SUFFICES ASSUME NEW list \in Sorted(dataset, req), ~ OutOfRange(Len(list))
             PROVE  /\ More(list) => Found > req.offset + Asked
                    /\ \E m \in req.offset .. LastOfPage :
                         /\ Returned(list) = SubSeq(list, req.offset + 1, m)
                         /\ Reachable(Found) =>
                              m = LastOfPage /\ More(list) = (Found > LastOfPage)
  OBVIOUS
<1> DEFINE data == Page(list)
           n == Found
           last == LastOfPage
           more == More(list)
           returned == Returned(list)
<1>1. list \in Seq(Person) /\ Len(list) = n /\ n \in Nat
  <2>1. dataset \in Datasets
    BY DEF CallUnderWay
  <2> QED
    BY <2>1, SortedFacts DEF Found
<1>2. Asked \in Nat /\ limit = Asked + 1 /\ req.offset \in Nat
  BY LimitFacts
<1>9. /\ last = IF req.offset + Asked < n THEN req.offset + Asked ELSE n
      /\ more <=> Len(data) = limit
      /\ more \in BOOLEAN
      /\ returned = IF more THEN SubSeq(data, 1, Len(data) - 1) ELSE data
  BY DEF LastOfPage, More, Returned
<1>10. /\ data \in Seq(Person) /\ (CutToEnd(n) => Len(data) = n - req.offset)
       /\ (~ CutToEnd(n) => Len(data) = limit - req.offset)
       /\ data = SubSeq(list, req.offset + 1, IF CutToEnd(n) THEN n ELSE limit)
  BY <1>1, PageFacts DEF Page
<1>11. ~ OutOfRange(n)
  BY <1>1
<1> HIDE DEF data, n, last, more, returned
<1>3. CASE CutToEnd(n)
  <2>1. req.offset <= n /\ n <= req.offset + Asked
    BY <1>1, <1>2, <1>3, <1>11 DEF OutOfRange, CutToEnd
  <2>2. last = n
    BY <1>1, <1>2, <1>9, <2>1
  <2>3. Len(data) = n - req.offset
    BY <1>3, <1>10
  <2>4. ~ more
    <3>1. n - req.offset # limit
      BY <1>1, <1>2, <2>1
    <3> QED
      BY <1>9, <2>3, <3>1
  <2>5. returned = SubSeq(list, req.offset + 1, n)
    BY <1>3, <1>9, <1>10, <2>4
  <2>6. n \in req.offset .. last /\ ~ (n > last)
    BY <1>1, <1>2, <2>1, <2>2
  <2>7. more = (n > last)
    BY <1>9, <2>4, <2>6
  <2> QED
    BY <2>2, <2>4, <2>5, <2>6, <2>7 DEF n, last, more, returned
<1>4. CASE ~ CutToEnd(n)
  <2>1. req.offset <= limit /\ req.offset + limit <= n /\ n > req.offset + Asked
    BY <1>1, <1>2, <1>4, <1>11 DEF OutOfRange, CutToEnd
  <2>2. last = req.offset + Asked /\ n > last
    BY <1>1, <1>2, <1>9, <2>1
  <2>3. data = SubSeq(list, req.offset + 1, limit) /\ Len(data) = limit - req.offset
    BY <1>4, <1>10
  <2>4. CASE req.offset = 0
    <3>1. more /\ Len(data) = limit
      <4>1. limit - req.offset = limit
        BY <1>2, <2>4
      <4> QED
        BY <1>9, <2>3, <4>1
    <3>2. returned = SubSeq(SubSeq(list, 1, limit), 1, Asked)
      BY <1>2, <1>9, <2>3, <2>4, <3>1
    <3>3. SubSeq(SubSeq(list, 1, limit), 1, Asked) = SubSeq(list, 1, Asked)
      BY <1>1, <1>2, <2>1, <2>4, SubSeqTwice
    <3>4. Asked \in req.offset .. last /\ Asked = last /\ req.offset + 1 = 1
      BY <1>2, <2>2, <2>4
    <3>5. more = (n > last)
      BY <1>9, <2>2, <3>1
    <3>6. returned = SubSeq(list, req.offset + 1, Asked)
      BY <3>2, <3>3, <3>4
    <3> QED
      BY <2>1, <3>4, <3>5, <3>6 DEF n, last, more, returned
  <2>5. CASE req.offset # 0
    <3>1. ~ more /\ ~ Reachable(n)
      <4>1. limit - req.offset # limit
        BY <1>2, <2>5
      <4>2. ~ Reachable(n)
        BY <1>1, <1>2, <2>1, <2>5 DEF Reachable
      <4> QED
        BY <1>9, <2>3, <4>1, <4>2
    <3>2. returned = SubSeq(list, req.offset + 1, limit)
      BY <1>9, <2>3, <3>1
    <3>3. limit \in req.offset .. last
      BY <1>2, <2>1, <2>2, <2>5
    <3> QED
      BY <3>1, <3>2, <3>3 DEF n, last, more, returned
  <2> QED
    BY <2>4, <2>5
<1> QED
  BY <1>3, <1>4

-----------------------------------------------------------------------------
(* The actions.                                                            *)

\* What is answered is a reply
LEMMA RepliesTyped ==
  \A list \in Seq(Person) : \A status \in Nat, body \in {"none", "noError", "users"} :
    Reply(status, body, list) \in ReplyType
<1> SUFFICES ASSUME NEW list \in Seq(Person), NEW status \in Nat,
                    NEW body \in {"none", "noError", "users"}
             PROVE  Reply(status, body, list) \in ReplyType
  OBVIOUS
<1>1. body \in Bodies
  BY DEF Bodies
<1> QED
  BY <1>1 DEF Reply, ReplyType

LEMMA FindUsersIInv ==
  ASSUME PagingIInv, NEW r \in Searches, NEW ds \in Datasets, FindUsers(r, ds)
  PROVE  PagingIInv'
<1>1. req' = r /\ dataset' = ds /\ reply' = reply /\ r.limit \in Int /\ r.offset \in Int
  BY ConstantTypes DEF FindUsers
<1>2. CASE r.limit < 0 \/ r.offset < 0
  <2>1. stage' = "returned" /\ response' = Fails(IF r.limit < 0 THEN "limit" ELSE "offset")
    BY <1>1, <1>2 DEF FindUsers
  <2>2. response'.is = "error" /\ ~ Valid'
    <3>1. response'.is = "error"
      BY <2>1 DEF Fails
    <3>2. ~ (r.limit >= 0 /\ r.offset >= 0)
      BY <1>1, <1>2
    <3> QED
      BY <1>1, <3>1, <3>2 DEF Valid
  <2> QED
    BY <1>1, <2>1, <2>2 DEF PagingIInv, CallUnderWay, OwnAnswer, PageAskedFor
<1>3. CASE ~ (r.limit < 0 \/ r.offset < 0)
  <2>1. stage' = "asked" /\ limit' = LimitSent(r.limit)
    BY <1>1, <1>3 DEF FindUsers
  <2>2. CallUnderWay'
    BY <1>1, <1>3, <2>1 DEF CallUnderWay, LimitSent
  <2> QED
    BY <1>1, <2>1, <2>2 DEF PagingIInv, OwnAnswer, PageAskedFor
<1> QED
  BY <1>2, <1>3

LEMMA SearchServerHandlerIInv ==
  ASSUME PagingIInv, NEW list \in Sorted(dataset, req), SearchServerHandler(list)
  PROVE  PagingIInv'
<1>1. stage = "asked" /\ UNCHANGED <<dataset, req, limit, trouble>>
  BY DEF SearchServerHandler
<1>2. CASE OutOfRange(Len(list))
  <2>1. stage' = "returned" /\ response' = Fails("unknown") /\ reply' = reply
    BY <1>2 DEF SearchServerHandler
  <2>2. ~ Reachable(Cardinality(FoundIn(dataset, req)))
    <3>1. dataset \in Datasets
      BY <1>1 DEF PagingIInv, CallUnderWay
    <3>2. Len(list) = Cardinality(FoundIn(dataset, req)) /\ Len(list) \in Nat
      BY <3>1, SortedFacts
    <3> QED
      BY <1>1, <1>2, <3>2, ReachableInRange DEF PagingIInv
  <2>3. PageAskedFor'
    BY <1>1, <2>1, <2>2 DEF PageAskedFor, Fails, Reachable, Asked, FoundIn
  <2> QED
    BY <2>1, <2>3 DEF PagingIInv, CallUnderWay, OwnAnswer
<1>3. CASE ~ OutOfRange(Len(list))
  <2>1. stage' = "answered" /\ reply' = Reply(200, "users", Page(list))
    BY <1>3 DEF SearchServerHandler
  <2>2. Valid /\ Page(list) \in Seq(Person)
    BY <1>1, <1>3, PageFacts DEF PagingIInv, CallUnderWay, Valid, SearchServerHandler
  <2>3. CallUnderWay'
    BY <1>1, <2>1 DEF PagingIInv, CallUnderWay
  <2>4. \E u \in Sorted(dataset', req') : ~ OutOfRange(Len(u))' /\ reply'.users = Page(u)'
    <3>1. reply'.users = Page(list)
      BY <2>1 DEF Reply
    <3> QED
      BY <1>1, <1>3, <3>1 DEF OutOfRange, CutToEnd, Page
  <2>5. OwnAnswer'
    BY <1>1, <2>1, <2>2, <2>4 DEF OwnAnswer, Reply, Valid
  <2>6. reply' \in ReplyType
    BY <2>1, <2>2, RepliesTyped
  <2> QED
    BY <2>1, <2>3, <2>5, <2>6 DEF PagingIInv, PageAskedFor, ReplyType
<1> QED
  BY <1>2, <1>3

LEMMA AnswersIInv ==
  ASSUME PagingIInv, Refuse \/ FileFails \/ (\E r \in OtherReplies : OtherServer(r))
  PROVE  PagingIInv'
<1> USE DEF PagingIInv
<1>1. stage = "asked" /\ stage' = "answered" /\ UNCHANGED <<dataset, req, limit>>
  BY DEF Refuse, FileFails, OtherServer
<1>2. CallUnderWay' /\ PageAskedFor'
  BY <1>1 DEF CallUnderWay, PageAskedFor
<1>3. CASE Refuse \/ FileFails
  <2>0. << >> \in Seq(Person)
    OBVIOUS
  <2>1. CASE Refuse /\ ~ req.token
    <3>1. reply' = Reply(401, "none", << >>)
      BY <2>1 DEF Refuse, FileFails
    <3>2. reply' \in ReplyType /\ reply'.status = 401
      <4>1. 401 \in Nat /\ "none" \in {"none", "noError", "users"}
        OBVIOUS
      <4> QED
        BY <2>0, <3>1, <4>1, RepliesTyped, ZenonT(30) DEF Reply
    <3>3. OwnAnswer'
      BY <1>1, <2>1, <3>1, <3>2 DEF OwnAnswer, Refuse
    <3> QED
      BY <1>1, <1>2, <3>2, <3>3 DEF ReplyType
  <2>2. CASE Refuse /\ req.token
    <3>1. reply' = Reply(400, "noError", << >>)
      BY <2>2 DEF Refuse, FileFails
    <3>2. reply' \in ReplyType /\ reply'.status = 400
      <4>1. 400 \in Nat /\ "noError" \in {"none", "noError", "users"}
        OBVIOUS
      <4> QED
        BY <2>0, <3>1, <4>1, RepliesTyped, ZenonT(30) DEF Reply
    <3>3. OwnAnswer'
      BY <1>1, <2>2, <3>1, <3>2 DEF OwnAnswer, Refuse
    <3> QED
      BY <1>1, <1>2, <3>2, <3>3 DEF ReplyType
  <2>3. CASE FileFails
    <3>1. reply' = Reply(500, "none", << >>) /\ trouble'
      BY <2>3 DEF Refuse, FileFails
    <3>2. reply' \in ReplyType /\ reply'.status = 500
      <4>1. 500 \in Nat /\ "none" \in {"none", "noError", "users"}
        OBVIOUS
      <4> QED
        BY <2>0, <3>1, <4>1, RepliesTyped, ZenonT(30) DEF Reply
    <3>3. OwnAnswer'
      BY <1>1, <2>3, <3>1, <3>2 DEF OwnAnswer, Refuse
    <3> QED
      BY <1>1, <1>2, <3>2, <3>3 DEF ReplyType
  <2> QED
    BY <1>3, <2>1, <2>2, <2>3
<1>4. ASSUME NEW r \in OtherReplies, OtherServer(r)
      PROVE  PagingIInv'
  <2>1. reply' = r /\ r \in [own : {FALSE}, status : Nat, body : Bodies, users : Seq(Person)]
    BY <1>4, ConstantTypes DEF OtherServer
  <2>2. reply' \in ReplyType /\ ~ reply'.own
    BY <2>1 DEF ReplyType
  <2> QED
    BY <1>1, <1>2, <2>2 DEF OwnAnswer, ReplyType
<1> QED
  BY <1>3, <1>4

LEMMA NetworkIInv ==
  ASSUME PagingIInv, BodyCut \/ \E why \in {"timeout", "unknown"} : NoAnswer(why)
  PROVE  PagingIInv'
<1> USE DEF PagingIInv
<1>1. CASE BodyCut
  <2>1. /\ stage = "answered" /\ stage' = "answered" /\ trouble'
        /\ UNCHANGED <<dataset, req, limit>>
        /\ reply' = [reply EXCEPT !.body = "garbled"]
    BY <1>1 DEF BodyCut
  <2>2. /\ reply' \in ReplyType /\ reply'.own = reply.own /\ reply'.status = reply.status
        /\ reply'.users = reply.users
    <3>1. reply \in ReplyType /\ "garbled" \in Bodies
      BY DEF ReplyType, Bodies
    <3> QED
      BY <2>1, <3>1 DEF ReplyType
  <2>3. CallUnderWay' /\ PageAskedFor'
    BY <2>1 DEF CallUnderWay, PageAskedFor
  <2>4. OwnAnswer'
    <3>1. CASE ~ reply.own
      BY <2>2, <3>1 DEF OwnAnswer
    <3>2. CASE reply.own /\ reply.status # 200
      BY <2>1, <2>2, <3>2, ZenonT(30) DEF OwnAnswer
    <3>3. CASE reply.own /\ reply.status = 200
      <4>1. PICK list \in Sorted(dataset, req) :
                 ~ OutOfRange(Len(list)) /\ reply.users = Page(list)
        BY <2>1, <3>3 DEF OwnAnswer
      <4>2. Valid /\ Valid'
        <5>1. Valid
          BY <2>1, <3>3 DEF OwnAnswer
        <5> QED
          BY <2>1, <5>1 DEF Valid
      <4>3. \E u \in Sorted(dataset', req') : ~ OutOfRange(Len(u))' /\ reply'.users = Page(u)'
        BY <2>1, <2>2, <4>1 DEF OutOfRange, CutToEnd, Page
      <4> QED
        BY <2>1, <2>2, <3>3, <4>2, <4>3 DEF OwnAnswer
    <3> QED
      BY <3>1, <3>2, <3>3
  <2> QED
    BY <2>1, <2>2, <2>3, <2>4 DEF ReplyType
<1>2. ASSUME NEW why \in {"timeout", "unknown"}, NoAnswer(why)
      PROVE  PagingIInv'
  <2>1. /\ stage' = "returned" /\ trouble' /\ reply' = reply
        /\ response' = Fails(why)
    BY <1>2 DEF NoAnswer
  <2>2. CallUnderWay' /\ OwnAnswer' /\ PageAskedFor'
    BY <2>1 DEF CallUnderWay, OwnAnswer, PageAskedFor, Fails
  <2> QED
    BY <2>1, <2>2
<1> QED
  BY <1>1, <1>2

LEMMA ReceiveReplyIInv ==
  ASSUME PagingIInv, ReceiveReply
  PROVE  PagingIInv'
<1> USE DEF PagingIInv
<1>1. /\ stage = "answered" /\ stage' = "returned"
      /\ UNCHANGED <<dataset, req, limit, reply, trouble>>
  BY DEF ReceiveReply
<1>2. CallUnderWay' /\ OwnAnswer'
  BY <1>1 DEF CallUnderWay, OwnAnswer
<1>3. CASE ~ reply.own
  BY <1>1, <1>2, <1>3 DEF PageAskedFor
<1>4. CASE reply.own /\ reply.status # 200
  <2>1. reply.status \in {401, 400, 500} /\ (Valid /\ req.field \in Sortable => trouble)
    <3>1. \/ reply.status = 401 /\ ~ req.token
          \/ reply.status = 400 /\ req.field = ""
          \/ reply.status = 500 /\ trouble
      BY <1>1, <1>4, Zenon DEF OwnAnswer
    <3>2. "" \notin Sortable
      BY DEF Sortable
    <3>3. reply.status \in {401, 400, 500}
      BY <3>1
    <3>4. Valid => req.token
      BY DEF Valid
    <3>5. req.field \in Sortable => req.field # ""
      BY <3>2
    <3>. QED  BY <3>1, <3>3, <3>4, <3>5
  <2>2. response'.is = "error"
    BY <2>1, ZenonT(30) DEF ReceiveReply, Fails
  <2> QED
    BY <1>1, <1>2, <2>1, <2>2 DEF PageAskedFor, Valid
<1>5. CASE reply.own /\ reply.status = 200 /\ reply.body # "users"
  <2>1. trouble
    BY <1>1, <1>5 DEF OwnAnswer
  <2>2. response' = Fails("result json")
    <3>1. reply.status # 401 /\ reply.status # 500 /\ reply.status # 400
      BY <1>5
    <3> QED
      BY <1>5, <3>1 DEF ReceiveReply
  <2> QED
    BY <1>1, <1>2, <2>1, <2>2 DEF PageAskedFor, Fails
<1>6. CASE reply.own /\ reply.status = 200 /\ reply.body = "users"
  <2>1. PICK list \in Sorted(dataset, req) :
             ~ OutOfRange(Len(list)) /\ reply.users = Page(list)
    BY <1>1, <1>6 DEF OwnAnswer
  <2>2. /\ response'.is = "page" /\ response'.NextPage = More(list)
        /\ response'.Users = Returned(list)
    BY <1>6, <2>1 DEF ReceiveReply, More, Returned
  <2>3. /\ More(list) => Found > req.offset + Asked
        /\ \E m \in req.offset .. LastOfPage :
             /\ Returned(list) = SubSeq(list, req.offset + 1, m)
             /\ Reachable(Found) => m = LastOfPage /\ More(list) = (Found > LastOfPage)
    BY <1>1, <2>1, PageReturned
  <2>4. Valid
    BY <1>1, <1>6 DEF OwnAnswer
  <2>5. PageAskedFor'
    <3>1. response'.is = "page" =>
            /\ Valid
            /\ response'.NextPage => Found > req.offset + Asked
            /\ \E u \in Sorted(dataset, req) : \E m \in req.offset .. LastOfPage :
                 /\ response'.Users = SubSeq(u, req.offset + 1, m)
                 /\ Reachable(Found) => m = LastOfPage /\ response'.NextPage = (Found > LastOfPage)
      BY <2>2, <2>3, <2>4
    <3>2. response'.is # "error"
      BY <2>2
    <3>3. /\ (Valid <=> Valid') /\ Asked' = Asked /\ (Reachable(Found) <=> Reachable(Found)')
          /\ dataset' = dataset /\ req' = req
      BY <1>1 DEF Valid, Asked, Reachable, Found, FoundIn
    <3> QED
      BY <3>1, <3>2, <3>3 DEF PageAskedFor, Found, LastOfPage
  <2> QED
    BY <1>1, <1>2, <2>5
<1> QED
  BY <1>3, <1>4, <1>5, <1>6

LEMMA NextPagingIInv == PagingIInv /\ [PagingNext]_pagingVars => PagingIInv'
<1> SUFFICES ASSUME PagingIInv, [PagingNext]_pagingVars PROVE PagingIInv'
  OBVIOUS
<1>1. CASE UNCHANGED pagingVars
  <2>1. UNCHANGED <<stage, dataset, req, limit, reply, response, trouble>>
    BY <1>1 DEF pagingVars
  <2>2. CallUnderWay'
    BY <2>1 DEF PagingIInv, CallUnderWay
  <2>4. OwnAnswer'
    <3>1. Valid' <=> Valid
      BY <2>1 DEF Valid
    <3>2. \A list : (~ OutOfRange(Len(list)) /\ reply.users = Page(list))' <=>
                      (~ OutOfRange(Len(list)) /\ reply.users = Page(list))
      BY <2>1 DEF OutOfRange, CutToEnd, Page
    <3>3. OwnAnswer
      BY DEF PagingIInv
    <3>4. (\E list \in Sorted(dataset, req) : ~ OutOfRange(Len(list)) /\ reply.users = Page(list))'
            <=> \E list \in Sorted(dataset, req) : ~ OutOfRange(Len(list)) /\ reply.users = Page(list)
      BY <2>1, <3>2, Zenon
    <3>. QED  BY <2>1, <3>1, <3>3, <3>4 DEF OwnAnswer
  <2>3. PageAskedFor'
    BY <2>1 DEF PagingIInv, PageAskedFor, Valid, Reachable, Asked
  <2> QED
    BY <2>1, <2>2, <2>3, <2>4 DEF PagingIInv
<1> QED
  BY <1>1, FindUsersIInv, SearchServerHandlerIInv, AnswersIInv, NetworkIInv, ReceiveReplyIInv
     DEF PagingNext

LEMMA InitPagingIInv == PagingInit => PagingIInv
<1> SUFFICES ASSUME PagingInit PROVE PagingIInv
  OBVIOUS
<1>1. stage = "idle" /\ reply = Reply(0, "none", << >>)
  BY DEF PagingInit
<1>2. reply \in ReplyType
  <2>1. << >> \in Seq(Person) /\ 0 \in Nat
    OBVIOUS
  <2> QED
    BY <1>1, <2>1, RepliesTyped
<1> QED
  BY <1>1, <1>2 DEF PagingIInv, CallUnderWay, OwnAnswer, PageAskedFor, ReplyType

\* Of what SearchServerHandler answers, FindUsers gives the caller the page asked for,
\* whatever the dataset, the search and the cap, and whatever the network does.
THEOREM RightPage == PagingSpec => []PageAskedFor
<1>1. PagingIInv => PageAskedFor
  BY DEF PagingIInv
<1> QED
  BY <1>1, InitPagingIInv, NextPagingIInv, PTL DEF PagingSpec
=============================================================================
