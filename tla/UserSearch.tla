----------------------------- MODULE UserSearch -----------------------------
(***************************************************************************)
(* part_1/hw3_bench: FastSearch (fast.go), with the pool of Users and the  *)
(* generated decoder, and SlowSearch (common.go), which it must agree      *)
(* with.  FastSearch is a state machine, one action per line read and per  *)
(* browser looked at; searches follow each other and share the pool.       *)
(***************************************************************************)
EXTENDS Integers, Sequences, FiniteSets

CONSTANTS
  Browsers,            \* the strings in "browsers"
  MSIEs, Androids,     \* those that contain "MSIE", those that contain "Android"
  Emails,              \* values of "email", split at "@"
  UserNames,           \* values of "name"
  Unset,               \* a field that a line lacks, or has as null
  Wrong,               \* a field, or a browser, of another JSON type
  Files                \* what data/users.txt may hold

\* A line: a JSON object, the JSON null, or anything else, which no decoder
\* accepts; long, if it does not fit the 4096 bytes of the reader
Line ==
  [kind : {"object", "null", "other"}, long : BOOLEAN,
   browsers : Seq(Browsers \cup {Wrong}) \cup {Unset, Wrong},
   email : Emails \cup {Unset, Wrong}, name : UserNames \cup {Unset, Wrong}]

File == [lines : Seq(Line), newline : BOOLEAN]   \* newline: the last line has one

ASSUME UserSearchAssumption ==
  /\ MSIEs \subseteq Browsers /\ Androids \subseteq Browsers
  /\ Emails \subseteq Seq(STRING) \ {<< >>}
  /\ Files \subseteq File
  /\ Wrong \notin Browsers /\ Unset \notin Browsers
  /\ {Unset, Wrong} \cap (Seq(Browsers \cup {Wrong}) \cup Emails \cup UserNames) = {}

VARIABLES
  phase,     \* "idle", "lines", "browsers", "done", "panicked"
  file, pos, \* the open file, and the number of lines read from it
  user,      \* the User of the pool: the line being looked at, or the last one
  b,         \* the index into user.Browsers
  userAndroid, userMSIE, checked, count, i, users

scan == <<file, pos>>
flags == <<userAndroid, userMSIE>>
searchVars == <<phase, file, pos, user, b, userAndroid, userMSIE, checked, count, i, users>>

-----------------------------------------------------------------------------
(* SlowSearch: what it prints for a sequence of lines.                     *)

\* The strings of "browsers"; a value of another type is passed over
Elements(q) == {q[n] : n \in 1 .. Len(q)}

Strings(line) ==
  IF line.browsers \in {Unset, Wrong} \/ line.kind = "null" THEN {}
  ELSE Elements(line.browsers) \ {Wrong}

Wanted(line) == Strings(line) \cap Androids # {} /\ Strings(line) \cap MSIEs # {}

\* The strings of the first n lines.  Both loops over the browsers add what
\* contains "Android" or "MSIE" to seenBrowsers
AllStrings(lines, n) == UNION {Strings(lines[k]) : k \in 1 .. n}

SeenBrowsers(lines, n) == AllStrings(lines, n) \cap (Androids \cup MSIEs)

\* What it prints of line k: number (from 0), name, email (" [at] " for "@")
Entry(lines, k) == <<k - 1, lines[k].name, lines[k].email>>

SlowFound(lines, n) == {Entry(lines, k) : k \in {j \in 1 .. n : Wanted(lines[j])}}

\* Split makes an empty line of what follows the last newline, and one of an empty file
EmptyLine == [kind |-> "other", long |-> FALSE, browsers |-> Unset, email |-> Unset,
              name |-> Unset]

Split(f) == IF f.newline \/ f.lines = << >> THEN Append(f.lines, EmptyLine) ELSE f.lines

\* It panics at a line that is not JSON, the empty one included, and when the email of
\* a wanted user is no string, before it has printed anything
SlowPanics(line) == line.kind = "other" \/ (Wanted(line) /\ line.email \notin Emails)

SlowSearch(f) ==
  LET lines == Split(f)
  IN  IF \E k \in 1 .. Len(lines) : SlowPanics(lines[k]) THEN [is |-> "panic"]
      ELSE [is |-> "prints", found |-> SlowFound(lines, Len(lines)),
            browsers |-> Cardinality(SeenBrowsers(lines, Len(lines)))]

\* foundUsers ends every line itself, and Fprintln adds an empty one
SlowText(found) == found \o <<"">>

-----------------------------------------------------------------------------
(* FastSearch.                                                             *)

NewUser == [browsers |-> << >>, email |-> << >>, name |-> Unset]

\* strings.Join ends no line; Fprintln and the last "\n" make an empty one
FastText(found) == (IF found = << >> THEN <<"">> ELSE found) \o <<"">>

SearchInit ==
  /\ phase = "idle" /\ file = [lines |-> << >>, newline |-> TRUE] /\ pos = 0
  /\ user = NewUser /\ b = 1
  /\ userAndroid = FALSE /\ userMSIE = FALSE
  /\ checked = << >> /\ count = 0 /\ i = 0 - 1 /\ users = << >>

FastSearch(f) ==
  /\ phase \in {"idle", "done"}
  /\ phase' = "lines" /\ file' = f /\ pos' = 0
  /\ checked' = << >> /\ count' = 0 /\ i' = 0 - 1 /\ users' = << >>
  /\ UNCHANGED <<user, b, flags>>

\* reader.ReadSlice finds a newline within its buffer.  It returns an error for
\* the last line if that has none, and for a line that is too long
Readable(f, n) ==
  /\ n \in 1 .. Len(f.lines)
  /\ n < Len(f.lines) \/ f.newline
  /\ ~ f.lines[n].long

\* What the decoder accepts
Decodes(line) ==
  \/ line.kind = "null"
  \/ /\ line.kind = "object"
     /\ line.name # Wrong /\ line.email # Wrong /\ line.browsers # Wrong
     /\ line.browsers = Unset \/ \A n \in 1 .. Len(line.browsers) : line.browsers[n] # Wrong

\* Fault: the browsers are appended without out.Browsers[:0]
UnmarshalAppends(line, old) ==
  IF line.kind = "null" THEN old
  ELSE [browsers |-> IF line.browsers = Unset THEN old.browsers
                     ELSE old.browsers \o line.browsers,
        email |-> IF line.email = Unset THEN old.email ELSE line.email,
        name |-> IF line.name = Unset THEN old.name ELSE line.name]

\* UnmarshalJSON into a used User: what the line lacks stays as it was
Unmarshal(line, old) ==
  IF line.kind = "null" THEN old
  ELSE [browsers |-> IF line.browsers = Unset THEN old.browsers ELSE line.browsers,
        email |-> IF line.email = Unset THEN old.email ELSE line.email,
        name |-> IF line.name = Unset THEN old.name ELSE line.name]

\* One line.  Get returns the User of the line before, or of an earlier search,
\* and a new one if there is none or the garbage collector has taken it.  Put
\* comes before the User is read; with one goroutine nobody else gets it
ReadLine ==
  /\ phase = "lines" /\ Readable(file, pos + 1)
  /\ pos' = pos + 1
  /\ LET line == file.lines[pos + 1]
     IN  IF Decodes(line)
         THEN phase' = "browsers" /\ \E old \in {user, NewUser} : user' = Unmarshal(line, old)
         ELSE phase' = "panicked" /\ UNCHANGED user
  /\ b' = 1 /\ userAndroid' = FALSE /\ userMSIE' = FALSE
  /\ UNCHANGED <<file, checked, count, i, users>>

\* for _, browser := range user.Browsers
NextBrowser ==
  /\ phase = "browsers" /\ b <= Len(user.browsers)
  /\ LET browser == user.browsers[b]
         found == browser \in DOMAIN checked
         look == found => checked[browser]
         MSIE == look /\ browser \in MSIEs
         Android == look /\ browser \in Androids
     IN  /\ checked' = IF found THEN checked
                       ELSE [x \in DOMAIN checked \cup {browser} |->
                               IF x = browser THEN MSIE \/ Android ELSE checked[x]]
         /\ userMSIE' = (userMSIE \/ Android)
         /\ userAndroid' = (userAndroid \/ MSIE)
         /\ count' = IF ~ found /\ (Android \/ MSIE) THEN count + 1 ELSE count
  /\ b' = b + 1
  /\ UNCHANGED <<phase, scan, user, i, users>>

\* The end of the loop's body; email[1] is out of range for an email without "@",
\* and what follows a second "@" is left out
EndOfUser ==
  /\ phase = "browsers" /\ b > Len(user.browsers)
  /\ i' = i + 1
  /\ IF ~ (userAndroid /\ userMSIE) THEN phase' = "lines" /\ UNCHANGED users
     ELSE IF Len(user.email) < 2 THEN phase' = "panicked" /\ UNCHANGED users
     ELSE /\ phase' = "lines"
          /\ users' = Append(users, <<i', user.name, SubSeq(user.email, 1, 2)>>)
  /\ UNCHANGED <<scan, user, b, flags, checked, count>>

\* Any error of ReadSlice ends the loop, and the result is printed
Finish ==
  /\ phase = "lines" /\ ~ Readable(file, pos + 1)
  /\ phase' = "done"
  /\ UNCHANGED <<scan, user, b, flags, checked, count, i, users>>

SearchNext ==
  \/ \E f \in Files : FastSearch(f)
  \/ ReadLine \/ NextBrowser \/ EndOfUser \/ Finish

SearchSpec == SearchInit /\ [][SearchNext]_searchVars

-----------------------------------------------------------------------------
(* Safety.                                                                 *)

\* The first n lines are as those of data/users.txt: objects with all three
\* fields, of the right types, and one "@" in the email of a wanted user
Regular(lines, n) ==
  \A k \in 1 .. n :
    /\ lines[k].kind = "object" /\ lines[k].name \in UserNames /\ lines[k].email \in Emails
    /\ lines[k].browsers \in Seq(Browsers)
    /\ Wanted(lines[k]) => Len(lines[k].email) = 2

\* q lists the entries of E in the order of their lines
Lists(q, E) ==
  /\ E = {q[k] : k \in 1 .. Len(q)}
  /\ \A j, k \in 1 .. Len(q) : j < k => q[j][1] < q[k][1]

\* What FastSearch prints is what SlowSearch does: the same users in the same order and
\* the same number of browsers, and the same text if some user is found
Prints(slow) ==
  /\ slow.is = "prints"
  /\ count = slow.browsers
  /\ Lists(users, slow.found)
  /\ slow.found # {} => FastText(users) = SlowText(users)

\* The file that ends after n lines, without a newline
Cut(n) == [lines |-> SubSeq(file.lines, 1, n), newline |-> FALSE]

\* The lines that FastSearch does not read have no user to print and no new browser
RestAddsNothing ==
  \A k \in pos + 1 .. Len(file.lines) :
    /\ ~ Wanted(file.lines[k])
    /\ Strings(file.lines[k]) \cap (Androids \cup MSIEs) \subseteq SeenBrowsers(file.lines, pos)

\* FastSearch prints what SlowSearch does of a file that has only the lines it reads,
\* that is those before the first that is too long or has no newline, if they are
\* regular and whatever User an earlier line or an earlier search has left in the pool.
\* It prints what SlowSearch does of the whole file if SlowSearch prints anything, which
\* it does of no file that ends in a newline, and if the lines that FastSearch leaves
\* out add nothing, as in data/users.txt (TestSearch, main_test.go:22).
FastPrintsWhatSlowPrints ==
  (phase \in {"done", "panicked"} /\ Regular(file.lines, pos)) =>
    /\ phase = "done"
    /\ IF pos = 0 THEN count = 0 /\ users = << >> ELSE Prints(SlowSearch(Cut(pos)))
    /\ (SlowSearch(file).is = "prints" /\ RestAddsNothing) => Prints(SlowSearch(file))

\* The loops keep what they have found so far.  k lines have been dealt with, and
\* of line k + 1, if it is being looked at, the browsers before b.
LinesDone == IF phase = "browsers" THEN pos - 1 ELSE pos

InLoop == {user.browsers[n] : n \in 1 .. b - 1}

Seen ==
  AllStrings(file.lines, LinesDone) \cup (IF phase = "browsers" THEN InLoop ELSE {})

LookedAt ==
  phase = "browsers" =>
    /\ pos > 0
    /\ user = [browsers |-> file.lines[pos].browsers, email |-> file.lines[pos].email,
               name |-> file.lines[pos].name]
    /\ b \in 1 .. Len(user.browsers) + 1
    /\ userMSIE = (\E n \in 1 .. b - 1 : user.browsers[n] \in Androids)
    /\ userAndroid = (\E n \in 1 .. b - 1 : user.browsers[n] \in MSIEs)

SoFar ==
  /\ DOMAIN checked = Seen /\ IsFiniteSet(Seen)
  /\ \A x \in Seen : checked[x] = (x \in Androids \cup MSIEs)
  /\ count = Cardinality(Seen \cap (Androids \cup MSIEs))
  /\ i = LinesDone - 1
  /\ users \in Seq(Nat \X UserNames \X Emails)
  /\ Lists(users, SlowFound(file.lines, LinesDone))

Started == phase # "idle" => file \in Files /\ pos \in 0 .. Len(file.lines)

SearchIInv ==
  /\ phase \in {"idle", "lines", "browsers", "done", "panicked"}
  /\ Started
  /\ (phase # "idle" /\ Regular(file.lines, pos)) =>
       phase # "panicked" /\ LookedAt /\ SoFar
=============================================================================
