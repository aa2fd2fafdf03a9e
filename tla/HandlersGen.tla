----------------------------- MODULE HandlersGen -----------------------------
(***************************************************************************)
(* part_2/hw5_codegen/handlers_gen/codegen.go: the generator reads the     *)
(* declarations of a Go file one after the other, joins what it has noted  *)
(* of methods and of structs, and writes ServeHTTP and a wrapper for every *)
(* marked method.  The written code is modelled by what it does with a     *)
(* request, and by whether it compiles.                                    *)
(***************************************************************************)
EXTENDS Integers, Sequences, FiniteSets, SequencesExt

CONSTANTS
  Sources,               \* the files: sequences of declarations
  Requests,              \* [recv, url, method, auth, params]; auth: X-Auth is right
  Atoi, Length, Lower,   \* of the texts in requests
  NotInt,                \* what Atoi makes of other texts
  TextTypes              \* the types that a string may be assigned to

\* A struct is [decl |-> "struct", name, fields]; a field is [name, type, tagged, items],
\* each with one name, in lower case, as all that is generated of it; type is what it is
\* called or, if it is not an identifier, "other"; items is what the apivalidator tag
\* lists, empty for another tag: [key, vals], vals what follows "=", split at "|".
\* A function is [decl |-> "func", marked, recv, name, plain, url, auth, method, paramIn,
\* result]; recv: the receiver, "" if it is not a pointer; name: in lower case; plain: the
\* name is that with a capital in front; result: in lower case the type that the first
\* result points to, "" if it is not a pointer.
TagItems == [key : {"min", "max"}, vals : [1 .. 1 -> Int]]
            \cup [key : {"paramname", "default"}, vals : [1 .. 1 -> STRING \ {""}]]
            \cup [key : STRING \ {"min", "max", "paramname", "default"}, vals : Seq(STRING)]
StructFields == [name : STRING \ {""}, type : STRING, tagged : BOOLEAN, items : Seq(TagItems)]
Structs == [decl : {"struct"}, name : STRING, fields : Seq(StructFields)]
Funcs == [decl : {"func"}, marked : BOOLEAN, recv : STRING, name : STRING, plain : BOOLEAN,
          url : STRING, auth : BOOLEAN, method : STRING, paramIn : STRING, result : STRING]

Keywords ==
  {"break", "case", "chan", "const", "continue", "default", "defer", "else", "fallthrough",
   "for", "func", "go", "goto", "if", "import", "interface", "map", "package", "range",
   "return", "select", "struct", "switch", "type", "var"}

\* What no variable of a wrapper may be called: it has the name, or uses it further down
Taken == Keywords \cup {"h", "w", "r", "ctx", "js", "err", "json", "http", "nil", "_",
                        "ApiError", "JsonError"}

\* What only the wrappers use that have such a parameter; no file here has these names
SometimesTaken ==
  {"string", "bool", "make", "len", "true", "false", "m", "prs", "strconv", "strings"}

\* A file that Go takes declares no type twice and no method of a type twice; and it is
\* there that the structs which marked methods take are declared.  A marked method takes
\* a context and a struct, the numbers in tags fit an int, and none of the names that are
\* generated besides (ServeHTTP, Response..., paramname_..., a method in lower case) is
\* declared elsewhere
ASSUME SourcesAssumption ==
  \A file \in Sources :
    /\ file \in Seq(Structs \cup Funcs)
    /\ \A j, k \in DOMAIN file :
         file[j].decl = "struct" /\ file[k].decl = "struct" /\ file[j].name = file[k].name =>
           j = k
    /\ \A j, k \in DOMAIN file :
         file[j].decl = "func" /\ file[k].decl = "func" /\ file[j].plain /\ file[k].plain
           /\ file[j].recv # "" /\ file[j].recv = file[k].recv /\ file[j].name = file[k].name =>
           j = k
    /\ \A j \in DOMAIN file : file[j].decl = "func" /\ file[j].marked =>
         \E k \in DOMAIN file : file[k].decl = "struct" /\ file[k].name = file[j].paramIn
    /\ \A j \in DOMAIN file :
         IF file[j].decl = "func" THEN file[j].result \notin SometimesTaken
         ELSE /\ file[j].name \notin SometimesTaken
              /\ \A n \in DOMAIN file[j].fields : file[j].fields[n].name \notin SometimesTaken

ASSUME TextAssumption == Lower[""] = "" /\ "string" \in TextTypes /\ "int" \notin TextTypes

VARIABLES
  genPc,        \* "idle", "scan", "panicked", "broken" (does not compile), "serving"
  source, at,   \* the file, and the declarations read
  Srv,          \* receiver -> its handlers
  Validator,    \* struct -> its fields
  IsInt, IsParamName,
  request, answer

genVars == <<genPc, source, at, Srv, Validator, IsInt, IsParamName, request, answer>>

-----------------------------------------------------------------------------
(* The scan.                                                               *)

Noted(f, key) == IF key \in DOMAIN f THEN f[key] ELSE << >>

AppendAt(f, key, q) ==
  [k \in DOMAIN f \cup {key} |-> IF k = key THEN Noted(f, key) \o q ELSE f[k]]

Has(items, key) == \E n \in DOMAIN items : items[n].key = key /\ items[n].vals # << >>

IsRequired(items) == \E n \in DOMAIN items : items[n].key = "required" /\ items[n].vals = << >>

\* The last item of a key counts
ValueOf(items, key) ==
  LET given == {n \in DOMAIN items : items[n].key = key /\ items[n].vals # << >>}
  IN  IF given = {} THEN << >> ELSE items[CHOOSE n \in given : \A k \in given : k <= n].vals

\* Several values are an enumeration, whatever the key, and only looked up in.  An
\* item that is none of these leaves the field without a name
parseStruct(field) ==
  LET items == field.items
      enum == UNION {ToSet(items[n].vals) : n \in {k \in DOMAIN items : Len(items[k].vals) > 1}}
      named == \/ IsRequired(items) \/ enum # {}
               \/ \E key \in {"min", "max", "paramname", "default"} : Has(items, key)
  IN  [FieldName |-> IF named THEN field.name ELSE "", IsInt |-> field.type = "int",
       Required |-> IsRequired(items), Enum |-> enum,
       Min |-> ValueOf(items, "min"), Max |-> ValueOf(items, "max"),
       ParamName |-> ValueOf(items, "paramname"), Default |-> ValueOf(items, "default")]

GenInit ==
  /\ genPc = "idle" /\ source = << >> /\ at = 0
  /\ Srv = << >> /\ Validator = << >> /\ IsInt = FALSE /\ IsParamName = FALSE
  /\ request = << >> /\ answer = [is |-> "none"]

Generate(file) ==
  /\ genPc = "idle"
  /\ genPc' = "scan" /\ source' = file
  /\ UNCHANGED <<at, Srv, Validator, IsInt, IsParamName, request, answer>>

NextDecl == source[at + 1]

\* The members of a set of positions, in order
InOrder(S) ==
  CHOOSE pick \in [1 .. Cardinality(S) -> S] : \A j, k \in DOMAIN pick : j < k => pick[j] < pick[k]

\* Fields without a tag are passed over; the type of one with a tag, whatever tag it
\* is, must be an identifier
genStruct ==
  /\ genPc = "scan" /\ at < Len(source) /\ NextDecl.decl = "struct"
  /\ LET fields == NextDecl.fields
         tagged == {n \in DOMAIN fields : fields[n].tagged}
     IN  IF \E n \in tagged : fields[n].type = "other"
         THEN genPc' = "panicked" /\ UNCHANGED <<Validator, IsInt, IsParamName>>
         ELSE /\ UNCHANGED genPc
              /\ Validator' = AppendAt(Validator, NextDecl.name,
                                       [n \in DOMAIN InOrder(tagged) |->
                                          parseStruct(fields[InOrder(tagged)[n]])])
              /\ IsInt' = (IsInt \/ \E n \in tagged : fields[n].type = "int")
              /\ IsParamName' = (IsParamName
                                 \/ \E n \in tagged : Has(fields[n].items, "paramname"))
  /\ at' = at + 1
  /\ UNCHANGED <<source, Srv, request, answer>>

genFunction ==
  /\ genPc = "scan" /\ at < Len(source) /\ NextDecl.decl = "func"
  /\ Srv' = IF NextDecl.marked THEN AppendAt(Srv, NextDecl.recv, <<NextDecl>>) ELSE Srv
  /\ at' = at + 1
  /\ UNCHANGED <<genPc, source, Validator, IsInt, IsParamName, request, answer>>

-----------------------------------------------------------------------------
(* What is written.                                                        *)

IsPost(h) == h.method = "POST"

\* main joins the two maps when everything is read
ParamInStruct(h) == Noted(Validator, h.paramIn)

Handlers == UNION {ToSet(Srv[s]) : s \in DOMAIN Srv}

FieldsOf(name) ==
  LET n == CHOOSE n \in DOMAIN source : source[n].decl = "struct" /\ source[n].name = name
  IN  source[n].fields

\* The variables for the struct and for the result, and the method, may be called so
NamesOf(h) ==
  /\ h.plain /\ h.name \notin Keywords \cup {"_"}
  /\ h.result \notin Taken \cup {""}
  /\ h.paramIn \notin Taken \cup {h.result}

\* A wrapper compiles: its variables have distinct names that are free, all the fields of
\* the struct are there or none, each of a type that its variable may be assigned to, an
\* int is not compared with nil, made lower case or looked up among strings, and m is
\* declared once
WrapperCompiles(h) ==
  LET P == ParamInStruct(h)
      F == FieldsOf(h.paramIn)
  IN  /\ NamesOf(h)
      /\ P = << >> \/ Len(P) = Len(F)
      /\ \A n \in DOMAIN P :
           /\ P[n].FieldName \notin Taken \cup {"", h.paramIn, h.result}
           /\ \A k \in DOMAIN P : P[k].FieldName = P[n].FieldName => k = n
           /\ IF P[n].IsInt
              THEN IsPost(h) /\ ~ P[n].Required /\ P[n].ParamName = << >> /\ P[n].Enum = {}
              ELSE F[n].type \in TextTypes
      /\ IsPost(h) => Cardinality({n \in DOMAIN P : P[n].Enum # {}}) <= 1

\* A case or a method twice is an error, and so is an import that nothing uses
Compiles ==
  LET Posted == UNION {ToSet(ParamInStruct(h)) : h \in {x \in Handlers : IsPost(x)}}
  IN  /\ Handlers # {} /\ "" \notin DOMAIN Srv
      /\ \A s \in DOMAIN Srv : \A j, k \in DOMAIN Srv[s] : j # k =>
           Srv[s][j].url # Srv[s][k].url /\ Srv[s][j].name # Srv[s][k].name
      /\ \A h \in Handlers : WrapperCompiles(h)
      /\ IsInt => \E p \in Posted : p.IsInt
      /\ IsParamName => \E p \in Posted : p.ParamName # << >>

\* The maps are joined and the templates executed
Write ==
  /\ genPc = "scan" /\ at = Len(source)
  /\ genPc' = IF Compiles THEN "serving" ELSE "broken"
  /\ UNCHANGED <<source, at, Srv, Validator, IsInt, IsParamName, request, answer>>

Text(t) == [text |-> t]
Number(t) == [number |-> Atoi[t]]

\* A refusal says which field it is about, errorEmptyLogin always "login"
Refused(why, name) ==
  [is |-> "refused", why |-> why, field |-> IF why = "empty" THEN "login" ELSE name]

Param(r, name) == IF name \in DOMAIN r.params THEN r.params[name] ELSE ""

\* Fault: the template leaves the default out
ValueWithoutDefault(p, r) ==
  IF p.ParamName = << >> THEN Param(r, p.FieldName) ELSE Param(r, Head(p.ParamName))

\* The value that a parameter of a POST handler ends up with
Value(p, r) ==
  LET read == Param(r, p.FieldName)
      named == IF p.ParamName = << >> THEN read
               ELSE IF Param(r, Head(p.ParamName)) = "" THEN Lower[read]
               ELSE Param(r, Head(p.ParamName))
  IN  IF p.Enum # {} /\ p.Default # << >> /\ named = "" THEN Head(p.Default) ELSE named

\* The first check that it fails, in the order in which the template writes them
FirstFailed(p, r) ==
  LET read == Param(r, p.FieldName)
      size == IF p.IsInt THEN Atoi[read] ELSE Length[read]
  IN  IF p.IsInt /\ Atoi[read] = NotInt THEN "int"
      ELSE IF p.Required /\ read = "" THEN "empty"
      ELSE IF p.Min # << >> /\ size < Head(p.Min) THEN "min"
      ELSE IF p.Max # << >> /\ size > Head(p.Max) THEN "max"
      ELSE IF p.Enum # {} /\ Value(p, r) \notin p.Enum THEN "enum"
      ELSE "none"

\* A handler that is not for POST checks that no parameter is empty, and nothing if
\* the request is neither GET nor POST
FirstFailedAny(p, r) ==
  IF r.method \in {"GET", "POST"} /\ Param(r, p.FieldName) = "" THEN "empty" ELSE "none"

Arg(h, p, r) ==
  IF ~ IsPost(h)
  THEN Text(IF r.method \in {"GET", "POST"} THEN Param(r, p.FieldName) ELSE "")
  ELSE IF p.IsInt THEN Number(Param(r, p.FieldName)) ELSE Text(Value(p, r))

Wrapper(h, r) ==
  LET P == ParamInStruct(h)
      Failed(n) == IF IsPost(h) THEN FirstFailed(P[n], r) ELSE FirstFailedAny(P[n], r)
      bad == {n \in DOMAIN P : Failed(n) # "none"}
      first == CHOOSE n \in bad : \A k \in bad : n <= k
  IN  IF IsPost(h) /\ r.method # "POST" THEN Refused("method", "")
      ELSE IF IsPost(h) /\ h.auth /\ ~ r.auth THEN Refused("auth", "")
      ELSE IF bad # {} THEN Refused(Failed(first), P[first].FieldName)
      ELSE [is |-> "call", method |-> h.name, args |-> [n \in DOMAIN P |-> Arg(h, P[n], r)]]

\* switch r.URL.Path
AnswerTo(r) ==
  LET served == {n \in DOMAIN Srv[r.recv] : Srv[r.recv][n].url = r.url}
  IN  IF served = {} THEN Refused("unknown", "")
      ELSE Wrapper(Srv[r.recv][CHOOSE n \in served : TRUE], r)

ServeHTTP(r) ==
  /\ genPc = "serving" /\ r.recv \in DOMAIN Srv
  /\ request' = r
  /\ answer' = AnswerTo(r)
  /\ UNCHANGED <<genPc, source, at, Srv, Validator, IsInt, IsParamName>>

GenNext ==
  \/ \E file \in Sources : Generate(file)
  \/ genStruct \/ genFunction \/ Write
  \/ \E r \in Requests : ServeHTTP(r)

GenSpec == GenInit /\ [][GenNext]_genVars

-----------------------------------------------------------------------------
(* Safety.  What hw5.md says of the tags, about the declarations themselves. *)

Marked == {source[n] : n \in {k \in DOMAIN source :
                                source[k].decl = "func" /\ source[k].marked}}

Fields == UNION {ToSet(source[n].fields) : n \in {k \in DOMAIN source :
                                                    source[k].decl = "struct"}}

PostFields == UNION {ToSet(FieldsOf(h.paramIn)) : h \in {g \in Marked : IsPost(g)}}

\* The tags that the templates support on a field of a POST handler's struct, of the two
\* types that hw5.md:20-21 names
SupportedField(f) ==
  /\ f.type \in {"int", "string"} /\ f.tagged /\ f.items # << >>
  /\ \A j, k \in DOMAIN f.items : f.items[j].key = f.items[k].key => j = k
  /\ \A n \in DOMAIN f.items :
       LET vals == f.items[n].vals
       IN  CASE f.items[n].key = "required" -> f.type = "string" /\ vals = << >>
             [] f.items[n].key = "min" -> Len(vals) = 1
             [] f.items[n].key = "max" -> f.type = "int" /\ Len(vals) = 1
             [] f.items[n].key = "enum" -> f.type = "string" /\ Len(vals) > 1
             [] f.items[n].key = "paramname" ->
                  f.type = "string" /\ Len(f.items) = 1 /\ Len(vals) = 1
             [] f.items[n].key = "default" ->
                  Len(vals) = 1 /\ Len(f.items) = 2 /\ Has(f.items, "enum")
             [] OTHER -> FALSE

\* hw5.md's chain, for marked methods of pointers and names that are free; a handler
\* that is not for POST has required strings and no authorisation
SupportedMethod(h) ==
  LET F == FieldsOf(h.paramIn)
  IN  /\ h.recv # "" /\ NamesOf(h)
      /\ \A g \in Marked : (g # h /\ g.recv = h.recv) => g.url # h.url /\ g.name # h.name
      /\ \A j, k \in DOMAIN F : F[j].name = F[k].name => j = k
      /\ \A n \in DOMAIN F : F[n].name \notin Taken \cup {h.paramIn, h.result}
      /\ IF IsPost(h)
         THEN /\ \A n \in DOMAIN F : SupportedField(F[n])
              /\ Cardinality({n \in DOMAIN F : Has(F[n].items, "enum")}) <= 1
         ELSE /\ ~ h.auth
              /\ \A n \in DOMAIN F : SupportedField(F[n]) /\ IsRequired(F[n].items)
                                        /\ Len(F[n].items) = 1

\* Some POST handler needs what the generator imports for tags anywhere in the file
Supported ==
  /\ Marked # {} /\ \A h \in Marked : SupportedMethod(h)
  /\ \A f \in Fields : f.tagged =>
       /\ f.type # "other"
       /\ f.type = "int" => \E g \in PostFields : g.type = "int"
       /\ Has(f.items, "paramname") => \E g \in PostFields : Has(g.items, "paramname")

\* What a field is given: its parameter, or the default in place of an empty one
Given(f, r) ==
  LET t == Param(r, IF Has(f.items, "paramname") THEN Head(ValueOf(f.items, "paramname"))
                    ELSE f.name)
  IN  IF t = "" /\ Has(f.items, "default") THEN Head(ValueOf(f.items, "default")) ELSE t

\* The rules that this breaks
Breaks(f, r) ==
  LET t == Given(f, r)
      size == IF f.type = "int" THEN Atoi[t] ELSE Length[t]
      notInt == f.type = "int" /\ Atoi[t] = NotInt
  IN  {why \in {"int", "empty", "min", "max", "enum"} :
         CASE why = "int" -> notInt
           [] why = "empty" -> IsRequired(f.items) /\ t = ""
           [] why = "min" -> Has(f.items, "min") /\ ~ notInt /\ size < Head(ValueOf(f.items, "min"))
           [] why = "max" -> Has(f.items, "max") /\ ~ notInt /\ size > Head(ValueOf(f.items, "max"))
           [] why = "enum" -> Has(f.items, "enum") /\ t \notin ToSet(ValueOf(f.items, "enum"))}

\* What h's wrapper should answer: refuse the method, the token, or the first field
\* that breaks a rule, or else call the method with what its fields are given
RightAnswer(h, r) ==
  LET F == FieldsOf(h.paramIn)
      bad == {n \in DOMAIN F : Breaks(F[n], r) # {}}
  IN  IF IsPost(h) /\ r.method # "POST" THEN answer = Refused("method", "")
      ELSE IF h.auth /\ ~ r.auth THEN answer = Refused("auth", "")
      ELSE IF bad = {}
      THEN answer = [is |-> "call", method |-> h.name,
                     args |-> [n \in DOMAIN F |-> IF F[n].type = "int" THEN Number(Given(F[n], r))
                                                  ELSE Text(Given(F[n], r))]]
      ELSE \E n \in bad : /\ \A k \in bad : n <= k
                          /\ \E why \in Breaks(F[n], r) : answer = Refused(why, F[n].name)

\* Of a file whose tags the templates support, in whatever order it declares its
\* structs and methods, the generator writes code that compiles and that does with a
\* request what the tags say, for the methods of the type that is asked and no other
\* (hw5.md; codegen.go:295-339,418-434); GET and POST, and no parameter that has the
\* lower-case name of a field with another paramname.
HandlersFollowTags ==
  (genPc \notin {"idle", "scan"} /\ Supported) =>
    /\ genPc = "serving"
    /\ (answer.is # "none" /\ request.method \in {"GET", "POST"}
          /\ \A f \in PostFields : Has(f.items, "paramname") => Param(request, f.name) = "") =>
         LET here == {h \in Marked : h.recv = request.recv /\ h.url = request.url}
         IN  IF here = {} THEN answer = Refused("unknown", "")
             ELSE \A h \in here : RightAnswer(h, request)

-----------------------------------------------------------------------------
(* What the proofs need to know of every reachable state.                  *)

MarkedRead == {n \in 1 .. at : source[n].decl = "func" /\ source[n].marked}

\* Srv has the marked methods read, each under its receiver, in the order of the file
MethodsRead ==
  /\ \A n \in MarkedRead :
       source[n].recv \in DOMAIN Srv /\ source[n] \in ToSet(Srv[source[n].recv])
  /\ \A s \in DOMAIN Srv :
       /\ Srv[s] \in Seq(Funcs) /\ Srv[s] # << >>
       /\ \A k \in DOMAIN Srv[s] : \E n \in MarkedRead :
            source[n].recv = s /\ Srv[s][k] = source[n]
       /\ \A j, k \in DOMAIN Srv[s] : j < k =>
            \E m, n \in MarkedRead : m < n /\ Srv[s][j] = source[m] /\ Srv[s][k] = source[n]

AllTagged(fields) == \A n \in DOMAIN fields : fields[n].tagged

\* Validator has what is parsed of the structs read, of all the fields if all have a tag
StructsRead ==
  /\ \A name \in DOMAIN Validator : \E n \in 1 .. at :
       source[n].decl = "struct" /\ source[n].name = name
  /\ \A n \in 1 .. at : source[n].decl = "struct" /\ AllTagged(source[n].fields) =>
       /\ source[n].name \in DOMAIN Validator
       /\ Validator[source[n].name] =
            [k \in DOMAIN source[n].fields |-> parseStruct(source[n].fields[k])]

GenIInv ==
  /\ genPc \in {"idle", "scan", "panicked", "broken", "serving"}
  /\ IF genPc = "idle" THEN source = << >> ELSE source \in Sources
  /\ at \in 0 .. Len(source)
  /\ genPc \in {"broken", "serving"} => at = Len(source)
  /\ genPc = "broken" => ~ Compiles
  /\ genPc = "panicked" => \E f \in Fields : f.tagged /\ f.type = "other"
  /\ MethodsRead
  /\ genPc # "panicked" => StructsRead
  /\ IsInt => \E f \in Fields : f.tagged /\ f.type = "int"
  /\ IsParamName => \E f \in Fields : f.tagged /\ Has(f.items, "paramname")
  /\ \/ answer = [is |-> "none"]
     \/ genPc = "serving" /\ request.recv \in DOMAIN Srv /\ answer = AnswerTo(request)
=============================================================================
