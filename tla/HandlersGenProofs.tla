-------------------------- MODULE HandlersGenProofs --------------------------
(***************************************************************************)
(* The written handlers do what the tags say, for every file whose tags    *)
(* the templates support and for every request.                            *)
(***************************************************************************)
EXTENDS HandlersGen, FiniteSetTheorems, SequenceTheorems, NaturalsInduction, TLAPS

-----------------------------------------------------------------------------
(* Positions.                                                              *)

\* Of some positions one is the first
LEMMA FirstOf ==
  ASSUME NEW S \in SUBSET Nat, S # {}
  PROVE  \E n \in S : \A k \in S : n <= k
<1>1. PICK n \in S : \A k \in Nat : <<k, n>> \in OpToRel(<, Nat) => k \notin S
  BY WFMin, NatLessThanWellFounded
<1>2. ASSUME NEW k \in S PROVE n <= k
  <2>1. ~ (k < n)
    BY <1>1 DEF OpToRel
  <2>. QED  BY <2>1
<1>. QED  BY <1>2

\* In order, the positions 1 .. n are 1, 2, ..., n
LEMMA InOrderAll ==
  ASSUME NEW n \in Nat
  PROVE  InOrder(1 .. n) = [k \in 1 .. n |-> k]
<1>. DEFINE Up(pick) == \A j, k \in DOMAIN pick : j < k => pick[j] < pick[k]
            order == InOrder(1 .. n)
            id == [k \in 1 .. n |-> k]
<1>1. Cardinality(1 .. n) = n
  BY FS_Interval
<1>2. id \in [1 .. n -> 1 .. n] /\ Up(id)
  OBVIOUS
<1>3. order \in [1 .. n -> 1 .. n] /\ Up(order)
  BY <1>1, <1>2 DEF InOrder
<1>. HIDE DEF order
<1>4. ASSUME NEW k \in 1 .. n PROVE order[k] >= k
  <2>. DEFINE S == {j \in 1 .. n : order[j] < j}
  <2>1. ASSUME S # {} PROVE FALSE
    <3>0. S \in SUBSET Nat
      OBVIOUS
    <3>1. PICK j \in S : \A i \in S : j <= i
      <4>. HIDE DEF S
      <4>. QED  BY <2>1, <3>0, FirstOf
    <3>2. j # 1
      BY <1>3
    <3>3. j - 1 \in 1 .. n /\ j - 1 \notin S
      BY <3>1, <3>2
    <3>4. order[j - 1] >= j - 1
      BY <3>3, <1>3
    <3>5. order[j - 1] < order[j]
      BY <3>3, <1>3
    <3>. QED  BY <3>4, <3>5, <1>3
  <2>. QED  BY <2>1, <1>3
<1>5. ASSUME NEW k \in 1 .. n PROVE order[k] <= k
  <2>. DEFINE S == {j \in 0 .. n - 1 : order[n - j] > n - j}
  <2>1. ASSUME S # {} PROVE FALSE
    <3>0. S \in SUBSET Nat
      OBVIOUS
    <3>1. PICK j \in S : \A i \in S : j <= i
      <4>. HIDE DEF S
      <4>. QED  BY <2>1, <3>0, FirstOf
    <3>2. j # 0
      BY <1>3
    <3>3. j - 1 \in 0 .. n - 1 /\ j - 1 \notin S
      BY <3>1, <3>2
    <3>4. n - (j - 1) \in 1 .. n /\ n - j \in 1 .. n /\ n - j < n - (j - 1)
      BY <3>3
    <3>5. order[n - (j - 1)] <= n - (j - 1)
      BY <3>3, <3>4, <1>3
    <3>6. order[n - j] < order[n - (j - 1)]
      BY <3>4, <1>3
    <3>. QED  BY <3>4, <3>5, <3>6, <1>3
  <2>2. n - k \in 0 .. n - 1 /\ n - (n - k) = k
    OBVIOUS
  <2>3. n - k \notin S
    BY <2>1
  <2>. QED  BY <2>2, <2>3, <1>3
<1>6. \A k \in 1 .. n : order[k] = k
  BY <1>3, <1>4, <1>5
<1>7. order = [k \in 1 .. n |-> order[k]]
  BY <1>3
<1>. QED  BY <1>6, <1>7 DEF order

\* A sequence with one more element
LEMMA Appended ==
  ASSUME NEW S, NEW s \in Seq(S), NEW e \in S
  PROVE  /\ s \o <<e>> \in Seq(S) /\ s \o <<e>> # << >>
         /\ Len(s) \in Nat /\ DOMAIN s = 1 .. Len(s) /\ DOMAIN (s \o <<e>>) = DOMAIN s \cup {Len(s) + 1}
         /\ (s \o <<e>>)[Len(s) + 1] = e
         /\ \A k \in DOMAIN s : (s \o <<e>>)[k] = s[k]
<1>. DEFINE one == <<e>>
            q == s \o one
<1>1. one \in Seq(S) /\ Len(one) = 1 /\ one[1] = e
  OBVIOUS
<1>. HIDE DEF one
<1>2. Len(s) \in Nat /\ DOMAIN s = 1 .. Len(s)
  OBVIOUS
<1>3. q \in Seq(S) /\ Len(q) = Len(s) + Len(one)
  BY <1>1, ConcatProperties
<1>4. \A k \in 1 .. Len(s) + Len(one) : q[k] = IF k <= Len(s) THEN s[k] ELSE one[k - Len(s)]
  BY <1>1, ConcatProperties
<1>. HIDE DEF q
<1>5. DOMAIN q = DOMAIN s \cup {Len(s) + 1} /\ q # << >>
  <2>1. DOMAIN q = 1 .. Len(s) + 1
    BY <1>1, <1>3
  <2>2. q # << >>
    BY <1>1, <1>2, <1>3
  <2>. QED  BY <1>2, <2>1, <2>2
<1>6. q[Len(s) + 1] = e
  <2>1. ~ (Len(s) + 1 <= Len(s)) /\ Len(s) + 1 - Len(s) = 1 /\ Len(s) + 1 \in 1 .. Len(s) + Len(one)
    BY <1>1, <1>2
  <2>. QED  BY <1>1, <1>4, <2>1
<1>7. \A k \in DOMAIN s : q[k] = s[k]
  BY <1>1, <1>2, <1>4
<1>. QED  BY <1>2, <1>3, <1>5, <1>6, <1>7 DEF q, one

-----------------------------------------------------------------------------
(* Tags that the templates support.                                        *)

\* What an item of a supported tag may be
LEMMA SupportedItem ==
  ASSUME NEW f \in StructFields, SupportedField(f), NEW n \in DOMAIN f.items
  PROVE  LET key == f.items[n].key
             vals == f.items[n].vals
         IN  /\ key \in {"required", "min", "max", "enum", "paramname", "default"}
             /\ key = "required" => f.type = "string" /\ vals = << >>
             /\ key \in {"min", "max"} => Len(vals) = 1
             /\ key = "enum" => f.type = "string" /\ Len(vals) > 1
             /\ key = "paramname" => f.type = "string" /\ Len(f.items) = 1 /\ Len(vals) = 1
             /\ key = "default" => Len(vals) = 1 /\ Len(f.items) = 2 /\ Has(f.items, "enum")
BY DEF SupportedField

\* The values are sequences, and the keys are different
LEMMA ItemTypes ==
  ASSUME NEW f \in StructFields
  PROVE  /\ f.items \in Seq(TagItems) /\ f.name \in STRING /\ f.type \in STRING
         /\ \A n \in DOMAIN f.items :
              /\ f.items[n].vals \in Seq(Int) \cup Seq(STRING)
              /\ Len(f.items[n].vals) \in Nat
              /\ f.items[n].vals = << >> <=> Len(f.items[n].vals) = 0
<1>1. f.items \in Seq(TagItems) /\ f.name \in STRING /\ f.type \in STRING
  BY DEF StructFields
<1>2. ASSUME NEW n \in DOMAIN f.items
      PROVE  /\ f.items[n].vals \in Seq(Int) \cup Seq(STRING)
             /\ Len(f.items[n].vals) \in Nat
             /\ f.items[n].vals = << >> <=> Len(f.items[n].vals) = 0
  <2>1. f.items[n] \in TagItems
    BY <1>1
  <2>2. \/ f.items[n].vals \in [1 .. 1 -> Int] \/ f.items[n].vals \in [1 .. 1 -> STRING]
        \/ f.items[n].vals \in Seq(STRING)
    BY <2>1 DEF TagItems
  <2>3. \A S : \A q \in [1 .. 1 -> S] : q \in Seq(S)
    <3>1. 1 \in Nat
      OBVIOUS
    <3>. QED  BY <3>1, SeqDef, Zenon
  <2>4. f.items[n].vals \in Seq(Int) \cup Seq(STRING)
    BY <2>2, <2>3
  <2>. QED  BY <2>4
<1>. QED  BY <1>1, <1>2

\* An item with a value is the value of its key
LEMMA ValueOfItem ==
  ASSUME NEW f \in StructFields, SupportedField(f), NEW n \in DOMAIN f.items,
         f.items[n].vals # << >>
  PROVE  ValueOf(f.items, f.items[n].key) = f.items[n].vals /\ Has(f.items, f.items[n].key)
<1>. DEFINE given == {k \in DOMAIN f.items : f.items[k].key = f.items[n].key
                                               /\ f.items[k].vals # << >>}
<1>1. given = {n}
  BY DEF SupportedField
<1>2. (CHOOSE j \in given : \A k \in given : k <= j) = n
  <2>1. n \in Nat
    BY ItemTypes
  <2>. QED  BY <1>1, <2>1
<1>. QED  BY <1>1, <1>2 DEF ValueOf, Has

\* A key has the value of one of its items, or none
LEMMA ItemOfValue ==
  ASSUME NEW f \in StructFields, SupportedField(f), NEW key
  PROVE  \/ ~ Has(f.items, key) /\ ValueOf(f.items, key) = << >>
         \/ /\ Has(f.items, key)
            /\ \E n \in DOMAIN f.items : /\ f.items[n].key = key /\ f.items[n].vals # << >>
                                        /\ ValueOf(f.items, key) = f.items[n].vals
<1>1. CASE Has(f.items, key)
  <2>1. PICK n \in DOMAIN f.items : f.items[n].key = key /\ f.items[n].vals # << >>
    BY <1>1 DEF Has
  <2>. QED  BY <1>1, <2>1, ValueOfItem
<1>2. CASE ~ Has(f.items, key)
  BY <1>2 DEF Has, ValueOf
<1>. QED  BY <1>1, <1>2

\* What the tags of a field exclude of one another
LEMMA FieldKinds ==
  ASSUME NEW f \in StructFields, SupportedField(f)
  PROVE  /\ IsRequired(f.items) => f.type = "string" /\ ~ Has(f.items, "paramname")
                                     /\ ~ Has(f.items, "default")
         /\ Has(f.items, "enum") => f.type = "string"
         /\ Has(f.items, "paramname") =>
              /\ f.type = "string"
              /\ \A key \in {"min", "max", "enum", "default"} : ~ Has(f.items, key)
         /\ Has(f.items, "default") =>
              /\ Has(f.items, "enum")
              /\ \A key \in {"min", "max", "paramname"} : ~ Has(f.items, key)
<1>. DEFINE items == f.items
<1>1. DOMAIN items = 1 .. Len(items) /\ Len(items) \in Nat
  BY ItemTypes
<1>2. ASSUME IsRequired(items) PROVE f.type = "string" /\ ~ Has(items, "paramname")
                                     /\ ~ Has(items, "default")
  <2>1. PICK n \in DOMAIN items : items[n].key = "required" /\ items[n].vals = << >>
    BY <1>2 DEF IsRequired
  <2>2. f.type = "string"
    BY <2>1, SupportedItem
  <2>3. ASSUME Has(items, "paramname") PROVE FALSE
    <3>1. PICK k \in DOMAIN items : items[k].key = "paramname"
      BY <2>3 DEF Has
    <3>2. Len(items) = 1
      BY <3>1, SupportedItem
    <3>. QED  BY <1>1, <2>1, <3>1, <3>2
  <2>4. ASSUME Has(items, "default") PROVE FALSE
    <3>1. PICK k \in DOMAIN items : items[k].key = "default"
      BY <2>4 DEF Has
    <3>2. Len(items) = 2 /\ Has(items, "enum")
      BY <3>1, SupportedItem
    <3>3. PICK j \in DOMAIN items : items[j].key = "enum"
      BY <3>2 DEF Has
    <3>. QED  BY <1>1, <2>1, <3>1, <3>2, <3>3
  <2>. QED  BY <2>2, <2>3, <2>4
<1>3. Has(items, "enum") => f.type = "string"
  BY SupportedItem DEF Has
<1>4. ASSUME Has(items, "paramname")
      PROVE  /\ f.type = "string"
             /\ \A key \in {"min", "max", "enum", "default"} : ~ Has(items, key)
  <2>1. PICK k \in DOMAIN items : items[k].key = "paramname"
    BY <1>4 DEF Has
  <2>2. Len(items) = 1 /\ f.type = "string"
    BY <2>1, SupportedItem
  <2>3. \A n \in DOMAIN items : items[n].key = "paramname"
    BY <1>1, <2>1, <2>2
  <2>. QED  BY <2>2, <2>3 DEF Has
<1>5. ASSUME Has(items, "default")
      PROVE  /\ Has(items, "enum")
             /\ \A key \in {"min", "max", "paramname"} : ~ Has(items, key)
  <2>1. PICK k \in DOMAIN items : items[k].key = "default"
    BY <1>5 DEF Has
  <2>2. Len(items) = 2 /\ Has(items, "enum")
    BY <2>1, SupportedItem
  <2>3. PICK j \in DOMAIN items : items[j].key = "enum"
    BY <2>2 DEF Has
  <2>4. \A n \in DOMAIN items : items[n].key \in {"enum", "default"}
    BY <1>1, <2>1, <2>2, <2>3
  <2>. QED  BY <2>2, <2>4 DEF Has
<1>. QED  BY <1>2, <1>3, <1>4, <1>5

\* Only an enumeration has several values, and they are what is looked up in
LEMMA ParsedEnum ==
  ASSUME NEW f \in StructFields, SupportedField(f)
  PROVE  /\ parseStruct(f).Enum # {} <=> Has(f.items, "enum")
         /\ Has(f.items, "enum") => parseStruct(f).Enum = ToSet(ValueOf(f.items, "enum"))
<1>. DEFINE items == f.items
            several == {k \in DOMAIN items : Len(items[k].vals) > 1}
<1>1. parseStruct(f).Enum = UNION {ToSet(items[n].vals) : n \in several}
  BY DEF parseStruct
<1>2. \A n \in several : items[n].key = "enum"
  <2>1. ASSUME NEW n \in several PROVE items[n].key = "enum"
    <3>1. n \in DOMAIN items /\ Len(items[n].vals) > 1
      OBVIOUS
    <3>2. Len(items[n].vals) # 0 /\ Len(items[n].vals) # 1
      <4>1. ~ (0 > 1) /\ ~ (1 > 1)
        OBVIOUS
      <4>. QED  BY <3>1, <4>1, Zenon
    <3>3. items[n].vals # << >>
      BY <3>2, ItemTypes
    <3>. QED  BY <3>1, <3>3, <3>2, SupportedItem, Zenon
  <2>. QED  BY <2>1
<1>3. CASE Has(items, "enum")
  <2>1. PICK n \in DOMAIN items : items[n].key = "enum" /\ items[n].vals # << >>
    BY <1>3 DEF Has
  <2>2. n \in several
    BY <2>1, SupportedItem
  <2>3. several = {n}
    BY <1>2, <2>1, <2>2 DEF SupportedField
  <2>4. parseStruct(f).Enum = ToSet(items[n].vals)
    BY <1>1, <2>3
  <2>5. 1 \in DOMAIN items[n].vals
    <3>1. Len(items[n].vals) > 1 /\ items[n].vals \in Seq(Int) \cup Seq(STRING)
      BY <2>2, ItemTypes
    <3>. QED  BY <3>1
  <2>6. items[n].vals[1] \in ToSet(items[n].vals)
    BY <2>5 DEF ToSet
  <2>7. ValueOf(items, "enum") = items[n].vals
    BY <2>1, ValueOfItem
  <2>. QED  BY <1>3, <2>4, <2>6, <2>7
<1>4. CASE ~ Has(items, "enum")
  <2>1. several = {}
    <3>1. ASSUME NEW n \in several PROVE FALSE
      <4>1. items[n].vals # << >>
        BY ItemTypes
      <4>. QED  BY <1>2, <1>4, <4>1 DEF Has
    <3>. QED  BY <3>1
  <2>. QED  BY <1>1, <1>4, <2>1
<1>. QED  BY <1>3, <1>4

\* What parseStruct makes of a supported field
LEMMA ParsedField ==
  ASSUME NEW f \in StructFields, SupportedField(f)
  PROVE  LET p == parseStruct(f)
         IN  /\ p.FieldName = f.name /\ p.IsInt = (f.type = "int")
             /\ p.Required = IsRequired(f.items)
             /\ p.Min = ValueOf(f.items, "min") /\ p.Max = ValueOf(f.items, "max")
             /\ p.ParamName = ValueOf(f.items, "paramname")
             /\ p.Default = ValueOf(f.items, "default")
             /\ \A key : ValueOf(f.items, key) # << >> <=> Has(f.items, key)
<1>. DEFINE items == f.items
<1>1. PICK n \in DOMAIN items : TRUE
  <2>1. items \in Seq(TagItems) /\ items # << >>
    BY ItemTypes DEF SupportedField
  <2>. HIDE DEF items
  <2>2. Len(items) \in Nat /\ Len(items) # 0 /\ DOMAIN items = 1 .. Len(items)
    BY <2>1
  <2>. QED  BY <2>2
<1>2. \/ IsRequired(items) \/ parseStruct(f).Enum # {}
      \/ \E key \in {"min", "max", "paramname", "default"} : Has(items, key)
  <2>1. CASE items[n].key = "required"
    BY <2>1, SupportedItem DEF IsRequired
  <2>2. CASE items[n].key # "required"
    <3>1. Len(items[n].vals) \in {1} \/ Len(items[n].vals) > 1
      BY <2>2, SupportedItem
    <3>2. items[n].vals # << >>
      <4>1. ~ (0 > 1) /\ 0 # 1
        OBVIOUS
      <4>. QED  BY <3>1, <4>1, ItemTypes, Zenon
    <3>3. Has(items, items[n].key)
      BY <3>2 DEF Has
    <3>. QED  BY <2>2, <3>3, SupportedItem, ParsedEnum
  <2>. QED  BY <2>1, <2>2
<1>3. parseStruct(f).FieldName = f.name
  BY <1>2 DEF parseStruct
<1>4. \A key : ValueOf(items, key) # << >> <=> Has(items, key)
  BY ItemOfValue
<1>. QED  BY <1>3, <1>4 DEF parseStruct

-----------------------------------------------------------------------------
(* What a wrapper does with one field.                                     *)

\* A parameter of a POST handler gets what the tags give it
LEMMA ValueGiven ==
  ASSUME NEW f \in StructFields, SupportedField(f), NEW r,
         Has(f.items, "paramname") => Param(r, f.name) = ""
  PROVE  /\ Value(parseStruct(f), r) = Given(f, r)
         /\ (f.type = "int" \/ IsRequired(f.items) \/ Has(f.items, "min") \/ Has(f.items, "max")) =>
              Given(f, r) = Param(r, f.name)
<1>. DEFINE p == parseStruct(f)
            read == Param(r, f.name)
<1>1. /\ p.FieldName = f.name /\ p.ParamName = ValueOf(f.items, "paramname")
      /\ p.Default = ValueOf(f.items, "default")
      /\ p.ParamName # << >> <=> Has(f.items, "paramname")
      /\ p.Default # << >> <=> Has(f.items, "default")
  BY ParsedField
<1>2. p.Enum # {} <=> Has(f.items, "enum")
  BY ParsedEnum
<1>. HIDE DEF p
<1>3. ASSUME ~ Has(f.items, "paramname"), ~ Has(f.items, "default")
      PROVE  Given(f, r) = read
  BY <1>3 DEF Given
<1>4. Value(p, r) = Given(f, r)
  <2>1. CASE Has(f.items, "paramname")
    <3>1. ~ Has(f.items, "enum") /\ ~ Has(f.items, "default") /\ read = ""
      BY <2>1, FieldKinds
    <3>2. Given(f, r) = Param(r, Head(p.ParamName))
      BY <1>1, <2>1, <3>1 DEF Given
    <3>3. Value(p, r) = IF Param(r, Head(p.ParamName)) = "" THEN Lower[read]
                        ELSE Param(r, Head(p.ParamName))
      BY <1>1, <1>2, <2>1, <3>1 DEF Value
    <3>. QED  BY <3>1, <3>2, <3>3, TextAssumption
  <2>2. CASE ~ Has(f.items, "paramname") /\ Has(f.items, "default")
    <3>1. Has(f.items, "enum")
      BY <2>2, FieldKinds
    <3>2. Value(p, r) = IF read = "" THEN Head(p.Default) ELSE read
      BY <1>1, <1>2, <2>2, <3>1 DEF Value
    <3>3. Given(f, r) = IF read = "" THEN Head(p.Default) ELSE read
      BY <1>1, <2>2 DEF Given
    <3>4. CASE read = ""
      BY <3>2, <3>3, <3>4
    <3>5. CASE read # ""
      BY <3>2, <3>3, <3>5
    <3>. QED  BY <3>4, <3>5
  <2>3. CASE ~ Has(f.items, "paramname") /\ ~ Has(f.items, "default")
    <3>1. Value(p, r) = read
      BY <1>1, <2>3 DEF Value
    <3>. QED  BY <1>3, <2>3, <3>1
  <2>. QED  BY <2>1, <2>2, <2>3
<1>5. (f.type = "int" \/ IsRequired(f.items) \/ Has(f.items, "min") \/ Has(f.items, "max")) =>
        Given(f, r) = read
  <2>1. f.type = "int" => f.type # "string"
    OBVIOUS
  <2>. QED  BY <1>3, <2>1, FieldKinds
<1>. QED  BY <1>4, <1>5 DEF p

\* The rules that a field may break
LEMMA RulesBroken ==
  ASSUME NEW f, NEW r
  PROVE  LET t == Given(f, r)
             size == IF f.type = "int" THEN Atoi[t] ELSE Length[t]
             notInt == f.type = "int" /\ Atoi[t] = NotInt
         IN  /\ \A why \in Breaks(f, r) : why \in {"int", "empty", "min", "max", "enum"}
             /\ "int" \in Breaks(f, r) <=> notInt
             /\ "empty" \in Breaks(f, r) <=> IsRequired(f.items) /\ t = ""
             /\ "min" \in Breaks(f, r) <=>
                  Has(f.items, "min") /\ ~ notInt /\ size < Head(ValueOf(f.items, "min"))
             /\ "max" \in Breaks(f, r) <=>
                  Has(f.items, "max") /\ ~ notInt /\ size > Head(ValueOf(f.items, "max"))
             /\ "enum" \in Breaks(f, r) <=>
                  Has(f.items, "enum") /\ t \notin ToSet(ValueOf(f.items, "enum"))
BY DEF Breaks

\* The check that a parameter of a POST handler fails is a rule that it breaks
LEMMA PostChecks ==
  ASSUME NEW f \in StructFields, SupportedField(f), NEW r,
         Has(f.items, "paramname") => Param(r, f.name) = ""
  PROVE  IF FirstFailed(parseStruct(f), r) = "none" THEN Breaks(f, r) = {}
         ELSE FirstFailed(parseStruct(f), r) \in Breaks(f, r)
<1>. DEFINE p == parseStruct(f)
            t == Given(f, r)
            read == Param(r, f.name)
            size(text) == IF f.type = "int" THEN Atoi[text] ELSE Length[text]
            failed == FirstFailed(p, r)
            broken == Breaks(f, r)
<1>1. /\ p.FieldName = f.name /\ p.IsInt = (f.type = "int") /\ p.Required = IsRequired(f.items)
      /\ p.Min = ValueOf(f.items, "min") /\ p.Max = ValueOf(f.items, "max")
      /\ p.Min # << >> <=> Has(f.items, "min")
      /\ p.Max # << >> <=> Has(f.items, "max")
  BY ParsedField
<1>2. /\ p.Enum # {} <=> Has(f.items, "enum")
      /\ Has(f.items, "enum") => p.Enum = ToSet(ValueOf(f.items, "enum"))
  BY ParsedEnum
<1>3. /\ Value(p, r) = t
      /\ (f.type = "int" \/ IsRequired(f.items) \/ Has(f.items, "min") \/ Has(f.items, "max")) =>
           t = read
  BY ValueGiven
<1>. HIDE DEF p, t
<1>4. failed = IF f.type = "int" /\ Atoi[read] = NotInt THEN "int"
               ELSE IF IsRequired(f.items) /\ read = "" THEN "empty"
               ELSE IF Has(f.items, "min") /\ size(read) < Head(ValueOf(f.items, "min")) THEN "min"
               ELSE IF Has(f.items, "max") /\ size(read) > Head(ValueOf(f.items, "max")) THEN "max"
               ELSE IF Has(f.items, "enum") /\ t \notin ToSet(ValueOf(f.items, "enum")) THEN "enum"
               ELSE "none"
  BY <1>1, <1>2, <1>3 DEF FirstFailed
<1>5. /\ \A why \in broken : why \in {"int", "empty", "min", "max", "enum"}
      /\ "int" \in broken <=> f.type = "int" /\ Atoi[t] = NotInt
      /\ "empty" \in broken <=> IsRequired(f.items) /\ t = ""
      /\ "min" \in broken <=> Has(f.items, "min") /\ ~ (f.type = "int" /\ Atoi[t] = NotInt)
                                 /\ size(t) < Head(ValueOf(f.items, "min"))
      /\ "max" \in broken <=> Has(f.items, "max") /\ ~ (f.type = "int" /\ Atoi[t] = NotInt)
                                 /\ size(t) > Head(ValueOf(f.items, "max"))
      /\ "enum" \in broken <=> Has(f.items, "enum") /\ t \notin ToSet(ValueOf(f.items, "enum"))
  BY RulesBroken DEF t
<1>. HIDE DEF failed, broken, size
<1>6. /\ "int" \in broken <=> f.type = "int" /\ Atoi[read] = NotInt
      /\ "empty" \in broken <=> IsRequired(f.items) /\ read = ""
      /\ "min" \in broken <=> Has(f.items, "min") /\ ~ (f.type = "int" /\ Atoi[read] = NotInt)
                                 /\ size(read) < Head(ValueOf(f.items, "min"))
      /\ "max" \in broken <=> Has(f.items, "max") /\ ~ (f.type = "int" /\ Atoi[read] = NotInt)
                                 /\ size(read) > Head(ValueOf(f.items, "max"))
  <2>1. CASE t = read
    BY <1>5, <2>1
  <2>2. CASE f.type # "int" /\ ~ IsRequired(f.items) /\ ~ Has(f.items, "min") /\ ~ Has(f.items, "max")
    BY <1>5, <2>2
  <2>. QED  BY <1>3, <2>1, <2>2
<1>7. failed = "none" => broken = {}
  BY <1>4, <1>5, <1>6
<1>8. failed # "none" => failed \in broken
  BY <1>4, <1>5, <1>6
<1>. QED  BY <1>7, <1>8 DEF failed, broken, p

\* A required string is the only sort of field of the other handlers
LEMMA OtherChecks ==
  ASSUME NEW f \in StructFields, SupportedField(f), IsRequired(f.items), Len(f.items) = 1,
         NEW r, r.method \in {"GET", "POST"}
  PROVE  /\ f.type = "string" /\ Given(f, r) = Param(r, f.name)
         /\ IF FirstFailedAny(parseStruct(f), r) = "none" THEN Breaks(f, r) = {}
            ELSE FirstFailedAny(parseStruct(f), r) \in Breaks(f, r)
<1>1. f.type = "string" /\ f.type # "int"
  BY FieldKinds
<1>2. \A key : ~ Has(f.items, key)
  <2>1. PICK n \in DOMAIN f.items : f.items[n].key = "required" /\ f.items[n].vals = << >>
    BY DEF IsRequired
  <2>2. DOMAIN f.items = {1}
    BY ItemTypes
  <2>. QED  BY <2>1, <2>2 DEF Has
<1>3. Given(f, r) = Param(r, f.name)
  BY <1>2 DEF Given
<1>4. parseStruct(f).FieldName = f.name
  BY ParsedField
<1>5. /\ \A why \in Breaks(f, r) : why = "empty"
      /\ "empty" \in Breaks(f, r) <=> Param(r, f.name) = ""
  BY <1>1, <1>2, <1>3, RulesBroken
<1>6. FirstFailedAny(parseStruct(f), r) = IF Param(r, f.name) = "" THEN "empty" ELSE "none"
  BY <1>4 DEF FirstFailedAny
<1>. QED  BY <1>1, <1>3, <1>5, <1>6

-----------------------------------------------------------------------------
(* What a wrapper answers.                                                 *)

Parsed(F) == [k \in DOMAIN F |-> parseStruct(F[k])]

\* No parameter has the name of a field that has another paramname
NamedOnce(h, r) ==
  IsPost(h) => \A n \in DOMAIN FieldsOf(h.paramIn) :
    Has(FieldsOf(h.paramIn)[n].items, "paramname") => Param(r, FieldsOf(h.paramIn)[n].name) = ""

\* Every field of a supported method's struct is supported
LEMMA MethodFields ==
  ASSUME NEW h, SupportedMethod(h), FieldsOf(h.paramIn) \in Seq(StructFields),
         NEW n \in DOMAIN FieldsOf(h.paramIn)
  PROVE  LET f == FieldsOf(h.paramIn)[n]
         IN  /\ f \in StructFields /\ SupportedField(f)
             /\ ~ IsPost(h) => IsRequired(f.items) /\ Len(f.items) = 1 /\ f.type = "string"
<1>. DEFINE f == FieldsOf(h.paramIn)[n]
<1>1. f \in StructFields
  OBVIOUS
<1>2. SupportedField(f) /\ (~ IsPost(h) => IsRequired(f.items) /\ Len(f.items) = 1)
  BY DEF SupportedMethod
<1>. QED  BY <1>1, <1>2, FieldKinds

\* The wrapper of a supported method answers as its tags say
LEMMA WrapperRight ==
  ASSUME NEW h, SupportedMethod(h), FieldsOf(h.paramIn) \in Seq(StructFields),
         ParamInStruct(h) = Parsed(FieldsOf(h.paramIn)),
         NEW r, r.method \in {"GET", "POST"}, NamedOnce(h, r), answer = Wrapper(h, r)
  PROVE  RightAnswer(h, r)
<1>. DEFINE F == FieldsOf(h.paramIn)
            P == ParamInStruct(h)
            Failed(n) == IF IsPost(h) THEN FirstFailed(P[n], r) ELSE FirstFailedAny(P[n], r)
            bad == {n \in DOMAIN P : Failed(n) # "none"}
            first == CHOOSE n \in bad : \A k \in bad : n <= k
            broken == {n \in DOMAIN F : Breaks(F[n], r) # {}}
            given == [n \in DOMAIN F |-> IF F[n].type = "int" THEN Number(Given(F[n], r))
                                         ELSE Text(Given(F[n], r))]
<1>. HIDE DEF F, P, Failed, bad, first, broken, given
<1>0. ASSUME NEW n \in DOMAIN F, IsPost(h), Has(F[n].items, "paramname")
      PROVE  Param(r, F[n].name) = ""
  BY <1>0 DEF NamedOnce, F
<1>1. DOMAIN P = DOMAIN F /\ DOMAIN F \subseteq Nat /\ \A n \in DOMAIN F : P[n] = parseStruct(F[n])
  <2>1. P = [n \in DOMAIN F |-> parseStruct(F[n])] /\ F \in Seq(StructFields)
    BY DEF Parsed, P, F
  <2>2. DOMAIN F = 1 .. Len(F) /\ Len(F) \in Nat
    BY <2>1
  <2>. QED  BY <2>1, <2>2
<1>2. ASSUME NEW n \in DOMAIN F
      PROVE  /\ F[n] \in StructFields /\ SupportedField(F[n])
             /\ ~ IsPost(h) => IsRequired(F[n].items) /\ Len(F[n].items) = 1
  BY MethodFields DEF F
<1>3. ASSUME NEW n \in DOMAIN F
      PROVE  IF Failed(n) = "none" THEN Breaks(F[n], r) = {} ELSE Failed(n) \in Breaks(F[n], r)
  <2>1. CASE IsPost(h)
    <3>1. Failed(n) = FirstFailed(parseStruct(F[n]), r)
      BY <1>1, <2>1 DEF Failed
    <3>. QED  BY <1>0, <1>2, <2>1, <3>1, PostChecks
  <2>2. CASE ~ IsPost(h)
    <3>1. Failed(n) = FirstFailedAny(parseStruct(F[n]), r)
      BY <1>1, <2>2 DEF Failed
    <3>. QED  BY <1>2, <2>2, <3>1, OtherChecks
  <2>. QED  BY <2>1, <2>2
<1>4. ASSUME NEW n \in DOMAIN F PROVE Arg(h, P[n], r) = given[n]
  <2>1. P[n].FieldName = F[n].name /\ P[n].IsInt = (F[n].type = "int") /\ P[n] = parseStruct(F[n])
    BY <1>1, <1>2, ParsedField
  <2>2. given[n] = IF F[n].type = "int" THEN Number(Given(F[n], r)) ELSE Text(Given(F[n], r))
    BY DEF given
  <2>3. CASE IsPost(h)
    <3>1. /\ Value(P[n], r) = Given(F[n], r)
          /\ F[n].type = "int" => Given(F[n], r) = Param(r, F[n].name)
      BY <1>0, <1>2, <2>1, <2>3, ValueGiven
    <3>2. CASE F[n].type = "int"
      BY <2>1, <2>2, <2>3, <3>1, <3>2 DEF Arg
    <3>3. CASE F[n].type # "int"
      BY <2>1, <2>2, <2>3, <3>1, <3>3 DEF Arg
    <3>. QED  BY <3>2, <3>3
  <2>4. CASE ~ IsPost(h)
    <3>1. F[n].type = "string" /\ Given(F[n], r) = Param(r, F[n].name)
      BY <1>2, <2>4, OtherChecks
    <3>2. F[n].type # "int"
      BY <3>1
    <3>. QED  BY <2>1, <2>2, <2>4, <3>1, <3>2 DEF Arg
  <2>. QED  BY <2>3, <2>4
<1>5. bad = broken
  <2>1. ASSUME NEW n \in DOMAIN F PROVE Failed(n) # "none" <=> Breaks(F[n], r) # {}
    BY <1>3
  <2>. QED  BY <1>1, <2>1 DEF bad, broken
<1>6. answer = IF IsPost(h) /\ r.method # "POST" THEN Refused("method", "")
               ELSE IF IsPost(h) /\ h.auth /\ ~ r.auth THEN Refused("auth", "")
               ELSE IF bad # {} THEN Refused(Failed(first), P[first].FieldName)
               ELSE [is |-> "call", method |-> h.name, args |-> [n \in DOMAIN P |-> Arg(h, P[n], r)]]
  BY DEF Wrapper, P, Failed, bad, first
<1>7. ~ IsPost(h) => ~ h.auth
  BY DEF SupportedMethod
<1>8. RightAnswer(h, r) =
        IF IsPost(h) /\ r.method # "POST" THEN answer = Refused("method", "")
        ELSE IF h.auth /\ ~ r.auth THEN answer = Refused("auth", "")
        ELSE IF broken = {} THEN answer = [is |-> "call", method |-> h.name, args |-> given]
        ELSE \E n \in broken : /\ \A k \in broken : n <= k
                               /\ \E why \in Breaks(F[n], r) : answer = Refused(why, F[n].name)
  BY DEF RightAnswer, F, broken, given
<1>9. CASE IsPost(h) /\ r.method # "POST"
  BY <1>6, <1>8, <1>9
<1>10. CASE ~ (IsPost(h) /\ r.method # "POST") /\ h.auth /\ ~ r.auth
  BY <1>6, <1>7, <1>8, <1>10
<1>11. CASE ~ (IsPost(h) /\ r.method # "POST") /\ ~ (h.auth /\ ~ r.auth) /\ broken = {}
  <2>1. [n \in DOMAIN P |-> Arg(h, P[n], r)] = given
    <3>1. given = [n \in DOMAIN F |-> given[n]]
      BY DEF given
    <3>. QED  BY <1>1, <1>4, <3>1
  <2>. QED  BY <1>5, <1>6, <1>8, <1>11, <2>1
<1>12. CASE ~ (IsPost(h) /\ r.method # "POST") /\ ~ (h.auth /\ ~ r.auth) /\ broken # {}
  <2>1. first \in broken /\ \A k \in broken : first <= k
    <3>1. bad \subseteq Nat /\ bad # {}
      BY <1>1, <1>5, <1>12 DEF bad
    <3>2. \E n \in bad : \A k \in bad : n <= k
      BY <3>1, FirstOf
    <3>. QED  BY <1>5, <3>2 DEF first
  <2>2. answer = Refused(Failed(first), P[first].FieldName)
    BY <1>5, <1>6, <1>12
  <2>3. first \in DOMAIN F /\ Breaks(F[first], r) # {}
    BY <2>1 DEF broken
  <2>4. Failed(first) \in Breaks(F[first], r)
    BY <1>3, <2>3
  <2>5. P[first].FieldName = F[first].name
    BY <1>1, <1>2, <2>3, ParsedField
  <2>. QED  BY <1>8, <1>12, <2>1, <2>2, <2>4, <2>5
<1>. QED  BY <1>9, <1>10, <1>11, <1>12

-----------------------------------------------------------------------------
(* When everything is read.                                                *)

\* A declaration is of one sort
LEMMA Declared ==
  ASSUME source \in Sources
  PROVE  /\ source \in Seq(Structs \cup Funcs) /\ Len(source) \in Nat
         /\ DOMAIN source = 1 .. Len(source)
         /\ \A n \in DOMAIN source :
              /\ source[n].decl = "struct" => source[n] \in Structs
              /\ source[n].decl = "func" => source[n] \in Funcs
<1>1. source \in Seq(Structs \cup Funcs)
  BY SourcesAssumption
<1>2. Len(source) \in Nat /\ DOMAIN source = 1 .. Len(source)
  BY <1>1
<1>3. ASSUME NEW n \in DOMAIN source
      PROVE  /\ source[n].decl = "struct" => source[n] \in Structs
             /\ source[n].decl = "func" => source[n] \in Funcs
  <2>1. source[n] \in Structs \cup Funcs
    BY <1>1
  <2>2. source[n] \in Structs => source[n].decl = "struct"
    BY DEF Structs
  <2>3. source[n] \in Funcs => source[n].decl = "func"
    BY DEF Funcs
  <2>4. "struct" # "func"
    OBVIOUS
  <2>. QED  BY <2>1, <2>2, <2>3, <2>4
<1>. QED  BY <1>1, <1>2, <1>3

\* The struct that a marked method takes is declared once
LEMMA StructOfMethod ==
  ASSUME source \in Sources, NEW h \in Marked
  PROVE  \E n \in DOMAIN source :
           /\ source[n].decl = "struct" /\ source[n].name = h.paramIn
           /\ FieldsOf(h.paramIn) = source[n].fields
           /\ FieldsOf(h.paramIn) \in Seq(StructFields)
<1>1. PICK j \in DOMAIN source : source[j].decl = "func" /\ source[j].marked /\ h = source[j]
  BY DEF Marked
<1>2. PICK n \in DOMAIN source : source[n].decl = "struct" /\ source[n].name = h.paramIn
  BY <1>1, SourcesAssumption
<1>3. \A k \in DOMAIN source : source[k].decl = "struct" /\ source[k].name = h.paramIn => k = n
  BY <1>2, SourcesAssumption
<1>4. FieldsOf(h.paramIn) = source[n].fields
  BY <1>2, <1>3 DEF FieldsOf
<1>5. source[n] \in Structs
  BY <1>2, Declared
<1>6. source[n].fields \in Seq(StructFields)
  BY <1>5 DEF Structs
<1>. QED  BY <1>2, <1>4, <1>6

\* When a file that is supported has been read, and the fields of all structs with it
ReadAll == source \in Sources /\ at = Len(source) /\ MethodsRead /\ StructsRead /\ Supported

\* A wrapper has the parsed fields of its method's struct
LEMMA FieldsJoined ==
  ASSUME ReadAll, NEW h \in Marked
  PROVE  /\ SupportedMethod(h) /\ FieldsOf(h.paramIn) \in Seq(StructFields)
         /\ ParamInStruct(h) = Parsed(FieldsOf(h.paramIn))
<1>. DEFINE F == FieldsOf(h.paramIn)
<1>1. SupportedMethod(h)
  BY DEF ReadAll, Supported
<1>2. PICK n \in DOMAIN source : /\ source[n].decl = "struct" /\ source[n].name = h.paramIn
                                 /\ F = source[n].fields /\ F \in Seq(StructFields)
  BY StructOfMethod DEF ReadAll
<1>3. \A k \in DOMAIN F : F[k].tagged
  <2>1. \A k \in DOMAIN F : SupportedField(F[k])
    BY <1>1, <1>2, MethodFields
  <2>. QED  BY <2>1 DEF SupportedField
<1>. HIDE DEF F
<1>4. n \in 1 .. at
  BY <1>2, Declared DEF ReadAll
<1>5. /\ source[n].name \in DOMAIN Validator
      /\ Validator[source[n].name] = [k \in DOMAIN F |-> parseStruct(F[k])]
  BY <1>2, <1>3, <1>4 DEF ReadAll, StructsRead, AllTagged
<1>6. ParamInStruct(h) = Parsed(F)
  BY <1>2, <1>5 DEF ParamInStruct, Noted, Parsed
<1>. QED  BY <1>1, <1>2, <1>6 DEF F

\* The handlers are the marked methods, under their receivers
LEMMA HandlersMarked ==
  ASSUME ReadAll
  PROVE  /\ Handlers = Marked
         /\ \A s \in DOMAIN Srv : \A k \in DOMAIN Srv[s] : Srv[s][k] \in Marked /\ Srv[s][k].recv = s
         /\ \A h \in Marked : h.recv \in DOMAIN Srv /\ \E k \in DOMAIN Srv[h.recv] : Srv[h.recv][k] = h
<1>1. 1 .. at = DOMAIN source
  BY Declared DEF ReadAll
<1>2. ASSUME NEW s \in DOMAIN Srv, NEW k \in DOMAIN Srv[s]
      PROVE  Srv[s][k] \in Marked /\ Srv[s][k].recv = s
  BY <1>1 DEF ReadAll, MethodsRead, MarkedRead, Marked
<1>3. ASSUME NEW h \in Marked
      PROVE  h.recv \in DOMAIN Srv /\ \E k \in DOMAIN Srv[h.recv] : Srv[h.recv][k] = h
  <2>1. PICK n \in MarkedRead : h = source[n]
    BY <1>1 DEF Marked, MarkedRead
  <2>2. h.recv \in DOMAIN Srv /\ h \in ToSet(Srv[h.recv])
    BY <2>1 DEF ReadAll, MethodsRead
  <2>. QED  BY <2>2 DEF ToSet
<1>4. Handlers = Marked
  BY <1>2, <1>3 DEF Handlers, ToSet
<1>. QED  BY <1>2, <1>3, <1>4

\* Two methods of a type have different names and paths
LEMMA MethodsDiffer ==
  ASSUME ReadAll, NEW s \in DOMAIN Srv, NEW j \in DOMAIN Srv[s], NEW k \in DOMAIN Srv[s], j < k
  PROVE  Srv[s][j].url # Srv[s][k].url /\ Srv[s][j].name # Srv[s][k].name
<1>1. PICK m \in MarkedRead, n \in MarkedRead :
        m < n /\ Srv[s][j] = source[m] /\ Srv[s][k] = source[n]
  BY DEF ReadAll, MethodsRead
<1>2. /\ Srv[s][j] \in Marked /\ Srv[s][k] \in Marked
      /\ Srv[s][j].recv = s /\ Srv[s][k].recv = s
  BY HandlersMarked
<1>3. /\ source[m] \in Marked /\ source[n] \in Marked /\ source[m].recv = source[n].recv
  BY <1>1, <1>2
<1>4. SupportedMethod(source[m]) /\ SupportedMethod(source[n])
  BY <1>3 DEF ReadAll, Supported
<1>5. source[m].name # source[n].name
  <2>1. /\ m \in DOMAIN source /\ n \in DOMAIN source /\ m # n
    BY <1>1, Declared DEF ReadAll, MarkedRead
  <2>2. /\ source[m].decl = "func" /\ source[n].decl = "func"
        /\ source[m].plain /\ source[n].plain /\ source[m].recv # ""
    BY <1>1, <1>4 DEF MarkedRead, SupportedMethod, NamesOf
  <2>3. source \in Sources
    BY DEF ReadAll
  <2>. QED  BY <1>3, <2>1, <2>2, <2>3, SourcesAssumption
<1>6. source[m] # source[n]
  BY <1>5
<1>7. source[n].url # source[m].url
  BY <1>3, <1>4, <1>6 DEF SupportedMethod
<1>. QED  BY <1>1, <1>5, <1>7

\* The wrapper of a supported method compiles
LEMMA WrapperBuilds ==
  ASSUME ReadAll, NEW h \in Marked
  PROVE  WrapperCompiles(h)
<1>. DEFINE F == FieldsOf(h.paramIn)
            P == ParamInStruct(h)
<1>. HIDE DEF F, P
<1>1. SupportedMethod(h) /\ F \in Seq(StructFields) /\ P = [k \in DOMAIN F |-> parseStruct(F[k])]
  BY FieldsJoined DEF Parsed, F, P
<1>2. Len(F) \in Nat /\ DOMAIN F = 1 .. Len(F)
  BY <1>1
<1>3. Len(P) = Len(F) /\ DOMAIN P = DOMAIN F /\ \A n \in DOMAIN F : P[n] = parseStruct(F[n])
  BY <1>1, <1>2
<1>4. ASSUME NEW n \in DOMAIN F
      PROVE  /\ F[n] \in StructFields /\ SupportedField(F[n])
             /\ ~ IsPost(h) => IsRequired(F[n].items) /\ F[n].type = "string"
  BY <1>1, MethodFields DEF F
<1>5. ASSUME NEW n \in DOMAIN P
      PROVE  P[n].FieldName # "" /\ \A k \in DOMAIN P : P[k].FieldName = P[n].FieldName => k = n
  <2>1. \A k \in DOMAIN F : P[k].FieldName = F[k].name
    BY <1>3, <1>4, ParsedField
  <2>2. \A j, k \in DOMAIN F : F[j].name = F[k].name => j = k
    BY <1>1 DEF SupportedMethod, F
  <2>3. F[n].name # ""
    BY <1>3, <1>4 DEF StructFields
  <2>. QED  BY <1>3, <2>1, <2>2, <2>3
<1>9. ASSUME NEW n \in DOMAIN P
      PROVE  P[n].FieldName \notin Taken \cup {"", h.paramIn, h.result}
  <2>1. P[n].FieldName = F[n].name
    BY <1>3, <1>4, ParsedField
  <2>2. F[n].name \notin Taken \cup {h.paramIn, h.result}
    BY <1>1, <1>3 DEF SupportedMethod, F
  <2>. QED  BY <1>5, <2>1, <2>2
<1>10. ASSUME NEW n \in DOMAIN P, ~ P[n].IsInt
       PROVE  F[n].type \in TextTypes
  <2>1. F[n].type # "int"
    BY <1>3, <1>4, <1>10, ParsedField
  <2>2. F[n].type \in {"int", "string"}
    BY <1>3, <1>4 DEF SupportedField
  <2>. QED  BY <2>1, <2>2, TextAssumption
<1>6. ASSUME NEW n \in DOMAIN P, P[n].IsInt
      PROVE  IsPost(h) /\ ~ P[n].Required /\ P[n].ParamName = << >> /\ P[n].Enum = {}
  <2>1. F[n] \in StructFields /\ SupportedField(F[n]) /\ P[n] = parseStruct(F[n])
    BY <1>3, <1>4
  <2>2. F[n].type = "int"
    BY <1>6, <2>1, ParsedField
  <2>3. F[n].type # "string"
    BY <2>2
  <2>4. IsPost(h)
    BY <1>3, <1>4, <2>3
  <2>5. ~ IsRequired(F[n].items) /\ ~ Has(F[n].items, "paramname") /\ ~ Has(F[n].items, "enum")
    BY <2>1, <2>3, FieldKinds
  <2>. QED  BY <2>1, <2>4, <2>5, ParsedField, ParsedEnum
<1>7. ASSUME IsPost(h) PROVE Cardinality({n \in DOMAIN P : P[n].Enum # {}}) <= 1
  <2>1. \A n \in DOMAIN F : P[n].Enum # {} <=> Has(F[n].items, "enum")
    BY <1>3, <1>4, ParsedEnum
  <2>2. {n \in DOMAIN P : P[n].Enum # {}} = {n \in DOMAIN F : Has(F[n].items, "enum")}
    BY <1>3, <2>1
  <2>3. Cardinality({n \in DOMAIN F : Has(F[n].items, "enum")}) <= 1
    BY <1>1, <1>7 DEF SupportedMethod, F
  <2>. QED  BY <2>2, <2>3
<1>8. NamesOf(h)
  BY <1>1 DEF SupportedMethod
<1>. QED  BY <1>3, <1>5, <1>6, <1>7, <1>8, <1>9, <1>10 DEF WrapperCompiles, F, P

\* What a field of a POST handler needs of the imports, its wrapper uses
LEMMA ImportUsed ==
  ASSUME ReadAll, NEW g \in PostFields
  PROVE  \E p \in UNION {ToSet(ParamInStruct(h)) : h \in {x \in Handlers : IsPost(x)}} :
           /\ p.IsInt = (g.type = "int")
           /\ p.ParamName # << >> <=> Has(g.items, "paramname")
<1>1. PICK h \in Marked : IsPost(h) /\ g \in ToSet(FieldsOf(h.paramIn))
  BY DEF PostFields
<1>2. PICK n \in DOMAIN FieldsOf(h.paramIn) : g = FieldsOf(h.paramIn)[n]
  BY <1>1 DEF ToSet
<1>3. /\ SupportedMethod(h) /\ FieldsOf(h.paramIn) \in Seq(StructFields)
      /\ ParamInStruct(h) = Parsed(FieldsOf(h.paramIn))
  BY FieldsJoined
<1>4. g \in StructFields /\ SupportedField(g)
  BY <1>2, <1>3, MethodFields
<1>5. parseStruct(g) \in ToSet(ParamInStruct(h))
  BY <1>2, <1>3 DEF Parsed, ToSet
<1>6. h \in Handlers
  BY HandlersMarked
<1>7. /\ parseStruct(g).IsInt = (g.type = "int")
      /\ parseStruct(g).ParamName # << >> <=> Has(g.items, "paramname")
  BY <1>4, ParsedField
<1>8. parseStruct(g) \in UNION {ToSet(ParamInStruct(x)) : x \in {x \in Handlers : IsPost(x)}}
  BY <1>1, <1>5, <1>6
<1>. QED  BY <1>7, <1>8

\* What is written of a supported file compiles
LEMMA SupportedCompiles ==
  ASSUME ReadAll,
         IsInt => \E f \in Fields : f.tagged /\ f.type = "int",
         IsParamName => \E f \in Fields : f.tagged /\ Has(f.items, "paramname")
  PROVE  Compiles
<1>. DEFINE Posted == UNION {ToSet(ParamInStruct(h)) : h \in {x \in Handlers : IsPost(x)}}
<1>1. Handlers # {}
  BY HandlersMarked DEF ReadAll, Supported
<1>2. ASSUME NEW s \in DOMAIN Srv PROVE s # ""
  <2>1. Srv[s] \in Seq(Funcs) /\ Srv[s] # << >>
    BY DEF ReadAll, MethodsRead
  <2>2. 1 \in DOMAIN Srv[s]
    BY <2>1
  <2>3. Srv[s][1] \in Marked /\ Srv[s][1].recv = s
    BY <2>2, HandlersMarked
  <2>. QED  BY <2>3 DEF ReadAll, Supported, SupportedMethod
<1>3. ASSUME NEW s \in DOMAIN Srv, NEW j \in DOMAIN Srv[s], NEW k \in DOMAIN Srv[s], j # k
      PROVE  Srv[s][j].url # Srv[s][k].url /\ Srv[s][j].name # Srv[s][k].name
  <2>1. DOMAIN Srv[s] \subseteq Nat
    BY DEF ReadAll, MethodsRead
  <2>2. j < k \/ k < j
    BY <1>3, <2>1
  <2>. QED  BY <2>2, MethodsDiffer
<1>4. \A h \in Handlers : WrapperCompiles(h)
  BY HandlersMarked, WrapperBuilds
<1>. HIDE DEF Posted
<1>5. ASSUME IsInt PROVE \E p \in Posted : p.IsInt
  <2>1. PICK f \in Fields : f.tagged /\ f.type = "int"
    BY <1>5
  <2>2. PICK g \in PostFields : g.type = "int"
    BY <2>1 DEF ReadAll, Supported
  <2>. QED  BY <2>2, ImportUsed DEF Posted
<1>6. ASSUME IsParamName PROVE \E p \in Posted : p.ParamName # << >>
  <2>1. PICK f \in Fields : f.tagged /\ Has(f.items, "paramname")
    BY <1>6
  <2>2. PICK g \in PostFields : Has(g.items, "paramname")
    BY <2>1 DEF ReadAll, Supported
  <2>. QED  BY <2>2, ImportUsed DEF Posted
<1>. QED  BY <1>1, <1>2, <1>3, <1>4, <1>5, <1>6 DEF Compiles, Posted

\* No parameter of a POST handler is named twice
ParametersNamedOnce(r) ==
  \A f \in PostFields : Has(f.items, "paramname") => Param(r, f.name) = ""

\* An answer is that of the one method that is asked for
LEMMA AnswerRight ==
  ASSUME ReadAll, request.recv \in DOMAIN Srv, answer = AnswerTo(request),
         request.method \in {"GET", "POST"}, ParametersNamedOnce(request)
  PROVE  LET here == {h \in Marked : h.recv = request.recv /\ h.url = request.url}
         IN  IF here = {} THEN answer = Refused("unknown", "")
             ELSE \A h \in here : RightAnswer(h, request)
<1>. DEFINE handlers == Srv[request.recv]
            served == {n \in DOMAIN handlers : handlers[n].url = request.url}
            here == {h \in Marked : h.recv = request.recv /\ h.url = request.url}
<1>1. here = {handlers[n] : n \in served}
  <2>1. \A k \in DOMAIN handlers : handlers[k] \in Marked /\ handlers[k].recv = request.recv
    BY HandlersMarked
  <2>2. \A h \in Marked : h.recv = request.recv => \E k \in DOMAIN handlers : handlers[k] = h
    BY HandlersMarked
  <2>3. here \subseteq {handlers[n] : n \in served}
    BY <2>2
  <2>4. {handlers[n] : n \in served} \subseteq here
    BY <2>1
  <2>. QED  BY <2>3, <2>4
<1>2. \A j, k \in served : j = k
  <2>1. ASSUME NEW j \in served, NEW k \in served, j # k PROVE FALSE
    <3>1. DOMAIN handlers \subseteq Nat
      <4>1. handlers \in Seq(Funcs)
        BY DEF ReadAll, MethodsRead
      <4>. QED  BY <4>1
    <3>2. j < k \/ k < j
      BY <2>1, <3>1
    <3>. QED  BY <3>2, MethodsDiffer
  <2>. QED  BY <2>1
<1>3. answer = IF served = {} THEN Refused("unknown", "")
               ELSE Wrapper(handlers[CHOOSE n \in served : TRUE], request)
  BY DEF AnswerTo
<1>. HIDE DEF served, handlers, here
<1>4. CASE served = {}
  BY <1>1, <1>3, <1>4 DEF here
<1>5. CASE served # {}
  <2>1. PICK n \in served : n = CHOOSE k \in served : TRUE
    BY <1>5
  <2>2. here = {handlers[n]} /\ handlers[n] \in Marked
    <3>1. here = {handlers[n]}
      BY <1>1, <1>2, <2>1
    <3>. QED  BY <3>1 DEF here
  <2>3. answer = Wrapper(handlers[n], request)
    BY <1>3, <1>5, <2>1
  <2>4. NamedOnce(handlers[n], request)
    <3>1. ASSUME IsPost(handlers[n]), NEW k \in DOMAIN FieldsOf(handlers[n].paramIn)
          PROVE  FieldsOf(handlers[n].paramIn)[k] \in PostFields
      BY <2>2, <3>1 DEF PostFields, ToSet
    <3>. QED  BY <3>1 DEF NamedOnce, ParametersNamedOnce
  <2>5. RightAnswer(handlers[n], request)
    BY <2>2, <2>3, <2>4, FieldsJoined, WrapperRight
  <2>. QED  BY <2>2, <2>5 DEF here
<1>. QED  BY <1>4, <1>5

-----------------------------------------------------------------------------
(* The invariant.                                                          *)

LEMMA GenInitInv == GenInit => GenIInv
<1>. SUFFICES ASSUME GenInit PROVE GenIInv
  OBVIOUS
<1>1. DOMAIN Srv = {} /\ DOMAIN Validator = {} /\ Len(source) = 0 /\ at = 0
  BY DEF GenInit
<1>2. MethodsRead /\ StructsRead
  BY <1>1 DEF MethodsRead, MarkedRead, StructsRead
<1>. QED  BY <1>1, <1>2 DEF GenInit, GenIInv

LEMMA GenerateInv == \A file \in Sources : GenIInv /\ Generate(file) => GenIInv'
<1>. SUFFICES ASSUME NEW file \in Sources, GenIInv, Generate(file) PROVE GenIInv'
  OBVIOUS
<1>1. /\ genPc = "idle" /\ genPc' = "scan" /\ source' = file /\ source = << >>
      /\ at' = at /\ Srv' = Srv /\ Validator' = Validator /\ IsInt' = IsInt
      /\ IsParamName' = IsParamName /\ answer' = answer
  BY DEF Generate, GenIInv
<1>2. at = 0 /\ at \in 0 .. Len(file)
  <2>1. at = 0
    BY <1>1 DEF GenIInv
  <2>2. file \in Seq(Structs \cup Funcs)
    BY SourcesAssumption
  <2>3. Len(file) \in Nat
    BY <2>2
  <2>. QED  BY <2>1, <2>3
<1>3. DOMAIN Srv = {}
  <2>1. \A s \in DOMAIN Srv : Srv[s] \in Seq(Funcs) /\ Srv[s] # << >> /\ ~ (1 \in DOMAIN Srv[s])
    BY <1>2 DEF GenIInv, MethodsRead, MarkedRead
  <2>2. ASSUME NEW s \in DOMAIN Srv PROVE FALSE
    BY <2>1
  <2>. QED  BY <2>2
<1>4. DOMAIN Validator = {}
  <2>1. StructsRead /\ ~ \E n \in 1 .. at : TRUE
    BY <1>1, <1>2 DEF GenIInv
  <2>. QED  BY <2>1 DEF StructsRead
<1>5. MethodsRead' /\ StructsRead'
  BY <1>1, <1>2, <1>3, <1>4 DEF MethodsRead, MarkedRead, StructsRead
<1>6. ~ IsInt /\ ~ IsParamName
  BY <1>1 DEF GenIInv, Fields
<1>7. answer = [is |-> "none"]
  BY <1>1 DEF GenIInv
<1>. QED  BY <1>1, <1>2, <1>5, <1>6, <1>7 DEF GenIInv

\* What one receiver has been noted
LEMMA NotedOfReceiver ==
  ASSUME MethodsRead, NEW s \in DOMAIN Srv
  PROVE  /\ Srv[s] \in Seq(Funcs) /\ Srv[s] # << >>
         /\ \A k \in DOMAIN Srv[s] : \E n \in MarkedRead :
              source[n].recv = s /\ Srv[s][k] = source[n]
         /\ \A j, k \in DOMAIN Srv[s] : j < k =>
              \E m, n \in MarkedRead : m < n /\ Srv[s][j] = source[m] /\ Srv[s][k] = source[n]
BY DEF MethodsRead

LEMMA genFunctionInv == GenIInv /\ genFunction => GenIInv'
<1>. SUFFICES ASSUME GenIInv, genFunction PROVE GenIInv'
  OBVIOUS
<1>. DEFINE d == NextDecl
            last == at + 1
<1>1. /\ genPc = "scan" /\ genPc' = "scan" /\ at < Len(source) /\ d.decl = "func"
      /\ at' = last /\ source' = source /\ Validator' = Validator /\ IsInt' = IsInt
      /\ IsParamName' = IsParamName /\ answer' = answer /\ d = source[last]
      /\ Srv' = IF d.marked THEN AppendAt(Srv, d.recv, <<d>>) ELSE Srv
  BY DEF genFunction, NextDecl
<1>. HIDE DEF d, last
<1>2. source \in Sources /\ at \in 0 .. Len(source) /\ MethodsRead /\ StructsRead
  BY <1>1 DEF GenIInv
<1>3. last \in 1 .. Len(source) /\ last \in DOMAIN source /\ at \in Nat /\ last = at + 1
  BY <1>1, <1>2, Declared DEF last
<1>4. d \in Funcs
  BY <1>1, <1>2, <1>3, Declared
<1>5. /\ 1 .. at' = (1 .. at) \cup {last} /\ last \notin 1 .. at
      /\ MarkedRead \subseteq 1 .. at
      /\ MarkedRead' = IF d.marked THEN MarkedRead \cup {last} ELSE MarkedRead
  <2>1. 1 .. at' = (1 .. at) \cup {last} /\ last \notin 1 .. at
    BY <1>1, <1>3
  <2>. QED  BY <1>1, <2>1 DEF MarkedRead
<1>6. StructsRead'
  <2>1. \A n \in 1 .. at' : source[n].decl = "struct" => n \in 1 .. at
    BY <1>1, <1>5
  <2>. QED  BY <1>1, <1>2, <1>5, <2>1 DEF StructsRead, AllTagged
<1>7. MethodsRead'
  <2>1. CASE ~ d.marked
    BY <1>1, <1>2, <1>5, <2>1 DEF MethodsRead
  <2>2. CASE d.marked
    <3>. DEFINE key == d.recv
                old == Noted(Srv, key)
                one == <<d>>
    <3>. HIDE DEF one
    <3>1. /\ DOMAIN Srv' = DOMAIN Srv \cup {key} /\ Srv'[key] = old \o one
          /\ \A s \in DOMAIN Srv : s # key => Srv'[s] = Srv[s]
      <4>1. Srv' = AppendAt(Srv, key, one)
        BY <1>1, <2>2 DEF one
      <4>. HIDE DEF key
      <4>. QED  BY <4>1 DEF AppendAt, Noted
    <3>2. /\ old \in Seq(Funcs)
          /\ \A k \in DOMAIN old : \E n \in MarkedRead :
               source[n].recv = key /\ old[k] = source[n]
          /\ \A j, k \in DOMAIN old : j < k =>
               \E m, n \in MarkedRead : m < n /\ old[j] = source[m] /\ old[k] = source[n]
      <4>1. CASE key \in DOMAIN Srv
        <5>1. old = Srv[key]
          BY <4>1 DEF Noted
        <5>. HIDE DEF old, key
        <5>. QED  BY <1>2, <4>1, <5>1, NotedOfReceiver
      <4>2. CASE key \notin DOMAIN Srv
        <5>1. old = << >>
          BY <4>2 DEF Noted
        <5>. QED  BY <5>1
      <4>. QED  BY <4>1, <4>2
    <3>. HIDE DEF old, key
    <3>3. /\ Srv'[key] \in Seq(Funcs) /\ Srv'[key] # << >>
          /\ DOMAIN Srv'[key] = DOMAIN old \cup {Len(old) + 1} /\ DOMAIN old = 1 .. Len(old)
          /\ Len(old) \in Nat /\ Srv'[key][Len(old) + 1] = d
          /\ \A k \in DOMAIN old : Srv'[key][k] = old[k]
      <4>1. Srv'[key] = old \o <<d>>
        BY <3>1 DEF one
      <4>2. /\ old \o <<d>> \in Seq(Funcs) /\ old \o <<d>> # << >>
            /\ Len(old) \in Nat /\ DOMAIN old = 1 .. Len(old)
            /\ DOMAIN (old \o <<d>>) = DOMAIN old \cup {Len(old) + 1}
            /\ (old \o <<d>>)[Len(old) + 1] = d
            /\ \A k \in DOMAIN old : (old \o <<d>>)[k] = old[k]
        BY <1>4, <3>2, Appended
      <4>. QED  BY <4>1, <4>2
    <3>4. last \in MarkedRead' /\ MarkedRead \subseteq MarkedRead' /\ source'[last].recv = key /\ source'[last] = d
      BY <1>1, <1>5, <2>2 DEF key
    <3>5. ASSUME NEW n \in MarkedRead'
          PROVE  source'[n].recv \in DOMAIN Srv' /\ source'[n] \in ToSet(Srv'[source'[n].recv])
      <4>1. CASE n = last
        <5>1. source'[n].recv = key /\ source'[n] = d
          BY <3>4, <4>1
        <5>2. key \in DOMAIN Srv' /\ d \in ToSet(Srv'[key])
          BY <3>1, <3>3 DEF ToSet
        <5>. QED  BY <5>1, <5>2
      <4>2. CASE n \in MarkedRead
        <5>1. source'[n] = source[n]
          BY <1>1
        <5>2. source[n].recv \in DOMAIN Srv /\ source[n] \in ToSet(Srv[source[n].recv])
          BY <1>2, <4>2 DEF MethodsRead
        <5>3. CASE source[n].recv # key
          BY <3>1, <5>1, <5>2, <5>3
        <5>4. CASE source[n].recv = key
          <6>1. old = Srv[key]
            BY <5>2, <5>4 DEF old, Noted
          <6>2. PICK k \in DOMAIN old : old[k] = source[n]
            BY <5>2, <5>4, <6>1 DEF ToSet
          <6>. QED  BY <3>1, <3>3, <5>1, <5>4, <6>2 DEF ToSet
        <5>. QED  BY <5>3, <5>4
      <4>. QED  BY <1>5, <2>2, <4>1, <4>2
    <3>6. ASSUME NEW s \in DOMAIN Srv'
          PROVE  /\ Srv'[s] \in Seq(Funcs) /\ Srv'[s] # << >>
                 /\ \A k \in DOMAIN Srv'[s] : \E n \in MarkedRead' :
                      source'[n].recv = s /\ Srv'[s][k] = source'[n]
                 /\ \A j, k \in DOMAIN Srv'[s] : j < k => \E m, n \in MarkedRead' :
                      m < n /\ Srv'[s][j] = source'[m] /\ Srv'[s][k] = source'[n]
      <4>1. CASE s # key
        <5>1. s \in DOMAIN Srv /\ Srv'[s] = Srv[s]
          BY <3>1, <4>1
        <5>2. Srv'[s] \in Seq(Funcs) /\ Srv'[s] # << >>
          BY <1>2, <5>1, NotedOfReceiver
        <5>3. ASSUME NEW k \in DOMAIN Srv'[s]
              PROVE  \E n \in MarkedRead' : source'[n].recv = s /\ Srv'[s][k] = source'[n]
          <6>1. PICK n \in MarkedRead : source[n].recv = s /\ Srv[s][k] = source[n]
            BY <1>2, <5>1, NotedOfReceiver
          <6>. QED  BY <1>1, <3>4, <5>1, <6>1
        <5>4. ASSUME NEW j \in DOMAIN Srv'[s], NEW k \in DOMAIN Srv'[s], j < k
              PROVE  \E m, n \in MarkedRead' :
                       m < n /\ Srv'[s][j] = source'[m] /\ Srv'[s][k] = source'[n]
          <6>1. PICK m \in MarkedRead, n \in MarkedRead :
                  m < n /\ Srv[s][j] = source[m] /\ Srv[s][k] = source[n]
            BY <1>2, <5>1, <5>4, NotedOfReceiver
          <6>2. m \in MarkedRead' /\ n \in MarkedRead'
            BY <3>4
          <6>3. Srv'[s][j] = source'[m] /\ Srv'[s][k] = source'[n]
            BY <1>1, <5>1, <6>1
          <6>. QED  BY <6>1, <6>2, <6>3
        <5>. QED  BY <5>2, <5>3, <5>4
      <4>2. CASE s = key
        <5>1. Srv'[s] \in Seq(Funcs) /\ Srv'[s] # << >>
          BY <3>3, <4>2
        <5>2. ASSUME NEW k \in DOMAIN Srv'[s]
              PROVE  \E n \in MarkedRead' : source'[n].recv = s /\ Srv'[s][k] = source'[n]
          <6>1. CASE k = Len(old) + 1
            BY <3>3, <3>4, <4>2, <6>1
          <6>2. CASE k \in DOMAIN old
            BY <1>1, <3>2, <3>3, <3>4, <4>2, <6>2
          <6>. QED  BY <3>3, <4>2, <6>1, <6>2
        <5>3. ASSUME NEW j \in DOMAIN Srv'[s], NEW k \in DOMAIN Srv'[s], j < k
              PROVE  \E m, n \in MarkedRead' :
                       m < n /\ Srv'[s][j] = source'[m] /\ Srv'[s][k] = source'[n]
          <6>1. j \in DOMAIN old /\ Srv'[s][j] = old[j]
            BY <3>3, <4>2, <5>3
          <6>2. CASE k = Len(old) + 1
            <7>1. PICK m \in MarkedRead : old[j] = source[m]
              BY <3>2, <6>1
            <7>2. m < last
              BY <1>3, <1>5
            <7>. QED  BY <1>1, <3>3, <3>4, <4>2, <6>1, <6>2, <7>1, <7>2
          <6>3. CASE k \in DOMAIN old
            <7>1. PICK m \in MarkedRead, n \in MarkedRead :
                    m < n /\ old[j] = source[m] /\ old[k] = source[n]
              BY <3>2, <5>3, <6>1, <6>3
            <7>2. m \in MarkedRead' /\ n \in MarkedRead'
              BY <3>4
            <7>3. Srv'[s][j] = source'[m] /\ Srv'[s][k] = source'[n]
              BY <1>1, <3>3, <4>2, <6>1, <6>3, <7>1
            <7>. QED  BY <7>1, <7>2, <7>3
          <6>. QED  BY <3>3, <4>2, <6>2, <6>3
        <5>. QED  BY <5>1, <5>2, <5>3
      <4>. QED  BY <4>1, <4>2
    <3>. QED  BY <3>5, <3>6 DEF MethodsRead
  <2>. QED  BY <2>1, <2>2
<1>8. Fields' = Fields
  BY <1>1 DEF Fields
<1>9. answer = [is |-> "none"] /\ at' \in 0 .. Len(source)
  BY <1>1, <1>3 DEF GenIInv
<1>10. /\ IsInt => \E f \in Fields : f.tagged /\ f.type = "int"
       /\ IsParamName => \E f \in Fields : f.tagged /\ Has(f.items, "paramname")
  BY DEF GenIInv
<1>. QED  BY <1>1, <1>2, <1>6, <1>7, <1>8, <1>9, <1>10 DEF GenIInv

LEMMA genStructInv == GenIInv /\ genStruct => GenIInv'
<1>. SUFFICES ASSUME GenIInv, genStruct PROVE GenIInv'
  OBVIOUS
<1>. DEFINE d == NextDecl
            last == at + 1
            F == d.fields
            tagged == {n \in DOMAIN F : F[n].tagged}
            order == InOrder(tagged)
            q == [n \in DOMAIN order |-> parseStruct(F[order[n]])]
            bad == \E n \in tagged : F[n].type = "other"
<1>1. /\ genPc = "scan" /\ at < Len(source) /\ d.decl = "struct" /\ at' = last
      /\ source' = source /\ Srv' = Srv /\ answer' = answer /\ d = source[last]
  BY DEF genStruct, NextDecl
<1>2. bad => /\ genPc' = "panicked" /\ Validator' = Validator
             /\ IsInt' = IsInt /\ IsParamName' = IsParamName
  BY DEF genStruct
<1>3. ~ bad => /\ genPc' = genPc /\ Validator' = AppendAt(Validator, d.name, q)
               /\ IsInt' = (IsInt \/ \E n \in tagged : F[n].type = "int")
               /\ IsParamName' = (IsParamName \/ \E n \in tagged : Has(F[n].items, "paramname"))
  BY DEF genStruct
<1>. HIDE DEF d, last, bad, F, tagged, order, q
<1>4. source \in Sources /\ at \in 0 .. Len(source) /\ MethodsRead /\ StructsRead
  BY <1>1 DEF GenIInv
<1>5. /\ last \in 1 .. Len(source) /\ last \in DOMAIN source /\ at \in Nat
      /\ 1 .. at' = (1 .. at) \cup {last} /\ last \notin 1 .. at /\ 1 .. at \subseteq DOMAIN source
  BY <1>1, <1>4, Declared DEF last
<1>6. d \in Structs /\ F \in Seq(StructFields)
  <2>1. d \in Structs
    BY <1>1, <1>4, <1>5, Declared
  <2>. QED  BY <2>1 DEF F, Structs
<1>7. MethodsRead'
  <2>1. MarkedRead' = MarkedRead
    BY <1>1, <1>5 DEF MarkedRead
  <2>. QED  BY <1>1, <1>4, <2>1 DEF MethodsRead
<1>8. Fields' = Fields /\ \A n \in tagged : F[n] \in Fields /\ F[n].tagged
  <2>1. Fields' = Fields
    BY <1>1 DEF Fields
  <2>2. \A n \in DOMAIN F : F[n] \in Fields
    BY <1>1, <1>5 DEF Fields, ToSet, F
  <2>. QED  BY <2>1, <2>2 DEF tagged
<1>9. answer = [is |-> "none"] /\ at' \in 0 .. Len(source)
  BY <1>1, <1>5 DEF GenIInv
<1>10. /\ IsInt => \E f \in Fields : f.tagged /\ f.type = "int"
       /\ IsParamName => \E f \in Fields : f.tagged /\ Has(f.items, "paramname")
  BY DEF GenIInv
<1>11. CASE bad
  <2>1. \E f \in Fields : f.tagged /\ f.type = "other"
    BY <1>8, <1>11 DEF bad
  <2>. QED  BY <1>1, <1>2, <1>4, <1>7, <1>8, <1>9, <1>10, <1>11, <2>1 DEF GenIInv
<1>12. CASE ~ bad
  <2>1. \A n \in 1 .. at : source[n].decl = "struct" => source[n].name # d.name
    <3>1. ASSUME NEW n \in 1 .. at, source[n].decl = "struct", source[n].name = d.name
          PROVE  FALSE
      BY <1>1, <1>4, <1>5, <3>1, SourcesAssumption
    <3>. QED  BY <3>1
  <2>2. d.name \notin DOMAIN Validator
    BY <1>4, <2>1 DEF StructsRead
  <2>3. /\ DOMAIN Validator' = DOMAIN Validator \cup {d.name}
        /\ Validator'[d.name] = << >> \o q
        /\ \A name \in DOMAIN Validator : Validator'[name] = Validator[name]
    BY <1>3, <1>12, <2>2 DEF AppendAt, Noted
  <2>4. ASSUME AllTagged(F) PROVE << >> \o q = [k \in DOMAIN F |-> parseStruct(F[k])]
    <3>1. Len(F) \in Nat /\ DOMAIN F = 1 .. Len(F)
      BY <1>6
    <3>2. tagged = 1 .. Len(F)
      BY <2>4, <3>1 DEF AllTagged, tagged
    <3>3. order = [k \in 1 .. Len(F) |-> k]
      BY <3>1, <3>2, InOrderAll DEF order
    <3>4. q = [k \in 1 .. Len(F) |-> parseStruct(F[k])]
      BY <3>3 DEF q
    <3>5. q \in Seq({parseStruct(f) : f \in StructFields})
      BY <1>6, <3>1, <3>4
    <3>6. << >> \o q = q
      BY <3>5, ConcatEmptySeq
    <3>. QED  BY <3>1, <3>4, <3>6
  <2>5. ASSUME NEW name \in DOMAIN Validator'
        PROVE  \E n \in 1 .. at' : source'[n].decl = "struct" /\ source'[n].name = name
    <3>1. CASE name = d.name
      BY <1>1, <1>5, <3>1
    <3>2. CASE name \in DOMAIN Validator
      BY <1>1, <1>4, <1>5, <3>2 DEF StructsRead
    <3>. QED  BY <2>3, <3>1, <3>2
  <2>6. ASSUME NEW n \in 1 .. at', source'[n].decl = "struct", AllTagged(source'[n].fields)
        PROVE  /\ source'[n].name \in DOMAIN Validator'
               /\ Validator'[source'[n].name] =
                    [k \in DOMAIN source'[n].fields |-> parseStruct(source'[n].fields[k])]
    <3>1. CASE n = last
      <4>1. source'[n] = d /\ source'[n].fields = F
        BY <1>1, <3>1 DEF F
      <4>. QED  BY <2>3, <2>4, <2>6, <4>1
    <3>2. CASE n \in 1 .. at
      <4>1. source'[n] = source[n]
        BY <1>1
      <4>2. /\ source[n].name \in DOMAIN Validator
            /\ Validator[source[n].name] =
                 [k \in DOMAIN source[n].fields |-> parseStruct(source[n].fields[k])]
        BY <1>4, <2>6, <3>2, <4>1 DEF StructsRead
      <4>. QED  BY <2>3, <4>1, <4>2
    <3>. QED  BY <1>5, <3>1, <3>2
  <2>7. StructsRead'
    BY <2>5, <2>6 DEF StructsRead
  <2>8. IsInt' => \E f \in Fields : f.tagged /\ f.type = "int"
    BY <1>3, <1>8, <1>10, <1>12
  <2>9. IsParamName' => \E f \in Fields : f.tagged /\ Has(f.items, "paramname")
    BY <1>3, <1>8, <1>10, <1>12
  <2>. QED  BY <1>1, <1>3, <1>4, <1>7, <1>8, <1>9, <1>12, <2>7, <2>8, <2>9 DEF GenIInv
<1>. QED  BY <1>11, <1>12

\* Nothing that was read changes any more
LEMMA WrittenSame ==
  ASSUME UNCHANGED <<source, at, Srv, Validator, IsInt, IsParamName>>
  PROVE  /\ MethodsRead' = MethodsRead /\ StructsRead' = StructsRead /\ Fields' = Fields
         /\ Compiles' = Compiles
BY DEF MethodsRead, MarkedRead, StructsRead, Fields, Compiles, Handlers, ParamInStruct,
       WrapperCompiles, FieldsOf

LEMMA WriteInv == GenIInv /\ Write => GenIInv'
BY WrittenSame DEF Write, GenIInv

LEMMA ServeHTTPInv == \A r : GenIInv /\ ServeHTTP(r) => GenIInv'
<1>. SUFFICES ASSUME NEW r, GenIInv, ServeHTTP(r) PROVE GenIInv'
  OBVIOUS
<1>1. /\ genPc = "serving" /\ r.recv \in DOMAIN Srv /\ request' = r /\ answer' = AnswerTo(r)
      /\ UNCHANGED <<genPc, source, at, Srv, Validator, IsInt, IsParamName>>
  BY DEF ServeHTTP
<1>2. request'.recv \in DOMAIN Srv /\ answer' = AnswerTo(request')
  BY <1>1
<1>3. AnswerTo(request)' = AnswerTo(request')
  <2>1. Srv' = Srv /\ Validator' = Validator
    BY <1>1
  <2>. QED  BY <2>1 DEF AnswerTo, Wrapper, ParamInStruct
<1>. QED  BY <1>1, <1>2, <1>3, WrittenSame DEF GenIInv

LEMMA GenInvNext == GenIInv /\ [GenNext]_genVars => GenIInv'
<1>. SUFFICES ASSUME GenIInv, [GenNext]_genVars PROVE GenIInv'
  OBVIOUS
<1>1. CASE \E file \in Sources : Generate(file)
  BY <1>1, GenerateInv
<1>2. CASE genStruct
  BY <1>2, genStructInv
<1>3. CASE genFunction
  BY <1>3, genFunctionInv
<1>4. CASE Write
  BY <1>4, WriteInv
<1>5. CASE \E r \in Requests : ServeHTTP(r)
  BY <1>5, ServeHTTPInv
<1>6. CASE UNCHANGED genVars
  <2>1. /\ genPc' = genPc /\ request' = request /\ answer' = answer
        /\ UNCHANGED <<source, at, Srv, Validator, IsInt, IsParamName>>
    BY <1>6 DEF genVars
  <2>2. AnswerTo(request)' = AnswerTo(request)
    BY <2>1 DEF AnswerTo, Wrapper, ParamInStruct
  <2>. QED  BY <2>1, <2>2, WrittenSame DEF GenIInv
<1>. QED  BY <1>1, <1>2, <1>3, <1>4, <1>5, <1>6 DEF GenNext

\* The invariant says enough
LEMMA HandlersRight == GenIInv => HandlersFollowTags
<1>. SUFFICES ASSUME GenIInv, genPc \notin {"idle", "scan"}, Supported
              PROVE  /\ genPc = "serving"
                     /\ (/\ answer.is # "none" /\ request.method \in {"GET", "POST"}
                         /\ ParametersNamedOnce(request)) =>
                          LET here == {h \in Marked : h.recv = request.recv /\ h.url = request.url}
                          IN  IF here = {} THEN answer = Refused("unknown", "")
                              ELSE \A h \in here : RightAnswer(h, request)
  BY DEF HandlersFollowTags, ParametersNamedOnce
<1>1. genPc # "panicked"
  BY DEF GenIInv, Supported
<1>2. ReadAll
  BY <1>1 DEF GenIInv, ReadAll
<1>3. Compiles
  BY <1>2, SupportedCompiles DEF GenIInv
<1>4. genPc = "serving"
  BY <1>1, <1>3 DEF GenIInv
<1>5. ASSUME answer.is # "none" PROVE request.recv \in DOMAIN Srv /\ answer = AnswerTo(request)
  BY <1>5 DEF GenIInv
<1>. QED  BY <1>2, <1>4, <1>5, AnswerRight

\* Of a file whose tags the templates support, of any number of types, structs and methods
\* in any order, the generator writes code that compiles and that does with every request
\* what the tags say (codegen.go:248-437).
THEOREM TagsFollowed == GenSpec => []HandlersFollowTags
<1>1. GenSpec => []GenIInv
  BY GenInitInv, GenInvNext, PTL DEF GenSpec
<1>. QED  BY <1>1, HandlersRight, PTL

=============================================================================
