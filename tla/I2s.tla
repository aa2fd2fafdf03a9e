-------------------------------- MODULE I2s --------------------------------
(***************************************************************************)
(* part_2/hw8_i2s/i2s.go: filling a Go value from decoded JSON.  i2s,      *)
(* processMap and processSlice call each other; the model keeps their      *)
(* calls as a stack of loops, one for every map and slice being gone       *)
(* through.  The order in which processMap takes keys is up to the runtime.*)
(***************************************************************************)
EXTENDS Paths, Integers, Sequences, FiniteSets

CONSTANT Calls   \* the calls: [data, type, out, pointer], out a value of the type

\* Data, types and values are functions of paths.  A step of a path is the name of a
\* field, which is a number, or an index; in a type, Elem stands for every index.
\*   data: [json : {"map", "slice", "null"}], [json : {"number", "string", "bool"}, val];
\*         a number is counted in tenths, so that it may have a fraction
\*   type: "int", "string", "bool", "slice" or "struct"
\*   value: the scalars that were set, and the lengths of slices; the rest is zero
Elem == 0

ASSUME I2sAssumption ==
  \A c \in Calls :
    /\ << >> \in DOMAIN c.data /\ DOMAIN c.data \subseteq Seq(Nat \ {Elem})
    /\ \A p \in DOMAIN c.data : \A k \in 0 .. Len(p) - 1 :
         SubSeq(p, 1, k) \in DOMAIN c.data /\ c.data[SubSeq(p, 1, k)].json \in {"map", "slice"}
    /\ << >> \in DOMAIN c.type /\ DOMAIN c.type \subseteq Seq(Nat)
    /\ \A t \in DOMAIN c.type : c.type[t] = "slice" => Append(t, Elem) \in DOMAIN c.type
    /\ DOMAIN c.out \subseteq Seq(Nat \ {Elem}) /\ c.out = [p \in DOMAIN c.out |-> c.out[p]]

VARIABLES
  call,
  result,   \* [res : {"none", "called", "filling", "ok", "error", "panic"}, out]
  loops     \* the loops, the innermost last: at the map or slice, what is left, its value

i2sVars == <<call, result, loops>>

-----------------------------------------------------------------------------

Returns(res, out) == [res |-> res, out |-> out]

Json(p) == call.data[p].json

\* The keys of a map, or the elements of a slice
Parts(p) == {q \in DOMAIN call.data \ {<< >>} : In(q) = p}

\* The place in the type for the data at p
TypePath(p) == [k \in DOMAIN p |-> IF Json(SubSeq(p, 1, k - 1)) = "slice" THEN Elem ELSE p[k]]
Kind(p) == call.type[TypePath(p)]

\* int64(castVal)
Truncated(n) == IF n >= 0 THEN n \div 10 ELSE 0 - ((0 - n) \div 10)

\* The type of the field is the one of the scalar
Fits(p) ==
  <<Json(p), Kind(p)>> \in {<<"number", "int">>, <<"string", "string">>, <<"bool", "bool">>}

Scalar(p) == IF Json(p) = "number" THEN Truncated(call.data[p].val) ELSE call.data[p].val

\* The values that reflect.New and reflect.MakeSlice make
Zero == << >>
MakeSlice(p) == [q \in {p} |-> Cardinality(Parts(p))]

\* Set: value new for what was at q
Put(old, q, new) ==
  [p \in {p \in DOMAIN old : ~ Starts(q, p)} \cup DOMAIN new |->
     IF p \in DOMAIN new THEN new[p] ELSE old[p]]

\* What i2s does with the data at p.  Fields are for structs alone; data of no kind
\* below is passed over
Begins(p) ==
  IF Json(p) = "slice" THEN IF Kind(p) = "slice" THEN "fill" ELSE "error"
  ELSE IF Json(p) # "map" THEN "skip"
  ELSE IF Parts(p) = {} THEN "error"
  ELSE IF Kind(p) = "struct" THEN "fill" ELSE "panic"

\* What processMap does with a field.  An unknown key has no field to ask for its type,
\* null has no kind, and MakeSlice makes slices alone
BeginsField(p) ==
  IF TypePath(p) \notin DOMAIN call.type \/ Json(p) = "null" THEN "panic"
  ELSE IF Json(p) = "map" THEN Begins(p)
  ELSE IF Json(p) = "slice" THEN IF Kind(p) = "slice" THEN "fill" ELSE "panic"
  ELSE IF Fits(p) THEN "set" ELSE "error"

\* The loop of processMap, which sets fields of out itself, or one over a slice
Loop(p) ==
  [at |-> p, left |-> Parts(p),
   out |-> IF Json(p) = "slice" THEN MakeSlice(p) ELSE IF p = << >> THEN call.out ELSE Zero]

Top == loops[Len(loops)]
Below == SubSeq(loops, 1, Len(loops) - 1)

\* Fault: a value is set before the error of filling it is looked at
OutSoFarWithPart ==
  IF Json(<< >>) = "map" /\ Len(loops) > 1 THEN Put(loops[1].out, loops[2].at, loops[2].out)
  ELSE IF Json(<< >>) = "map" /\ loops # << >> THEN loops[1].out ELSE call.out

\* What out holds when i2s stops now: a slice is set at the end, fields at once
OutSoFar == IF Json(<< >>) = "map" /\ loops # << >> THEN loops[1].out ELSE call.out

\* The key or element whose turn it may be
Turn(q) ==
  /\ result.res = "filling" /\ q \in Top.left
  /\ Json(Top.at) = "slice" => \A r \in Top.left : Base(q) <= Base(r)

Does(q) == IF Json(Top.at) = "map" THEN BeginsField(q) ELSE Begins(q)

Without(q) == [Top EXCEPT !.left = @ \ {q}]

-----------------------------------------------------------------------------

i2sInit == call = << >> /\ result = Returns("none", 0) /\ loops = << >>

\* A call; out must be a pointer
CallI2s(c) ==
  /\ result.res = "none"
  /\ call' = c /\ result' = Returns(IF c.pointer THEN "called" ELSE "error", c.out)
  /\ UNCHANGED loops

\* i2s, on the whole data
Begin ==
  /\ result.res = "called" /\ UNCHANGED call
  /\ IF Begins(<< >>) = "fill"
     THEN loops' = <<Loop(<< >>)>> /\ result' = Returns("filling", call.out)
     ELSE /\ result' = Returns(IF Begins(<< >>) = "skip" THEN "ok" ELSE Begins(<< >>), call.out)
          /\ UNCHANGED loops

\* i2s on a part, or the slice loop of processMap
Descend(q) ==
  /\ Turn(q) /\ Does(q) = "fill"
  /\ loops' = Append(Append(Below, Without(q)), Loop(q))
  /\ UNCHANGED <<call, result>>

\* SetInt, SetString, SetBool
SetScalar(q) ==
  /\ Turn(q) /\ Does(q) = "set"
  /\ loops' = Append(Below, [Without(q) EXCEPT !.out = Put(@, q, [p \in {q} |-> Scalar(q)])])
  /\ UNCHANGED <<call, result>>

PassOver(q) ==
  /\ Turn(q) /\ Does(q) = "skip"
  /\ loops' = Append(Below, Without(q))
  /\ UNCHANGED <<call, result>>

\* An error goes up through all the calls, and so does a panic
Fail(q) ==
  /\ Turn(q) /\ Does(q) \in {"error", "panic"}
  /\ result' = Returns(Does(q), OutSoFar) /\ loops' = << >>
  /\ UNCHANGED call

\* The end of an inner loop, whose value is set in the outer one
Ascend ==
  /\ result.res = "filling" /\ Top.left = {} /\ Len(loops) > 1
  /\ LET outer == loops[Len(loops) - 1]
     IN  loops' = Append(SubSeq(loops, 1, Len(loops) - 2),
                         [outer EXCEPT !.out = Put(@, Top.at, Top.out)])
  /\ UNCHANGED <<call, result>>

\* The end of the outermost one
Succeed ==
  /\ result.res = "filling" /\ Top.left = {} /\ Len(loops) = 1
  /\ result' = Returns("ok", Top.out) /\ loops' = << >>
  /\ UNCHANGED call

i2sNext ==
  \/ \E c \in Calls : CallI2s(c)
  \/ Begin \/ Ascend \/ Succeed
  \/ /\ result.res = "filling"
     /\ \E q \in Top.left : Descend(q) \/ SetScalar(q) \/ PassOver(q) \/ Fail(q)

i2sSpec == i2sInit /\ [][i2sNext]_i2sVars

-----------------------------------------------------------------------------
(* Safety.  What copying the data into a value of the type should give.    *)

\* The data at p has the shape of the type; a struct takes at least one known field
ConformsAt(p) ==
  /\ TypePath(p) \in DOMAIN call.type
  /\ CASE Json(p) = "map" -> Kind(p) = "struct" /\ Parts(p) # {}
       [] Json(p) = "slice" -> Kind(p) = "slice"
       [] OTHER -> Fits(p)

Conforms(q) == \A p \in DOMAIN call.data : Starts(q, p) => ConformsAt(p)

\* The copy of the data at q, and out with a copy for every field that the data names
Written(q) == {p \in DOMAIN call.data : Starts(q, p) /\ Json(p) # "map"}
Copied(p) == IF Json(p) = "slice" THEN Cardinality(Parts(p)) ELSE Scalar(p)
Copy(q) == [p \in Written(q) |-> Copied(p)]
Untouched ==
  {p \in DOMAIN call.out : Json(<< >>) = "map" /\ ~ \E q \in Parts(<< >>) : Starts(q, p)}
OutCopied ==
  [p \in Untouched \cup Written(<< >>) |->
     IF p \in Written(<< >>) THEN Copied(p) ELSE call.out[p]]

\* The elements of slices are structs or slices, as in every test
NoScalarsInSlices ==
  \A p \in DOMAIN call.data \ {<< >>} :
    Json(In(p)) = "slice" => Json(p) \in {"map", "slice"}

Part(value, f) == [p \in {p \in DOMAIN value : Starts(f, p)} |-> value[p]]

\* A field of the struct is as it was, or the copy of its own data
CopiedOrKept(f) ==
  \/ Part(result.out, f) = Part(call.out, f)
  \/ f \in DOMAIN call.data /\ Conforms(f) /\ Part(result.out, f) = Copy(f)

\* i2s succeeds just for data of the shape of out, and then out is the copy of the
\* data (TestSimple, TestComplex, TestSlice, TestErrors); when it does not, whatever
\* the order in which the map was gone through, every field is as it was or the copy
\* of its own data, and a slice is as it was (i2s.go:32,54).
CopiesOrFails ==
  (/\ result.res \in {"ok", "error", "panic"} /\ NoScalarsInSlices
   /\ Json(<< >>) \in {"map", "slice"}) =>
    /\ result.res = "ok" <=> call.pointer /\ Conforms(<< >>)
    /\ result.res = "ok" => result.out = OutCopied
    /\ result.res # "ok" =>
         IF Json(<< >>) = "map" /\ call.type[<< >>] = "struct"
         THEN \A f \in DOMAIN call.type : Len(f) = 1 => CopiedOrKept(f)
         ELSE result.out = call.out

-----------------------------------------------------------------------------
(* What the proofs need to know of every reachable state.                  *)

\* The parts that a loop is through with
Done(j) ==
  {q \in Parts(loops[j].at) \ loops[j].left : j < Len(loops) => q # loops[j + 1].at}

\* What a loop at p that is through with the parts D has for a value: the copies of
\* these, and what was in out before
WrittenBy(p, D) ==
  {d \in DOMAIN call.data : \/ Json(d) # "map" /\ \E q \in D : Starts(q, d)
                            \/ Json(d) = "slice" /\ d = p}
KeptBy(p, D) ==
  {d \in DOMAIN call.out : p = << >> /\ Json(p) = "map" /\ ~ \E q \in D : Starts(q, d)}
Filled(p, D) ==
  [d \in KeptBy(p, D) \cup WrittenBy(p, D) |->
     IF d \in WrittenBy(p, D) THEN Copied(d) ELSE call.out[d]]

\* A loop is at a part of the one around it, which has been taken
Stacked ==
  /\ loops \in Seq({loops[j] : j \in DOMAIN loops}) /\ loops # << >> /\ loops[1].at = << >>
  /\ \A j \in DOMAIN loops :
       /\ loops[j] = [at |-> loops[j].at, left |-> loops[j].left, out |-> loops[j].out]
       /\ loops[j].at \in DOMAIN call.data /\ loops[j].left \subseteq Parts(loops[j].at)
       /\ Json(loops[j].at) \in {"map", "slice"} /\ ConformsAt(loops[j].at)
       /\ j # 1 => loops[j].at \in Parts(loops[j - 1].at) \ loops[j - 1].left

CopiedSoFar ==
  NoScalarsInSlices =>
    \A j \in DOMAIN loops : /\ loops[j].out = Filled(loops[j].at, Done(j))
                            /\ \A q \in Done(j) : Conforms(q)

i2sIInv ==
  /\ result.res \in {"none", "called", "filling", "ok", "error", "panic"}
  /\ result.res # "none" => call \in Calls
  /\ result.res = "called" => call.pointer
  /\ result.res = "filling" => call.pointer /\ Stacked /\ CopiedSoFar
  /\ result.res # "filling" => loops = << >>
  /\ CopiesOrFails
=============================================================================
