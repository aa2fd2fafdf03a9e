------------------------------ MODULE HashFarm ------------------------------
(***************************************************************************)
(* What the pipeline of the signer promises: inputs are taken in order,    *)
(* each is hashed once, at any time after it was taken and in any order,   *)
(* and one result is published when all have been hashed: the hashes,      *)
(* sorted.                                                                 *)
(***************************************************************************)
EXTENDS Naturals, Sequences

CONSTANTS
  Inputs,       \* the input sequences to be signed
  HashOf(_),    \* the hash of one input value
  Sortings(_)   \* what sorting can make of a sequence of hashes

VARIABLES input, taken, hashed, result, ended

vars == <<input, taken, hashed, result, ended>>

Init ==
  /\ input \in Inputs
  /\ taken = 0
  /\ hashed = {}
  /\ result = << >>
  /\ ended = FALSE

Take ==
  /\ taken < Len(input)
  /\ taken' = taken + 1
  /\ UNCHANGED <<input, hashed, result, ended>>

Hash(k) ==
  /\ k \in (1 .. taken) \ hashed
  /\ result = << >>
  /\ hashed' = hashed \cup {k}
  /\ UNCHANGED <<input, taken, result, ended>>

Publish ==
  /\ hashed = 1 .. Len(input)
  /\ result = << >>
  /\ \E q \in Sortings([k \in 1 .. Len(input) |-> HashOf(input[k])]) : result' = <<q>>
  /\ UNCHANGED <<input, taken, hashed, ended>>

End ==
  /\ result # << >> /\ ~ ended
  /\ ended' = TRUE
  /\ UNCHANGED <<input, taken, hashed, result>>

Next ==
  \/ Take \/ Publish \/ End
  \/ \E k \in DOMAIN input : Hash(k)

Spec == Init /\ [][Next]_vars
=============================================================================
