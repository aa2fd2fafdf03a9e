----------------------------- MODULE MC_Signer -----------------------------
(***************************************************************************)
(* Instances of Signer for TLC.  A string is a number; the functions on    *)
(* strings are arithmetic and have no collisions on the values that occur. *)
(***************************************************************************)
EXTENDS Signer

MCItoa(n) == n + 1
MCConcat(s, t) == 200 * s + t
MCMd5(s) == 3 * s + 50
MCCrc32(s) == 1 + ((17 * s + 5) % 101)

MCJoined(a) == 1000 * a[0] + a[TH - 1]
MCBefore(s, t) == s < t

\* Nothing to sign, one value, two in descending order, three with a repetition
MCInputs == {<< >>, <<5>>, <<2, 1>>, <<3, 1, 3>>}
MCTwo == {<<2, 1>>}
============================================================================
