---------------------------- MODULE MC_UserApi ----------------------------
(***************************************************************************)
(* An instance of UserApi for TLC.  Two requests create or look up, the    *)
(* third does so or sends anything else: fields on both sides of every     *)
(* bound, requests that are refused, and requests to OtherApi.             *)
(***************************************************************************)
EXTENDS UserApi, TLC

CONSTANTS r1, r2, r3, ivan, short, bad, badname, name1, name2

MCLength ==
  (ivan :> 10 @@ short :> 9 @@ bad :> 8 @@ badname :> 12 @@ Rvasily :> 7)

Valid ==
  [api |-> "my", path |-> CreatePath, method |-> "POST", auth |-> TRUE, login |-> ivan,
   full_name |-> name1, name |-> name2, status |-> "moderator", age |-> 128]

Lookups ==
  {[Valid EXCEPT !.path = ProfilePath, !.login = l, !.method = m] :
     l \in {ivan, Rvasily, bad}, m \in {"GET"}}
    \cup {[Valid EXCEPT !.path = ProfilePath, !.method = "PUT"],
          [Valid EXCEPT !.path = ProfilePath, !.login = Absent]}

Creates ==
  {Valid, [Valid EXCEPT !.full_name = Absent, !.name = name1, !.status = Absent, !.age = 0]}

Refused ==
  {[Valid EXCEPT !.method = "GET"], [Valid EXCEPT !.auth = FALSE],
   [Valid EXCEPT !.login = Absent], [Valid EXCEPT !.login = short],
   [Valid EXCEPT !.login = badname], [Valid EXCEPT !.status = "adm"],
   [Valid EXCEPT !.age = NotInt], [Valid EXCEPT !.age = 129], [Valid EXCEPT !.age = 0 - 1],
   [Valid EXCEPT !.path = "other path"]}

Others ==
  {[Valid EXCEPT !.api = "other", !.status = s, !.age = n, !.path = p] :
     s \in {Absent, "user"}, n \in {0, 50}, p \in {CreatePath, ProfilePath}}

MCInputs ==
  [r \in Requests |-> Lookups \cup Creates \cup (IF r = r3 THEN Refused \cup Others ELSE {})]
MCLogins == {ivan, short, bad, badname, Rvasily}
MCLower == (name1 :> name2 @@ name2 :> name2 @@ VasilyRomanov :> name2)
MCStatuses == {"user", "moderator", "admin", "adm"}
=============================================================================
