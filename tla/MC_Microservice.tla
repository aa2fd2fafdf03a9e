--------------------------- MODULE MC_Microservice ---------------------------
(***************************************************************************)
(* Instances of Microservice for TLC.  The ACL is that of service_test.go, *)
(* each name split at "/".  Every id says who calls what:                  *)
(*   c1, c2   /main.Biz/Check by biz_user, /main.Biz/Test by biz_admin     *)
(*   bad      /main.Biz/Test by biz_user, refused                          *)
(*   anon     /main.Biz/Check without metadata, refused                    *)
(*   l1, l2   loggers;  badlog  a logger whose consumer is biz_user        *)
(*   t1, t2   statistics streams                                           *)
(***************************************************************************)
EXTENDS Microservice, TLC

CONSTANTS c1, c2, bad, anon, l1, l2, badlog, t1, t2

Name(service, method) == <<"", service, method>>

MCAcl ==
  [ logger    |-> {Name("main.Admin", "Logging")},
    stat      |-> {Name("main.Admin", "Statistics")},
    biz_user  |-> {Name("main.Biz", "Check"), Name("main.Biz", "Add")},
    biz_admin |-> {Name("main.Biz", "*")} ]

MCConsumer ==
  [r \in Rpcs |-> CASE r = anon -> << >>
                    [] r \in {c1, bad, badlog} -> <<"biz_user">>
                    [] r = c2 -> <<"biz_admin">>
                    [] r \in Loggers \ {badlog} -> <<"logger">>
                    [] r \in Stats -> <<"stat">>]

MCMethod ==
  [r \in Rpcs |-> CASE r \in {c1, anon} -> Name("main.Biz", "Check")
                    [] r \in {c2, bad} -> Name("main.Biz", "Test")
                    [] r \in Loggers -> Name("main.Admin", "Logging")
                    [] r \in Stats -> Name("main.Admin", "Statistics")]

\* The ACL of the test and who is refused by it (TestACL, service_test.go:146-178)
ASSUME AclOfTheTest == \A r \in Rpcs : Granted(r) <=> r \notin {bad, anon, badlog}

Symmetry == Permutations(Loggers \ {badlog}) \cup Permutations(Stats)
=============================================================================
