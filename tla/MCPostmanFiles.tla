---------------------------- MODULE MCPostmanFiles ----------------------------
(* Imports of collections and archives into one directory, with files there *)
(* now.  The first collection has a folder whose name is cleaned to         *)
(* nothing, and one without requests above one that has some; the second    *)
(* has a folder that is hidden when it is saved, and a definition that      *)
(* cannot be parsed; the fourth cannot be formatted.  Of the archives, one  *)
(* is saved under a name that is taken, one cannot be formatted and is      *)
(* saved under a name that is never exported.                               *)
EXTENDS PostmanFiles, TLC

F(place, above, auth, requests) ==
    [place |-> place, above |-> above, auth |-> auth, requests |-> requests]

W(kind, dir, name, overwrite, variables, described, folders) ==
    [kind |-> kind, dir |-> dir, name |-> name, overwrite |-> overwrite,
     variables |-> variables, described |-> described, folders |-> folders]

First ==
    <<F(<<>>, 0, "basic", <<>>),
      F(<<"users">>, 1, None, <<"plain", "noauth", "raises">>),
      F(<<"users", "x">>, 2, "digest", <<>>),
      F(<<"users", "x", "y">>, 3, None, <<"plain">>),
      F(<<>>, 1, None, <<"plain">>)>>
Second ==
    <<F(<<>>, 0, None, <<"plain">>),
      F(<<".old">>, 1, None, <<"plain">>)>>
Third == <<F(<<>>, 0, None, <<"plain", "unformattable">>)>>
Fifth == <<F(<<>>, 0, None, <<"plain", "raises">>)>>

Fourth == Second \o <<F(<<"users", "new">>, 2, None, <<"unformattable">>)>>

MCImports == {1, 2, 3, 4, 5}
MCWanted ==
    [i \in MCImports |->
        CASE i = 1 -> W("postman", <<"shop">>, "a.http", FALSE, TRUE, TRUE, First)
          [] i = 2 -> W("postman", <<"shop">>, "a.http", FALSE, FALSE, FALSE, Second)
          [] i = 3 -> W("har", <<"shop">>, "b.txt", FALSE, FALSE, FALSE, Third)
          [] i = 4 -> W("postman", <<"shop">>, "a.http", FALSE, TRUE, TRUE, Fourth)
          [] i = 5 -> W("har", <<"shop">>, "b.http", FALSE, FALSE, FALSE, Fifth)]
Old == {[name |-> <<0, 0, 0>>, auth |-> None, base |-> FALSE]}
MCDisk ==
    (Path(<<"shop", "users">>, "a.http") :> Old) @@ (Path(<<"shop">>, "b.http") :> Old)
        @@ (Path(<<"shop">>, "README.txt") :> Old)
MCHidden == {".old", ".dothttp.json"}
MCHttpNames == {"a.http", "b.http"}
MCUnparsable == {<<2, 1, 1>>}
=============================================================================
