----------------------------- MODULE MCFsHandlers -----------------------------
(* Two threads and three commands: each kind of command meets each other    *)
(* one at the file and the directory both name, and the effects of a first  *)
(* one (a name that is a directory now, or nothing) are there for two that  *)
(* overlap.  No file is empty at first and nothing empty is written, so an  *)
(* empty file is one that was truncated.                                    *)
EXTENDS FsHandlers

A == <<"a">>
D == <<"d">>
DA == <<"d", "a">>
EB == <<"e", "b">>

Op(kind, path) == [kind |-> kind, path |-> path, to |-> <<>>, content |-> Nothing]
OpTo(kind, path, to) == [Op(kind, path) EXCEPT !.to = to]
Write(path, content) == [Op("write", path) EXCEPT !.content = content]

MCOps ==
    {Write(A, <<1>>), Write(A, Bad), Write(DA, <<2, 2>>),
     Op("delete", A), Op("delete", D), Op("create-directory", A),
     Op("read", A), Op("read-directory", D), Op("stat", DA),
     OpTo("copy", A, D), OpTo("copy", DA, A),
     OpTo("rename", A, D), OpTo("rename", D, A),
     OpTo("rename", D, EB)}

MCTree == (A :> "f1") @@ (D :> Dir) @@ (DA :> "f2")
MCFiles == {"f1", "f2", "f3", "f4", "f5", "f6", "f7"}
MCData == [f \in MCFiles |-> CASE f = "f1" -> <<3, 4>> [] f = "f2" -> <<5>> [] OTHER -> <<9>>]
=============================================================================
