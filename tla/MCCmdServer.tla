---------------------------- MODULE MCCmdServer ----------------------------
(* Bounds for CmdServer: two of the three ids clash, and one is 0, the id   *)
(* the server uses for lines it cannot decode.                              *)
EXTENDS CmdServer

MCIdOf == [l \in Lines |-> l % 2]
=============================================================================
