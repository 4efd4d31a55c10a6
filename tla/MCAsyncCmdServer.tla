-------------------------- MODULE MCAsyncCmdServer --------------------------
(* Bounds for AsyncCmdServer: every line has an id of its own, none is 0.   *)
EXTENDS AsyncCmdServer

MCIdOf == [l \in Lines |-> l]
=============================================================================
