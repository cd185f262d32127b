------------------------------- MODULE MCMJson -------------------------------
(* MJson for TLC: two names, the shapes of path that tell most apart. *)
EXTENDS MJson

MCNames == {"a", "b"}
MCPaths == {<<>>, <<Key("a")>>, <<Key("a"), Key("b")>>, <<Key("b"), At(1)>>, <<At(0), Key("a")>>}
=============================================================================
