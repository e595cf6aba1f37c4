------------------------------ MODULE MCWatch ------------------------------
(***************************************************************************)
(* TLC instances of Watch: a `sync -watch' and an MCP server on one        *)
(* database, a peer whose second thread is broken, and one that is fine.   *)
(***************************************************************************)
EXTENDS Watch

MCList == [q \in {"broken", "fine"} |-> IF q = "broken" THEN <<"t1", "t2">> ELSE <<"t1">>]
MCBroken == {<<"broken", "t2">>}
MCStored == <<TRUE>>
MCDim == [p \in {"watch", "mcp"} |-> 2]
=============================================================================
