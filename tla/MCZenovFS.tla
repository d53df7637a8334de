------------------------------ MODULE MCZenovFS ------------------------------
(* Bounds of the ZenovFS runs: one directory level, payloads of up to two     *)
(* sectors.                                                                   *)
EXTENDS ZenovFS

MCPaths == {<< >>, <<"d">>, <<"d", "f">>}
=============================================================================
