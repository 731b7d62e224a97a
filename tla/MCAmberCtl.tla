---------------------------- MODULE MCAmberCtl ----------------------------
(***************************************************************************)
(* Model values for AmberCtl: one command of each kind of the switch plus *)
(* an unrecognised one, names with and without the leading "/", an empty *)
(* and a given version, and daemon replies that fit the 1024-byte read    *)
(* buffer and one that does not.                                          *)
(***************************************************************************)
EXTENDS AmberCtl

MCCommands == {"get_up", "get_blob", "add_src", "test", "bogus"}
MCPkgNames == {<<>>, <<"p">>, <<"/", "p">>}
MCPkgVersions == {<<>>, <<"2">>}
MCMsgSizes == {64, 2048}
=============================================================================
