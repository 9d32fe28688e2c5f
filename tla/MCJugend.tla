------------------------------ MODULE MCJugend ------------------------------
(***************************************************************************)
(* A buffer of two bytes for Jugend, and paths that leave room for their   *)
(* end, fill it and are longer than it.                                    *)
(***************************************************************************)
EXTENDS Jugend

MCMovePath == <<"m">>
MCPaths == {MCMovePath, <<"x", "y">>, <<"x", "y", "z">>}
MCBehind == {<<>>, <<"z">>}
=============================================================================
