---------------------------- MODULE MCPeerLines -----------------------------
EXTENDS PeerLines

(* With MaxSize = 3, a line of two bytes and a newline fills the largest   *)
(* buffer and one byte more is too long; an output of three bytes does not *)
(* fit with the NUL behind it.                                             *)
MCLines == {<<>>, <<"x", "y">>}
MCEols == {<<NL>>, <<CR, NL>>}
MCOutputs == {<<"x", "y">>, <<"y", "y", "y">>}
MCNotice == <<"w">>
=============================================================================
