----------------------------- MODULE ChatPathsMC -----------------------------
(* ChatPaths with two tool calls, one of a custom tool. *)
EXTENDS ChatPaths

MCNames == {<<"lookup">>, <<"patch">>}
MCCustomNames == {<<"patch">>}
=============================================================================
