---------------------------- MODULE ChatStreamMC ----------------------------
(* ChatStream with two tool calls, one of a custom tool. *)
EXTENDS ChatStream

\* One function and one custom tool, named whole.
MCNames == {<<"lookup">>, <<"patch">>}
MCCustomNames == {<<"patch">>}

\* A custom tool whose name the upstream may cut in two.
MCNamePieces == {<<"apply">>, <<"patch">>}
MCSplitCustomNames == {<<"apply", "patch">>}
=============================================================================
