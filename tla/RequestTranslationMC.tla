------------------------ MODULE RequestTranslationMC ------------------------
(* Inputs with two call ids, a function and a custom tool, outputs with and   *)
(* without media, and one item of every kind that is skipped or refused.      *)
EXTENDS RequestTranslation

CONSTANTS c1, c2

Lookup == <<"lookup">>
Patch == <<"patch">>
MCNames == {Lookup, Patch}
MCCustomNames == {Patch}

call(name, id, sent) == [type |-> toolKind(name), name |-> name, id |-> id, sent |-> sent]
outputOf(id, parts) == [type |-> "output", id |-> id, output |-> [parts |-> parts]]
message(role, form, parts) ==
    [type |-> "message", role |-> role, content |-> [form |-> form, parts |-> parts]]

MCItems ==
    {call(Lookup, c1, <<EmptyObject>>), call(Patch, c2, <<"open", "x", "close">>),
     call(Lookup, NoCall, <<"x">>), call(Patch, NoCall, <<>>), call(<<>>, c1, <<>>),
     outputOf(c1, <<"text", "emptyImage", "image">>), outputOf(c2, <<"emptyImage", "nestedFile">>),
     outputOf(c2, <<"text", "other">>), outputOf(NoCall, <<"text">>),
     message("user", "parts", <<"text", "nestedFile", "file", "other">>),
     message("user", "parts", <<"hollow">>), message("user", "parts", <<"emptyImage">>),
     message("assistant", "parts", <<"text", "image">>), message("assistant", "absent", <<>>),
     message("system", "string", <<"text">>), message("critic", "string", <<"text">>),
     [type |-> "reasoning"], [type |-> "unknown"], [type |-> "scalar"]}
=============================================================================
